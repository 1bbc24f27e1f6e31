------------------------------ MODULE TextProofs ------------------------------
(***************************************************************************)
(* Theorems about Messages, for any chats and any number of texts, keys    *)
(* and faults: the first text of a buffer does not leave in the clear,     *)
(* what was encrypted can be read back, and the icon tells the truth.      *)
(***************************************************************************)
EXTENDS MessagesProofs

(* A minimum is known by what it is.                                       *)
LEMMA LeastIs ==
  ASSUME NEW S \in SUBSET Nat, NEW x \in S, \A y \in S : x <= y
  PROVE  Min(S) = x
<1>1. Min(S) \in S /\ \A y \in S : Min(S) <= y
  BY DEF Min
<1>2. Min(S) <= x /\ x <= Min(S) /\ Min(S) \in Nat /\ x \in Nat
  BY <1>1
<1> QED
  BY <1>2

(* Nothing in a set of naturals is less than its minimum.                  *)
LEMMA LeastBelow ==
  ASSUME NEW S \in SUBSET Nat, S # {}
  PROVE  Min(S) \in S /\ \A y \in S : Min(S) <= y
<1>1. PICK x \in S : \A y \in S : ~(<<y, x>> \in OpToRel(<, Nat))
  BY WFMin, NatLessThanWellFounded
<1>2. ASSUME NEW y \in S PROVE x <= y
  <2>1. ~(y < x) /\ x \in Nat /\ y \in Nat
    BY <1>1 DEF OpToRel
  <2> QED
    BY <2>1
<1> QED
  BY <1>2 DEF Min

(* Among finitely many numbers there is one that has k below it.           *)
LEMMA RankExists ==
  ASSUME NEW S \in SUBSET Nat, IsFiniteSet(S)
  PROVE  \A k \in 0 .. Cardinality(S) - 1 :
           \E t \in S : Cardinality({s \in S : s < t}) = k
<1> DEFINE Below(t) == {s \in S : s < t}
           Missing == {k \in 0 .. Cardinality(S) - 1 : \A t \in S : Cardinality(Below(t)) # k}
<1>1. Cardinality(S) \in Nat
  BY FS_CardinalityType
<1>2. SUFFICES ASSUME Missing # {} PROVE FALSE
  OBVIOUS
<1>3. PICK k \in Missing : \A j \in Missing : k <= j
  <2>1. Missing \in SUBSET Nat
    BY <1>1
  <2> HIDE DEF Missing
  <2>2. Min(Missing) \in Missing /\ \A j \in Missing : Min(Missing) <= j
    BY <1>2, <2>1, LeastBelow
  <2> QED
    BY <2>2
<1>4. k \in 0 .. Cardinality(S) - 1 /\ \A t \in S : Cardinality(Below(t)) # k
  BY <1>3
<1>5. CASE k = 0
  <2>1. S # {}
    BY <1>1, <1>4, <1>5, FS_EmptySet
  <2>2. Min(S) \in S /\ \A y \in S : Min(S) <= y
    BY <2>1, LeastBelow
  <2>3. Below(Min(S)) = {}
    <3>1. ASSUME NEW s \in S, s < Min(S) PROVE FALSE
      <4>1. Min(S) <= s /\ s \in Nat /\ Min(S) \in Nat
        BY <2>2
      <4> QED
        BY <3>1, <4>1
    <3> QED
      BY <3>1
  <2> QED
    BY <1>4, <1>5, <2>2, <2>3, FS_EmptySet
<1>6. CASE k # 0
  <2>1. k - 1 \in 0 .. Cardinality(S) - 1 /\ k - 1 \notin Missing
    <3>1. k \in Nat /\ ~(k <= k - 1)
      BY <1>4
    <3> QED
      BY <1>1, <1>3, <1>4, <1>6, <3>1
  <2>2. PICK t \in S : Cardinality(Below(t)) = k - 1
    BY <2>1
  <2> DEFINE Upto == Below(t) \cup {t}
             Above == S \ Upto
  <2>3. IsFiniteSet(Below(t)) /\ t \notin Below(t)
    <3>1. Below(t) \in SUBSET S /\ t \in Nat
      OBVIOUS
    <3> QED
      BY <3>1, FS_Subset
  <2>4. Cardinality(Upto) = k
    <3> HIDE DEF Below
    <3>1. Cardinality(Below(t) \cup {t}) = Cardinality(Below(t)) + 1
      BY <2>3, FS_AddElement
    <3> QED
      BY <1>4, <2>2, <3>1
  <2>5. Above # {}
    <3>1. ASSUME S = Upto PROVE FALSE
      BY <1>1, <1>4, <2>4, <3>1
    <3> QED
      BY <3>1
  <2>6. PICK u \in Above : \A y \in Above : u <= y
    <3>1. Above \in SUBSET Nat
      OBVIOUS
    <3> HIDE DEF Above
    <3>2. Min(Above) \in Above /\ \A y \in Above : Min(Above) <= y
      BY <2>5, <3>1, LeastBelow
    <3> QED
      BY <3>2
  <2>7. Below(u) = Upto
    <3>1. u \in S /\ u \in Nat /\ t \in Nat /\ ~(u < t) /\ u # t
      OBVIOUS
    <3>2. ASSUME NEW s \in S, s < u PROVE s \in Upto
      <4>1. s \in Nat /\ (s \in Above => u <= s)
        BY <2>6
      <4> QED
        BY <3>1, <3>2, <4>1
    <3>3. ASSUME NEW s \in Upto PROVE s \in S /\ s < u
      <4>1. s \in S /\ s \in Nat /\ s <= t
        OBVIOUS
      <4> QED
        BY <3>1, <4>1
    <3> QED
      BY <3>2, <3>3
  <2> QED
    BY <1>4, <2>4, <2>6, <2>7
<1> QED
  BY <1>5, <1>6

(* The queue holds the texts that are queued, and is as long as there are.  *)
LEMMA QueueHolds ==
  /\ \E n \in Nat : DOMAIN Queued = 1 .. n /\ (n = 0 <=> In("queued") = {})
  /\ \A i \in DOMAIN Queued : Queued[i] \in In("queued")
<1> DEFINE S == In("queued")
<1>1. S \subseteq Texts /\ Texts \subseteq Nat
  BY BoundsAssumption DEF In, Texts
<1>2. IsFiniteSet(S)
  <2>1. MaxTexts \in Nat
    BY BoundsAssumption
  <2>2. IsFiniteSet(Texts)
    BY <2>1, FS_Interval DEF Texts
  <2> QED
    BY <1>1, <2>2, FS_Subset
<1> HIDE DEF S
<1>3. Cardinality(S) \in Nat /\ (Cardinality(S) = 0 <=> S = {})
  BY <1>2, FS_CardinalityType, FS_EmptySet
<1>4. Queued = [i \in 1 .. Cardinality(S) |->
                  CHOOSE t \in S : Cardinality({s \in S : s < t}) = i - 1]
  BY DEF Queued, S
<1>5. ASSUME NEW i \in 1 .. Cardinality(S)
      PROVE  Queued[i] \in S
  <2>1. i - 1 \in 0 .. Cardinality(S) - 1
    BY <1>3
  <2>2. \E t \in S : Cardinality({s \in S : s < t}) = i - 1
    BY <1>1, <1>2, <2>1, RankExists
  <2> QED
    BY <1>4, <2>2
<1> QED
  BY <1>3, <1>4, <1>5 DEF S

-----------------------------------------------------------------------------
(* The table "aes".                                                        *)

(* Every row has a number of its own, and is in use or out of date.        *)
TableOK(t) ==
  /\ \E S : t \in Seq(S)
  /\ \A i \in DOMAIN t : t[i].n \in 0 .. keys /\ t[i].status \in {InUse, Outdated}
  /\ \A i, j \in DOMAIN t : t[i].n = t[j].n => i = j

(* The row about to be inserted has a number above all of its chat.        *)
DbInv ==
  /\ keys \in Nat
  /\ aes = [c \in Chats |-> aes[c]]
  /\ \A c \in Chats : TableOK(aes[c])
  /\ store # NoStore =>
       /\ store.chat \in Chats /\ store.n \in 0 .. keys
       /\ \A i \in DOMAIN aes[store.chat] : aes[store.chat][i].n < store.n

(* Rows stay, with their numbers and keys, and never come back into use.   *)
Grows(t, u) == \A i \in DOMAIN t :
  /\ i \in DOMAIN u /\ u[i].n = t[i].n /\ u[i].key = t[i].key
  /\ t[i].status = Outdated => u[i].status = Outdated

(* A nonempty set of bounded numbers has a largest.                        *)
LEMMA HasLargest ==
  ASSUME NEW k \in Nat, NEW S \in SUBSET (0 .. k), S # {}
  PROVE  \E x \in S : \A y \in S : x >= y
<1> DEFINE Bounds == {b \in Nat : \A x \in S : x <= b}
<1>1. k \in Bounds
  OBVIOUS
<1>2. PICK b \in Bounds : \A c \in Bounds : b <= c
  <2>1. Bounds \in SUBSET Nat /\ Bounds # {}
    BY <1>1
  <2> HIDE DEF Bounds
  <2>2. Min(Bounds) \in Bounds /\ \A c \in Bounds : Min(Bounds) <= c
    BY <2>1, LeastBelow
  <2> QED
    BY <2>2
<1>3. b \in Nat /\ \A x \in S : x <= b
  OBVIOUS
<1>4. b \in S
  <2>1. SUFFICES ASSUME b \notin S PROVE FALSE
    OBVIOUS
  <2>2. \A x \in S : x \in Nat /\ x <= b - 1
    BY <1>3, <2>1
  <2>3. b - 1 \in Nat
    <3>1. PICK x \in S : TRUE
      OBVIOUS
    <3> QED
      BY <1>3, <2>2, <3>1
  <2>4. b - 1 \in Bounds
    BY <2>2, <2>3
  <2> QED
    BY <1>2, <1>3, <2>4
<1> QED
  BY <1>3, <1>4

(* The number after the last one is new to the table.                      *)
LEMMA LastBound ==
  ASSUME NEW k \in Nat, NEW S, NEW t \in Seq(S), \A i \in DOMAIN t : t[i].n \in 0 .. k
  PROVE  LastKeyN(t) \in 0 .. k /\ \A i \in DOMAIN t : t[i].n <= LastKeyN(t)
<1>1. CASE t = <<>>
  BY <1>1 DEF LastKeyN
<1>2. CASE t # <<>>
  <2>1. KeyNumbers(t) \in SUBSET (0 .. k)
    BY DEF KeyNumbers
  <2>2. KeyNumbers(t) # {}
    <3>1. 1 \in DOMAIN t
      BY <1>2
    <3> QED
      BY <3>1 DEF KeyNumbers
  <2>3. \E x \in KeyNumbers(t) : \A y \in KeyNumbers(t) : x >= y
    BY <2>1, <2>2, HasLargest
  <2>4. LastKeyN(t) \in KeyNumbers(t) /\ \A y \in KeyNumbers(t) : LastKeyN(t) >= y
    BY <1>2, <2>3 DEF LastKeyN, Max
  <2>5. \A i \in DOMAIN t : t[i].n \in KeyNumbers(t)
    BY DEF KeyNumbers
  <2>6. \A i \in DOMAIN t : LastKeyN(t) \in 0 .. k /\ t[i].n \in 0 .. k /\ LastKeyN(t) >= t[i].n
    BY <2>1, <2>4, <2>5
  <2> QED
    BY <2>1, <2>4, <2>6
<1> QED
  BY <1>1, <1>2

(* What the first row of a set of places is.                               *)
LEMMA FirstRowIs ==
  ASSUME NEW S, NEW t \in Seq(S), NEW places, places \subseteq DOMAIN t
  PROVE  \/ places = {} /\ FirstRow(t, places) = <<>>
         \/ \E i \in places : FirstRow(t, places) = <<t[i]>>
<1>1. places \in SUBSET Nat
  OBVIOUS
<1>2. places # {} => Min(places) \in places
  BY <1>1, LeastElement
<1> QED
  BY <1>2 DEF FirstRow

LEMMA Disabled ==
  ASSUME NEW t, TableOK(t)
  PROVE  /\ TableOK(DisableOtherKeys(t)) /\ Grows(t, DisableOtherKeys(t))
         /\ ActiveRow(DisableOtherKeys(t)) = <<>>
<1> DEFINE u == DisableOtherKeys(t)
<1>1. DOMAIN u = DOMAIN t /\ \A i \in DOMAIN t : u[i] = Row(t[i].n, t[i].key, Outdated)
  BY DEF DisableOtherKeys
<1>2. \A i \in DOMAIN t : u[i].n = t[i].n /\ u[i].key = t[i].key /\ u[i].status = Outdated
  BY <1>1 DEF Row
<1>3. \E S : u \in Seq(S)
  <2>1. PICK S : t \in Seq(S)
    BY DEF TableOK
  <2>2. Len(t) \in Nat /\ DOMAIN t = 1 .. Len(t)
    BY <2>1
  <2> DEFINE T == {u[i] : i \in 1 .. Len(t)}
  <2>3. u = [i \in 1 .. Len(t) |-> u[i]]
    BY <2>2 DEF DisableOtherKeys
  <2>4. \A i \in 1 .. Len(t) : u[i] \in T
    OBVIOUS
  <2> HIDE DEF T, u
  <2>5. [i \in 1 .. Len(t) |-> u[i]] \in Seq(T)
    BY <2>2, <2>4
  <2> QED
    BY <2>3, <2>5
<1> HIDE DEF u
<1>4. TableOK(u)
  BY <1>1, <1>2, <1>3 DEF TableOK
<1>5. Grows(t, u)
  BY <1>1, <1>2 DEF Grows
<1>6. ActiveRow(u) = <<>>
  <2>1. WithStatus(u, InUse) = {}
    BY <1>1, <1>2 DEF WithStatus, InUse, Outdated
  <2> QED
    BY <2>1 DEF ActiveRow, FirstRow
<1> QED
  BY <1>4, <1>5, <1>6 DEF u

LEMMA Appended ==
  ASSUME NEW t, TableOK(t), NEW n \in 0 .. keys, NEW k, keys \in Nat,
         \A i \in DOMAIN t : t[i].n < n
  PROVE  /\ TableOK(Append(t, Row(n, k, InUse))) /\ Grows(t, Append(t, Row(n, k, InUse)))
         /\ ActiveRow(Append(t, Row(n, k, InUse))) # <<>>
<1> DEFINE r == Row(n, k, InUse)
           u == Append(t, r)
<1>1. r.n = n /\ r.status = InUse
  BY DEF Row
<1> HIDE DEF r
<1>2. PICK S : t \in Seq(S)
  BY DEF TableOK
<1>3. u \in Seq(S \cup {r})
  BY <1>2
<1>4. /\ DOMAIN u = DOMAIN t \cup {Len(t) + 1} /\ Len(t) + 1 \notin DOMAIN t
      /\ u[Len(t) + 1] = r
      /\ \A i \in DOMAIN t : u[i] = t[i]
  BY <1>2
<1> HIDE DEF u
<1>5. TableOK(u)
  <2>1. \A i \in DOMAIN u : u[i].n \in 0 .. keys /\ u[i].status \in {InUse, Outdated}
    BY <1>1, <1>4 DEF TableOK
  <2>2. ASSUME NEW i \in DOMAIN u, NEW j \in DOMAIN u, u[i].n = u[j].n PROVE i = j
    <3>1. \A x \in DOMAIN t : t[x].n # n
      <4>1. TAKE x \in DOMAIN t
      <4>2. t[x].n \in 0 .. keys /\ t[x].n < n
        BY DEF TableOK
      <4> QED
        BY <4>2
    <3> QED
      BY <1>1, <1>4, <2>2, <3>1 DEF TableOK
  <2> QED
    BY <1>3, <2>1, <2>2 DEF TableOK
<1>6. Grows(t, u)
  BY <1>4 DEF Grows
<1>7. ActiveRow(u) # <<>>
  <2>1. WithStatus(u, InUse) # {}
    BY <1>1, <1>4 DEF WithStatus
  <2> QED
    BY <2>1 DEF ActiveRow, FirstRow
<1> QED
  BY <1>5, <1>6, <1>7 DEF u, r

LEMMA GrowsItself == ASSUME NEW t PROVE Grows(t, t)
BY DEF Grows

LEMMA InitDb == Init => DbInv
<1> SUFFICES ASSUME Init PROVE DbInv
  OBVIOUS
<1>1. <<>> \in Seq({}) /\ DOMAIN <<>> = {}
  OBVIOUS
<1>2. keys = 0 /\ aes = [c \in Chats |-> <<>>] /\ store = NoStore
  BY DEF Init
<1>3. \A c \in Chats : TableOK(aes[c])
  BY <1>1, <1>2 DEF TableOK
<1> QED
  BY <1>2, <1>3 DEF DbInv

(* A step disables the rows of a chat, adds one, or leaves them.           *)
LEMMA DbStep ==
  ASSUME DbInv, [Next]_vars
  PROVE  DbInv' /\ \A c \in Chats : Grows(aes[c], aes'[c])
<1>0. keys \in Nat /\ aes = [c \in Chats |-> aes[c]] /\ \A c \in Chats : TableOK(aes[c])
  BY DEF DbInv
<1>1. CASE UNCHANGED db
  <2>1. aes' = aes /\ store' = store /\ keys' = keys
    BY <1>1 DEF db
  <2> QED
    BY <1>0, <2>1, GrowsItself DEF DbInv, TableOK
<1>2. ASSUME NEW c \in Chats, NEW ok \in BOOLEAN, StoreDisable(c, ok)
      PROVE  DbInv' /\ \A d \in Chats : Grows(aes[d], aes'[d])
  <2>1. /\ keys' = keys + 1 /\ store' = [chat |-> c, n |-> LastKeyN(aes[c]) + 1, key |-> keys + 1]
        /\ aes' = [aes EXCEPT ![c] = IF ok THEN DisableOtherKeys(@) ELSE @]
    BY <1>2, Zenon DEF StoreDisable
  <2>2. ASSUME NEW d \in Chats
        PROVE  /\ aes'[d] = aes[d] \/ aes'[d] = DisableOtherKeys(aes[d])
               /\ TableOK(aes'[d]) /\ Grows(aes[d], aes'[d]) /\ DOMAIN aes'[d] = DOMAIN aes[d]
    <3>1. aes'[d] = aes[d] \/ aes'[d] = DisableOtherKeys(aes[d])
      BY <1>0, <2>1
    <3> QED
      BY <1>0, <3>1, Disabled, GrowsItself DEF DisableOtherKeys
  <2>3. \A d \in Chats : TableOK(aes[d])'
    <3>1. TAKE d \in Chats
    <3>2. TableOK(aes'[d])
      BY <2>2
    <3>3. \A n : n \in 0 .. keys => n \in 0 .. keys + 1
      BY <1>0
    <3> QED
      BY <2>1, <3>2, <3>3 DEF TableOK
  <2>4. LastKeyN(aes[c]) \in 0 .. keys /\ \A i \in DOMAIN aes[c] : aes[c][i].n <= LastKeyN(aes[c])
    <3>1. PICK S : aes[c] \in Seq(S)
      BY <1>0 DEF TableOK
    <3>2. \A i \in DOMAIN aes[c] : aes[c][i].n \in 0 .. keys
      BY <1>0 DEF TableOK
    <3> QED
      BY <1>0, <3>1, <3>2, LastBound
  <2>5. store'.chat = c /\ store'.n = LastKeyN(aes[c]) + 1
    BY <2>1
  <2>6. ASSUME NEW i \in DOMAIN aes'[c] PROVE aes'[c][i].n < store'.n
    <3>1. i \in DOMAIN aes[c] /\ aes'[c][i].n = aes[c][i].n
      BY <2>2 DEF Grows
    <3>2. aes[c][i].n \in 0 .. keys /\ aes[c][i].n <= LastKeyN(aes[c])
      BY <1>0, <2>4, <3>1 DEF TableOK
    <3> QED
      BY <2>4, <2>5, <3>1, <3>2
  <2>7. aes' = [d \in Chats |-> aes'[d]]
    BY <1>0, <2>1
  <2>8. store'.n \in 0 .. keys' /\ keys' \in Nat
    BY <1>0, <2>1, <2>4, <2>5
  <2> QED
    BY <2>2, <2>3, <2>5, <2>6, <2>7, <2>8 DEF DbInv
<1>3. ASSUME NEW ok \in BOOLEAN, StoreInsert(ok)
      PROVE  DbInv' /\ \A d \in Chats : Grows(aes[d], aes'[d])
  <2>1. /\ store # NoStore /\ store' = NoStore /\ keys' = keys
        /\ aes' = [aes EXCEPT ![store.chat] =
                     IF ok THEN Append(@, Row(store.n, store.key, InUse)) ELSE @]
    BY <1>3, Zenon DEF StoreInsert
  <2>2. /\ store.chat \in Chats /\ store.n \in 0 .. keys
        /\ \A i \in DOMAIN aes[store.chat] : aes[store.chat][i].n < store.n
    BY <2>1 DEF DbInv
  <2>3. ASSUME NEW d \in Chats
        PROVE  TableOK(aes'[d]) /\ Grows(aes[d], aes'[d])
    <3>1. \/ aes'[d] = aes[d]
          \/ d = store.chat /\ aes'[d] = Append(aes[d], Row(store.n, store.key, InUse))
      BY <1>0, <2>1
    <3> QED
      BY <1>0, <2>2, <3>1, Appended, GrowsItself
  <2>4. aes' = [d \in Chats |-> aes'[d]]
    BY <1>0, <2>1
  <2>5. \A d \in Chats : TableOK(aes[d])'
    BY <2>1, <2>3 DEF TableOK
  <2> QED
    BY <1>0, <2>1, <2>3, <2>4, <2>5 DEF DbInv
<1>4. ASSUME NEW c \in Chats, NEW ok \in BOOLEAN, Retire(c, ok)
      PROVE  DbInv' /\ \A d \in Chats : Grows(aes[d], aes'[d])
  <2>1. /\ store' = store /\ keys' = keys
        /\ aes' = [aes EXCEPT ![c] = IF ok THEN DisableOtherKeys(@) ELSE @]
    BY <1>4, Zenon DEF Retire
  <2>2. ASSUME NEW d \in Chats
        PROVE  TableOK(aes'[d]) /\ Grows(aes[d], aes'[d]) /\ DOMAIN aes'[d] = DOMAIN aes[d]
    <3>1. aes'[d] = aes[d] \/ aes'[d] = DisableOtherKeys(aes[d])
      BY <1>0, <2>1
    <3> QED
      BY <1>0, <3>1, Disabled, GrowsItself DEF DisableOtherKeys
  <2>3. \A d \in Chats : TableOK(aes[d])'
    BY <2>1, <2>2 DEF TableOK
  <2>4. aes' = [d \in Chats |-> aes'[d]]
    BY <1>0, <2>1
  <2>5. \A d \in Chats : \A i \in DOMAIN aes'[d] : i \in DOMAIN aes[d] /\ aes'[d][i].n = aes[d][i].n
    BY <2>2 DEF Grows
  <2> QED
    BY <1>0, <2>1, <2>2, <2>3, <2>4, <2>5 DEF DbInv
<1>5. \/ UNCHANGED db
      \/ \E c \in Chats, ok \in BOOLEAN : StoreDisable(c, ok) \/ Retire(c, ok)
      \/ \E ok \in BOOLEAN : StoreInsert(ok)
  BY DEF Next, vars, db, Compose, Resend, TryToSend, LoopEnds, ReadKey, ReadNumber, Transmit,
         Answer, LookFirst, LookSecond
<1> QED
  BY <1>1, <1>2, <1>3, <1>4, <1>5

-----------------------------------------------------------------------------
(* The first text of a buffer.                                             *)

(* A text that waits or is on its way has a chat.                          *)
Placed == \A t \in Texts : req[t].place \in {"queued", "sent"} => req[t].chat \in Chats

FirstChat == ChatOf(out.items[First])

(* The chat has a key in use, or is about to get a new one.                *)
Covered(c) == ActiveRow(aes[c]) # <<>> \/ (store # NoStore /\ store.chat = c)

(* While the first text is not encrypted, the loop has not passed it.      *)
FirstOK == out.promised =>
  /\ out.at \in Nat
  /\ First \in DOMAIN out.items /\ out.items[First].text \in Texts /\ FirstChat \in Chats
  /\ \A i \in DOMAIN out.items : out.items[i].text # Service => First <= i
  /\ out.excused \/ out.items[First].body # Plain
       \/ (out.left = "no" /\ out.at <= First /\ Covered(FirstChat))

FirstInv == SingleInv /\ DbInv /\ Placed /\ FirstOK

(* Then it is the text the loop comes to.                                  *)
LEMMA FirstIsCurrent ==
  ASSUME SingleInv, FirstOK, out.promised, ~out.excused, out.items[First].body = Plain
  PROVE  Min(Pending) = First /\ First \in Pending /\ Current = out.items[First]
<1>1. PICK S : out.items \in Seq(S)
  BY DEF SingleInv, BufferOK, ItemsOK
<1>2. /\ out.at <= First /\ First \in DOMAIN out.items /\ First \in Nat
      /\ out.items[First].text \in Texts /\ out.at \in Nat
  BY <1>1 DEF FirstOK
<1>3. First \in Pending
  <2>1. out.items[First].text # Service
    BY <1>2 DEF Texts, Service
  <2> QED
    BY <1>2, <2>1 DEF Pending
<1>4. Pending \in SUBSET Nat /\ \A i \in Pending : First <= i
  BY <1>1 DEF Pending, FirstOK
<1>5. Min(Pending) = First
  BY <1>3, <1>4, LeastIs
<1> QED
  BY <1>3, <1>5 DEF Current

(* A step that leaves the texts of the buffer and the place of the loop.   *)
LEMMA FirstKept ==
  ASSUME FirstOK, SameItems, out'.promised => out.promised, out.excused => out'.excused,
         out.promised => FirstChat' = FirstChat,
         out.promised /\ Covered(FirstChat) => Covered(FirstChat)' \/ out'.excused
  PROVE  FirstOK'
<1>1. First' = First /\ out'.items = out.items /\ out'.at = out.at /\ out'.left = out.left
  BY DEF First, SameItems
<1>2. CASE ~out'.promised
  BY <1>2 DEF FirstOK
<1>3. CASE out'.promised
  <2>1. out.promised
    BY <1>3
  <2>2. FirstChat' = FirstChat
    BY <2>1
  <2>3. /\ out.at \in Nat
        /\ First \in DOMAIN out.items /\ out.items[First].text \in Texts /\ FirstChat \in Chats
        /\ \A i \in DOMAIN out.items : out.items[i].text # Service => First <= i
        /\ out.excused \/ out.items[First].body # Plain
             \/ (out.left = "no" /\ out.at <= First /\ Covered(FirstChat))
    BY <2>1 DEF FirstOK
  <2>4. out'.excused \/ out.items[First].body # Plain
             \/ (out.left = "no" /\ out.at <= First /\ Covered(FirstChat)')
    BY <2>1, <2>3
  <2> QED
    BY <1>1, <2>2, <2>3, <2>4 DEF FirstOK
<1> QED
  BY <1>2, <1>3

(* No buffer promises anything.                                            *)
LEMMA NoPromise ==
  ASSUME out' = NoBuffer
  PROVE  FirstOK'
BY DEF NoBuffer, FirstOK

(* Once a text is written, its request keeps its chat.                     *)
Stays(t) == req[t].place # "none" => req'[t].place # "none" /\ req'[t].chat = req[t].chat

LEMMA ChatsStay ==
  ASSUME SingleInv, Placed, [Next]_vars
  PROVE  Placed' /\ \A t \in Texts : Stays(t)
<1>0. req = [t \in Texts |-> req[t]] /\ \A t \in Texts : IsRequest(req[t])
  BY DEF SingleInv, RequestsOK
<1>1. CASE UNCHANGED req
  BY <1>1 DEF Placed, Stays
<1>2. ASSUME NEW t \in Texts, NEW c \in Chats, Compose(t, c)
      PROVE  Placed' /\ \A s \in Texts : Stays(s)
  <2>1. /\ In("none") # {} /\ t = Min(In("none"))
        /\ req' = [req EXCEPT ![t].chat = c, ![t].place = "queued"]
    BY <1>2, Zenon DEF Compose
  <2>2. In("none") \in SUBSET Nat
    BY BoundsAssumption DEF In, Texts
  <2>3. t \in In("none")
    BY <2>1, <2>2, LeastElement
  <2>4. req[t].place = "none"
    BY <2>3 DEF In
  <2>5. req'[t] = [req[t] EXCEPT !.chat = c, !.place = "queued"]
    BY <1>0, <2>1
  <2>6. req'[t].chat = c /\ req'[t].place = "queued"
    BY <1>0, <2>5 DEF IsRequest
  <2>7. \A s \in Texts : s # t => req'[s] = req[s]
    BY <1>0, <2>1
  <2> QED
    BY <2>4, <2>6, <2>7 DEF Placed, Stays
<1>3. ASSUME NEW t \in Texts, Resend(t)
      PROVE  Placed' /\ \A s \in Texts : Stays(s)
  <2>1. req' = [req EXCEPT ![t].place = "queued", ![t].forced = TRUE] /\ req[t].place = "sent"
    BY <1>3, Zenon DEF Resend
  <2>2. req'[t] = [req[t] EXCEPT !.place = "queued", !.forced = TRUE]
    BY <1>0, <2>1
  <2>3. req'[t].chat = req[t].chat /\ req'[t].place = "queued"
    BY <1>0, <2>2 DEF IsRequest
  <2>4. \A s \in Texts : s # t => req'[s] = req[s]
    BY <1>0, <2>1
  <2> QED
    BY <2>1, <2>3, <2>4 DEF Placed, Stays
<1>4. ASSUME NEW a \in answers, NEW alone \in BOOLEAN, NEW ok \in BOOLEAN, Answer(a, alone, ok)
      PROVE  Placed' /\ \A s \in Texts : Stays(s)
  <2>1. req' = [req EXCEPT ![a.text].place = "answered"]
    BY <1>4, Zenon DEF Answer
  <2>2. ASSUME NEW s \in Texts
        PROVE  \/ req'[s] = req[s]
               \/ req'[s].chat = req[s].chat /\ req'[s].place = "answered"
    <3>1. \/ req'[s] = req[s]
          \/ req'[s] = [req[s] EXCEPT !.place = "answered"]
      BY <1>0, <2>1
    <3> QED
      BY <1>0, <3>1 DEF IsRequest
  <2> QED
    BY <2>2 DEF Placed, Stays
<1>5. ASSUME NEW ping \in BOOLEAN, NEW copied \in BOOLEAN, NEW renew \in BOOLEAN,
             TryToSend(ping, copied, renew)
      PROVE  Placed' /\ \A s \in Texts : Stays(s)
  <2>1. ASSUME NEW s \in Texts
        PROVE  \/ req'[s] = req[s]
               \/ req[s].place = "queued" /\ req'[s].chat = req[s].chat /\ req'[s].place = "sent"
    <3>1. req' = [t \in Texts |->
            IF req[t].place # "queued" THEN req[t]
            ELSE LET i == CHOOSE j \in DOMAIN Queued : Queued[j] = t
                 IN [req[t] EXCEPT !.place = "sent", !.id = IdToSend(t, i, renew),
                                   !.renamed = @ \/ (req[t].id # 0 /\ renew)]]
      BY <1>5, Zenon DEF TryToSend
    <3>2. \/ req'[s] = req[s]
          \/ req[s].place = "queued" /\ \E id, r :
               req'[s] = [req[s] EXCEPT !.place = "sent", !.id = id, !.renamed = r]
      BY <3>1, Zenon
    <3>3. IsRequest(req[s])
      BY <1>0
    <3> QED
      BY <3>2, <3>3 DEF IsRequest
  <2> QED
    BY <2>1 DEF Placed, Stays
<1>6. ASSUME NEW select \in BOOLEAN, NEW insert \in BOOLEAN, ReadNumber(select, insert)
      PROVE  Placed' /\ \A s \in Texts : Stays(s)
  <2>1. \E t, b : req' = [req EXCEPT ![t].body = b] \/ req' = req
    BY <1>6, Zenon DEF ReadNumber
  <2>2. ASSUME NEW s \in Texts
        PROVE  req'[s].chat = req[s].chat /\ req'[s].place = req[s].place
    <3>1. req'[s] = req[s] \/ \E b : req'[s] = [req[s] EXCEPT !.body = b]
      BY <1>0, <2>1
    <3> QED
      BY <1>0, <3>1 DEF IsRequest
  <2> QED
    BY <2>2 DEF Placed, Stays
<1>7. \/ UNCHANGED req
      \/ \E t \in Texts, c \in Chats : Compose(t, c)
      \/ \E t \in Texts : Resend(t)
      \/ \E a \in answers, alone, ok \in BOOLEAN : Answer(a, alone, ok)
      \/ \E ping, copied, renew \in BOOLEAN : TryToSend(ping, copied, renew)
      \/ \E select, insert \in BOOLEAN : ReadNumber(select, insert)
  BY DEF Next, vars, sending, StoreDisable, StoreInsert, Retire, LoopEnds, ReadKey, Transmit,
         LookFirst, LookSecond
<1> QED
  BY <1>1, <1>2, <1>3, <1>4, <1>5, <1>6, <1>7, Zenon

LEMMA InitFirst == Init => FirstInv
<1> SUFFICES ASSUME Init PROVE FirstInv
  OBVIOUS
<1>1. SingleInv /\ DbInv
  BY InitSingle, InitDb
<1>2. Placed
  <2>1. ASSUME NEW t \in Texts PROVE req[t].place = "none"
    BY DEF Init
  <2> QED
    BY <2>1 DEF Placed
<1>3. FirstOK
  BY DEF Init, NoBuffer, FirstOK
<1> QED
  BY <1>1, <1>2, <1>3 DEF FirstInv

(* The other threads: the row in use may go only for a new one to come, or
   when the encryption of the chat ends.                                   *)
LEMMA FirstOthers ==
  ASSUME FirstInv, \A t \in Texts : Stays(t),
         \/ \E c \in Chats, ok \in BOOLEAN : StoreDisable(c, ok) \/ Retire(c, ok)
         \/ \E ok \in BOOLEAN : StoreInsert(ok)
  PROVE  FirstOK'
<1>0. /\ IsBuffer(out) /\ FirstOK /\ keys \in Nat /\ aes = [c \in Chats |-> aes[c]]
      /\ \A c \in Chats : TableOK(aes[c])
  BY DEF FirstInv, SingleInv, BufferOK, DbInv
<1>1. ASSUME NEW c \in Chats, NEW ok \in BOOLEAN, StoreDisable(c, ok)
      PROVE  FirstOK'
  <2>1. /\ store = NoStore /\ out' = out /\ req' = req
        /\ store' = [chat |-> c, n |-> LastKeyN(aes[c]) + 1, key |-> keys + 1]
        /\ aes' = [aes EXCEPT ![c] = IF ok THEN DisableOtherKeys(@) ELSE @]
    BY <1>1, Zenon DEF StoreDisable, sending
  <2>2. store' # NoStore /\ store'.chat = c
    <3>1. store'.key # 0
      BY <1>0, <2>1
    <3> QED
      BY <2>1, <3>1 DEF NoStore
  <2>3. SameItems /\ FirstChat' = FirstChat
    BY <2>1 DEF SameItems, FirstChat, First, ChatOf
  <2>4. ASSUME out.promised, Covered(FirstChat)
        PROVE  Covered(FirstChat)'
    <3>1. FirstChat = c \/ aes'[FirstChat] = aes[FirstChat]
      BY <1>0, <2>1, <2>4 DEF FirstOK
    <3> QED
      BY <2>1, <2>2, <2>3, <2>4, <3>1 DEF Covered
  <2> QED
    BY <1>0, <2>1, <2>3, <2>4, FirstKept
<1>2. ASSUME NEW c \in Chats, NEW ok \in BOOLEAN, Retire(c, ok)
      PROVE  FirstOK'
  <2>1. /\ store' = store /\ req' = req
        /\ out' = [out EXCEPT !.promised = @ /\ ~IsFor(c)]
        /\ aes' = [aes EXCEPT ![c] = IF ok THEN DisableOtherKeys(@) ELSE @]
    BY <1>2, Zenon DEF Retire
  <2>2. /\ SameItems /\ out'.excused = out.excused
        /\ out'.promised <=> out.promised /\ ~IsFor(c)
    BY <1>0, <2>1 DEF SameItems, IsBuffer
  <2>3. FirstChat' = FirstChat
    BY <2>1, <2>2 DEF SameItems, FirstChat, First, ChatOf
  <2>4. CASE out.promised /\ IsFor(c)
    BY <2>2, <2>4 DEF FirstOK
  <2>5. CASE out.promised /\ ~IsFor(c)
    <3>1. FirstChat # c
      BY <2>5 DEF IsFor, NoBuffer, FirstChat, ChatOf
    <3>2. aes'[FirstChat] = aes[FirstChat]
      BY <1>0, <2>1, <2>5, <3>1 DEF FirstOK
    <3>3. Covered(FirstChat) => Covered(FirstChat)'
      BY <2>1, <2>3, <3>2 DEF Covered
    <3> QED
      BY <1>0, <2>2, <2>3, <2>5, <3>3, FirstKept
  <2>6. CASE ~out.promised
    BY <2>2, <2>6 DEF FirstOK
  <2> QED
    BY <2>4, <2>5, <2>6
<1>3. ASSUME NEW ok \in BOOLEAN, StoreInsert(ok)
      PROVE  FirstOK'
  <2>1. /\ store # NoStore /\ store' = NoStore /\ req' = req
        /\ out' = [out EXCEPT !.changed = @ \/ (key # <<>> /\ ok),
                              !.excused = @ \/ (~ok /\ IsFor(store.chat))]
        /\ aes' = [aes EXCEPT ![store.chat] =
                     IF ok THEN Append(@, Row(store.n, store.key, InUse)) ELSE @]
    BY <1>3, Zenon DEF StoreInsert
  <2>2. /\ SameItems /\ out'.promised = out.promised
        /\ out'.excused <=> out.excused \/ (~ok /\ IsFor(store.chat))
    BY <1>0, <2>1 DEF SameItems, IsBuffer
  <2>3. FirstChat' = FirstChat
    BY <2>1, <2>2 DEF SameItems, FirstChat, First, ChatOf
  <2>4. ASSUME out.promised, Covered(FirstChat)
        PROVE  Covered(FirstChat)' \/ out'.excused
    <3>0. FirstChat \in Chats
      BY <1>0, <2>4 DEF FirstOK
    <3>1. CASE FirstChat = store.chat /\ ~ok
      <4>1. IsFor(store.chat)
        BY <2>4, <3>1 DEF IsFor, NoBuffer, FirstChat, ChatOf
      <4> QED
        BY <2>2, <3>1, <4>1
    <3>2. CASE FirstChat = store.chat /\ ok
      <4>1. aes'[FirstChat] = Append(aes[FirstChat], Row(store.n, store.key, InUse))
        BY <1>0, <2>1, <3>0, <3>2
      <4>2. store.n \in 0 .. keys /\ \A i \in DOMAIN aes[store.chat] : aes[store.chat][i].n < store.n
        BY <2>1 DEF FirstInv, DbInv
      <4>3. ActiveRow(Append(aes[FirstChat], Row(store.n, store.key, InUse))) # <<>>
        BY <1>0, <3>0, <3>2, <4>2, Appended
      <4> QED
        BY <2>3, <4>1, <4>3 DEF Covered
    <3>3. CASE FirstChat # store.chat
      <4>1. aes'[FirstChat] = aes[FirstChat]
        BY <1>0, <2>1, <3>0, <3>3
      <4>2. ActiveRow(aes[FirstChat]) # <<>>
        BY <2>4, <3>3 DEF Covered
      <4> QED
        BY <2>3, <4>1, <4>2 DEF Covered
    <3> QED
      BY <3>1, <3>2, <3>3
  <2> QED
    BY <1>0, <2>2, <2>3, <2>4, FirstKept
<1> QED
  BY <1>1, <1>2, <1>3

(* tryToSend puts the first text in front, but for a ping.                 *)
LEMMA FirstPacked ==
  ASSUME FirstInv, NEW ping \in BOOLEAN, NEW copied \in BOOLEAN, NEW renew \in BOOLEAN,
         TryToSend(ping, copied, renew), \A t \in Texts : Stays(t)
  PROVE  FirstOK'
<1>1. PICK inPlace :
        /\ Queued # <<>>
        /\ out' = [items |-> Packed(ping, renew), at |-> 1, inPlace |-> inPlace, grown |-> {},
                   left |-> "no", excused |-> FALSE, changed |-> FALSE,
                   promised |-> ActiveRow(aes[req[Queued[1]].chat]) # <<>>]
        /\ aes' = aes /\ store' = store
  BY Zenon DEF TryToSend, db
<1>2. PICK n \in Nat : DOMAIN Queued = 1 .. n /\ (n = 0 <=> In("queued") = {})
  BY QueueHolds
<1> DEFINE item(i) == [text |-> Queued[i], id |-> IdToSend(Queued[i], i, renew),
                       body |-> req[Queued[i]].body]
           copies == [i \in 1 .. n |-> item(i)]
           front == IF ping THEN <<PingFirst>> ELSE <<>>
           f == IF ping THEN 2 ELSE 1
           items == Packed(ping, renew)
<1>3. items = front \o copies
  BY <1>2 DEF Packed
<1>4. n # 0
  <2>1. ASSUME n = 0 PROVE FALSE
    <3>1. Cardinality(In("queued")) = 0
      BY <1>2, <2>1, FS_EmptySet
    <3>2. 1 .. 0 = {}
      OBVIOUS
    <3>3. Queued = <<>>
      BY <3>1, <3>2 DEF Queued
    <3> QED
      BY <1>1, <3>3
  <2> QED
    BY <2>1
<1>5. \A i \in 1 .. n : Queued[i] \in Texts /\ req[Queued[i]].place = "queued"
  BY <1>2, QueueHolds DEF In
<1>6. \E S : copies \in Seq(S)
  <2> DEFINE S == {item(i) : i \in 1 .. n}
  <2>1. \A i \in 1 .. n : item(i) \in S
    OBVIOUS
  <2> HIDE DEF S, item
  <2>2. copies \in Seq(S)
    BY <2>1
  <2> QED
    BY <2>2
<1>7. Len(copies) = n /\ \A i \in 1 .. n : copies[i] = item(i)
  <2> HIDE DEF item
  <2> QED
    BY <1>6
<1> HIDE DEF copies
<1>8. /\ DOMAIN items = 1 .. n + f - 1
      /\ \A i \in DOMAIN items : i >= f => items[i] = item(i - f + 1)
      /\ ping => items[1] = PingFirst
  <2> HIDE DEF item
  <2>1. CASE ping
    <3>1. PICK S : copies \in Seq(S)
      BY <1>6
    <3>2. <<PingFirst>> \in Seq({PingFirst} \cup S) /\ copies \in Seq({PingFirst} \cup S)
          /\ Len(<<PingFirst>>) = 1
      BY <3>1
    <3>3. items = <<PingFirst>> \o copies /\ f = 2
      BY <1>3, <2>1
    <3> QED
      BY <1>7, <3>2, <3>3
  <2>2. CASE ~ping
    <3>1. items = <<>> \o copies /\ f = 1
      BY <1>3, <2>2
    <3>2. items = copies
      BY <1>6, <3>1
    <3> QED
      BY <1>6, <1>7, <2>2, <3>2
  <2> QED
    BY <2>1, <2>2
<1> HIDE DEF items
<1>9. f \in DOMAIN items /\ items[f].text = Queued[1]
  <2>1. f \in Nat /\ 1 <= f /\ f - f + 1 = 1 /\ f \in 1 .. n + f - 1
    BY <1>4
  <2>2. items[f] = item(f - f + 1)
    <3> HIDE DEF item, f
    <3> QED
      BY <1>8, <2>1
  <2>3. items[f] = item(1)
    <3> HIDE DEF item
    <3> QED
      BY <2>1, <2>2
  <2> QED
    BY <1>8, <2>1, <2>3
<1>10. \A i \in DOMAIN items : items[i].text # Service => f <= i
  BY <1>8 DEF PingFirst
<1>11. Queued[1] \in Texts /\ Queued[1] # Service /\ req[Queued[1]].place = "queued"
  BY <1>4, <1>5 DEF Texts, Service
<1>12. out'.items = items
  BY <1>1 DEF items
<1>13. First' = f
  <2> DEFINE S == {i \in DOMAIN items : items[i].text # Service}
  <2>1. S \in SUBSET Nat /\ f \in S /\ \A i \in S : f <= i
    BY <1>8, <1>9, <1>10, <1>11
  <2>2. Min(S) = f
    <3> HIDE DEF S, f
    <3> QED
      BY <2>1, LeastIs
  <2> QED
    BY <1>12, <2>2 DEF First
<1>14. FirstChat' = req[Queued[1]].chat /\ FirstChat' \in Chats
  <2>1. FirstChat' = req'[Queued[1]].chat
    BY <1>9, <1>12, <1>13 DEF FirstChat, ChatOf
  <2>2. req'[Queued[1]].chat = req[Queued[1]].chat
    BY <1>11 DEF Stays
  <2>3. req[Queued[1]].chat \in Chats
    BY <1>11 DEF FirstInv, Placed
  <2> QED
    BY <2>1, <2>2, <2>3
<1>15. out'.at = 1 /\ out'.left = "no" /\ out'.promised = (ActiveRow(aes[req[Queued[1]].chat]) # <<>>)
  BY <1>1
<1>16. out'.promised => Covered(FirstChat)'
  BY <1>1, <1>14, <1>15 DEF Covered
<1> HIDE DEF f
<1>17. f \in Nat /\ 1 <= f
  BY DEF f
<1> QED
  BY <1>9, <1>10, <1>11, <1>12, <1>13, <1>14, <1>15, <1>16, <1>17 DEF FirstOK

(* encrypt_the_buffer: the function returns at the first text only if a
   lookup failed, or found nothing while a row is replaced.                *)
LEMMA FirstReturned ==
  ASSUME FirstInv, NEW ok, ReturnUnchanged(ok), UNCHANGED <<aes, store, req>>,
         Current.body = Plain => ~ok \/ ActiveRow(aes[ChatOf(Current)]) = <<>>
  PROVE  FirstOK'
<1>1. IsBuffer(out) /\ FirstOK
  BY DEF FirstInv, SingleInv, BufferOK
<1>2. out' = [out EXCEPT !.left = "return",
                         !.excused = @ \/ ~ok \/ store.chat = ChatOf(Current)]
  BY Zenon DEF ReturnUnchanged
<1>3. /\ out'.items = out.items /\ out'.at = out.at /\ out'.promised = out.promised
      /\ out'.excused <=> out.excused \/ ~ok \/ store.chat = ChatOf(Current)
  BY <1>1, <1>2 DEF IsBuffer
<1>4. First' = First /\ FirstChat' = FirstChat
  BY <1>3 DEF First, FirstChat, ChatOf
<1>5. CASE out.promised
  <2>1. /\ out.at \in Nat
        /\ First \in DOMAIN out.items /\ out.items[First].text \in Texts /\ FirstChat \in Chats
        /\ \A i \in DOMAIN out.items : out.items[i].text # Service => First <= i
        /\ out.excused \/ out.items[First].body # Plain
             \/ (out.left = "no" /\ out.at <= First /\ Covered(FirstChat))
    BY <1>1, <1>5 DEF FirstOK
  <2>2. out'.excused \/ out.items[First].body # Plain
    <3>1. ASSUME ~out.excused, out.items[First].body = Plain, ok
          PROVE  out'.excused
      <4>1. Current = out.items[First]
        BY <1>1, <1>5, <3>1, FirstIsCurrent DEF FirstInv
      <4>2. ActiveRow(aes[FirstChat]) = <<>>
        BY <3>1, <4>1 DEF FirstChat
      <4>3. Covered(FirstChat)
        BY <2>1, <3>1
      <4>4. store.chat = ChatOf(Current)
        BY <4>1, <4>2, <4>3 DEF Covered, FirstChat
      <4> QED
        BY <1>3, <4>4
    <3> QED
      BY <1>3, <3>1
  <2> QED
    BY <1>3, <1>4, <2>1, <2>2 DEF FirstOK
<1>6. CASE ~out.promised
  BY <1>3, <1>6 DEF FirstOK
<1> QED
  BY <1>5, <1>6

LEMMA FirstLooked ==
  ASSUME FirstInv, LoopEnds \/ \E ok \in BOOLEAN : ReadKey(ok)
  PROVE  FirstOK'
<1>1. IsBuffer(out) /\ FirstOK
  BY DEF FirstInv, SingleInv, BufferOK
<1>2. UNCHANGED <<aes, store, req>>
  BY DEF LoopEnds, ReadKey, db
<1>3. CASE LoopEnds
  <2>1. Pending = {} /\ out' = [out EXCEPT !.left = "end"]
    BY <1>3, Zenon DEF LoopEnds
  <2>2. /\ out'.items = out.items /\ out'.at = out.at /\ out'.promised = out.promised
        /\ out'.excused = out.excused
    BY <1>1, <2>1 DEF IsBuffer
  <2>3. First' = First /\ FirstChat' = FirstChat
    BY <1>2, <2>2 DEF First, FirstChat, ChatOf
  <2>4. out.promised => out.excused \/ out.items[First].body # Plain
    BY <1>1, <2>1, FirstIsCurrent DEF FirstInv
  <2> QED
    BY <1>1, <2>2, <2>3, <2>4 DEF FirstOK
<1>4. ASSUME NEW ok \in BOOLEAN, ReadKey(ok)
      PROVE  FirstOK'
  <2> DEFINE found == KeyOf(IF ok THEN ActiveRow(aes[ChatOf(Current)]) ELSE <<>>)
  <2>1. IF Current.body # Plain \/ found = <<>> THEN ReturnUnchanged(ok)
        ELSE key' = found /\ out' = [out EXCEPT !.changed = FALSE]
    BY <1>4, Zenon DEF ReadKey
  <2>2. CASE Current.body # Plain \/ found = <<>>
    <3>1. ReturnUnchanged(ok)
      BY <2>1, <2>2
    <3>2. Current.body = Plain => ~ok \/ ActiveRow(aes[ChatOf(Current)]) = <<>>
      <4>1. ASSUME found = <<>>, ok PROVE ActiveRow(aes[ChatOf(Current)]) = <<>>
        BY <4>1 DEF KeyOf
      <4> QED
        BY <2>2, <4>1
    <3> HIDE DEF found
    <3> QED
      BY <1>2, <3>1, <3>2, FirstReturned
  <2>3. CASE ~(Current.body # Plain \/ found = <<>>)
    <3> HIDE DEF found
    <3>1. out' = [out EXCEPT !.changed = FALSE]
      BY <2>1, <2>3
    <3>2. SameItems /\ out'.promised = out.promised /\ out'.excused = out.excused
      BY <1>1, <3>1 DEF SameItems, IsBuffer
    <3>3. FirstChat' = FirstChat
      BY <1>2, <3>2 DEF SameItems, FirstChat, First, ChatOf
    <3>4. Covered(FirstChat) => Covered(FirstChat)'
      BY <1>2, <3>3 DEF Covered
    <3> QED
      BY <1>1, <3>2, <3>3, <3>4, FirstKept
  <2> QED
    BY <2>2, <2>3
<1> QED
  BY <1>3, <1>4

(* The second lookup encrypts the text the loop has come to.               *)
LEMMA FirstEncrypted ==
  ASSUME FirstInv, NEW select \in BOOLEAN, NEW insert \in BOOLEAN,
         ReadNumber(select, insert)
  PROVE  FirstOK'
<1>1. IsBuffer(out) /\ FirstOK
  BY DEF FirstInv, SingleInv, BufferOK
<1>2. UNCHANGED <<aes, store>>
  BY DEF ReadNumber, db
<1> DEFINE active == IF select THEN ActiveRow(aes[ChatOf(Current)]) ELSE <<>>
<1>3. CASE active = <<>>
  <2>1. ReturnUnchanged(select) /\ req' = req
    BY <1>3, Zenon DEF ReadNumber
  <2>2. ~select \/ ActiveRow(aes[ChatOf(Current)]) = <<>>
    BY <1>3
  <2> QED
    BY <1>2, <2>1, <2>2, FirstReturned
<1>4. CASE active # <<>>
  <2>1. PICK b, next, g, r :
          /\ b # Plain /\ next \in Min(Pending) + 1 .. Len(out.items) + 1
          /\ out' = [out EXCEPT !.items[Min(Pending)].body = b, !.at = next, !.grown = g]
          /\ req' = [req EXCEPT ![r].body = b] \/ req' = req
    <3> DEFINE b == Encrypt(Current.body, active[1].n, key[1])
    <3>1. b # Plain
      BY DEF Encrypt, Plain
    <3>2. /\ \E next \in Min(Pending) + 1 .. Len(out.items) + 1 :
               out' = [out EXCEPT !.items[Min(Pending)].body = b, !.at = next,
                                  !.grown = @ \cup {Min(Pending)}]
          /\ req' = IF out.inPlace THEN [req EXCEPT ![Current.text].body = b] ELSE req
      BY <1>4, Zenon DEF ReadNumber
    <3> HIDE DEF b
    <3> QED
      BY <3>1, <3>2
  <2> DEFINE i == Min(Pending)
  <2>2. PICK S : out.items \in Seq(S)
    BY DEF FirstInv, SingleInv, BufferOK, ItemsOK
  <2>3. Pending # {} /\ Pending \in SUBSET Nat /\ Pending \subseteq DOMAIN out.items
    <3>1. key # <<>>
      BY DEF ReadNumber
    <3> QED
      BY <2>2, <3>1 DEF FirstInv, SingleInv, KeyOK, Pending
  <2>4. i \in DOMAIN out.items /\ i \in Nat
    <3>1. Min(Pending) \in Pending
      BY <2>3, LeastElement
    <3> QED
      BY <2>3, <3>1
  <2> HIDE DEF i
  <2>5. /\ out'.items = [out.items EXCEPT ![i].body = b]
        /\ out'.at = next /\ out'.promised = out.promised /\ out'.excused = out.excused
    BY <1>1, <2>1 DEF IsBuffer, i
  <2>6. next \in Nat
    <3>1. Len(out.items) \in Nat
      BY <2>2
    <3> QED
      BY <2>1, <2>4, <3>1 DEF i
  <2>7. /\ DOMAIN out'.items = DOMAIN out.items
        /\ \A k \in DOMAIN out.items :
             /\ out'.items[k].text = out.items[k].text
             /\ k = i => out'.items[k].body = b
             /\ k # i => out'.items[k] = out.items[k]
    <3>1. DOMAIN out'.items = DOMAIN out.items
      BY <2>5
    <3>2. ASSUME NEW k \in DOMAIN out.items
          PROVE  /\ out'.items[k].text = out.items[k].text
                 /\ k = i => out'.items[k].body = b
                 /\ k # i => out'.items[k] = out.items[k]
      <4>1. out'.items[k] = IF k = i THEN [out.items[k] EXCEPT !.body = b] ELSE out.items[k]
        BY <2>5
      <4>2. IsItem(out.items[k])
        BY DEF FirstInv, SingleInv, BufferOK, ItemsOK
      <4> QED
        BY <4>1, <4>2 DEF IsItem
    <3> QED
      BY <3>1, <3>2
  <2>8. First' = First
    <3>1. {k \in DOMAIN out'.items : out'.items[k].text # Service}
            = {k \in DOMAIN out.items : out.items[k].text # Service}
      BY <2>7
    <3> QED
      BY <3>1 DEF First
  <2>9. \A t \in Texts : req'[t].chat = req[t].chat
    <3>1. TAKE t \in Texts
    <3>2. IsRequest(req[t]) /\ req = [s \in Texts |-> req[s]]
      BY DEF FirstInv, SingleInv, RequestsOK
    <3>3. req'[t] = req[t] \/ req'[t] = [req[t] EXCEPT !.body = b]
      BY <2>1, <3>2
    <3> QED
      BY <3>2, <3>3 DEF IsRequest
  <2>10. CASE out.promised
    <3>1. /\ First \in DOMAIN out.items /\ out.items[First].text \in Texts /\ FirstChat \in Chats
          /\ \A k \in DOMAIN out.items : out.items[k].text # Service => First <= k
      BY <1>1, <2>10 DEF FirstOK
    <3>2. FirstChat' = FirstChat
      BY <2>7, <2>8, <2>9, <3>1 DEF FirstChat, ChatOf
    <3>3. out.excused \/ out'.items[First].body # Plain
      <4>1. ASSUME ~out.excused, out'.items[First].body = Plain PROVE FALSE
        <5>1. First # i /\ out.items[First].body = Plain
          BY <2>1, <2>7, <3>1, <4>1
        <5>2. i = First
          BY <1>1, <2>10, <4>1, <5>1, FirstIsCurrent DEF FirstInv, i
        <5> QED
          BY <5>1, <5>2
      <4> QED
        BY <4>1
    <3> QED
      BY <2>5, <2>6, <2>7, <2>8, <3>1, <3>2, <3>3 DEF FirstOK
  <2>11. CASE ~out.promised
    BY <2>5, <2>11 DEF FirstOK
  <2> QED
    BY <2>10, <2>11
<1> QED
  BY <1>3, <1>4

LEMMA FirstStep ==
  ASSUME FirstInv, [Next]_vars
  PROVE  FirstInv'
<1>1. SingleInv' /\ DbInv'
  BY SingleStep, DbStep DEF FirstInv
<1>2. Placed' /\ \A t \in Texts : Stays(t)
  BY ChatsStay DEF FirstInv
<1>3. FirstOK'
  <2>1. CASE \/ \E c \in Chats, ok \in BOOLEAN : StoreDisable(c, ok) \/ Retire(c, ok)
             \/ \E ok \in BOOLEAN : StoreInsert(ok)
    BY <1>2, <2>1, FirstOthers, Zenon
  <2>2. CASE \E ping, copied, renew \in BOOLEAN : TryToSend(ping, copied, renew)
    BY <1>2, <2>2, FirstPacked, Zenon
  <2>3. CASE LoopEnds \/ \E ok \in BOOLEAN : ReadKey(ok)
    BY <2>3, FirstLooked, Zenon
  <2>4. CASE \E select, insert \in BOOLEAN : ReadNumber(select, insert)
    BY <2>4, FirstEncrypted, Zenon
  <2>5. CASE \E arrives \in BOOLEAN : Transmit(arrives)
    <3>1. out' = NoBuffer
      BY <2>5, Zenon DEF Transmit
    <3> QED
      BY <3>1, NoPromise
  <2>6. CASE \/ \E t \in Texts, c \in Chats : Compose(t, c)
             \/ \E t \in Texts : Resend(t)
             \/ \E a \in answers, alone, ok \in BOOLEAN : Answer(a, alone, ok)
    <3>1. Idle /\ out' = out
      BY <2>6 DEF Compose, Resend, Answer
    <3> QED
      BY <3>1, NoPromise DEF Idle
  <2>7. CASE \/ UNCHANGED vars
             \/ \E t \in Texts, ok \in BOOLEAN : LookFirst(t, ok)
             \/ \E select, insert \in BOOLEAN : LookSecond(select, insert)
    <3>1. UNCHANGED <<out, req, aes, store>>
      BY <2>7 DEF vars, sending, db, LookFirst, LookSecond
    <3>2. SameItems /\ FirstChat' = FirstChat /\ (Covered(FirstChat) => Covered(FirstChat)')
      BY <3>1 DEF SameItems, FirstChat, First, ChatOf, Covered
    <3> QED
      BY <3>1, <3>2, FirstKept DEF FirstInv
  <2> QED
    BY <2>1, <2>2, <2>3, <2>4, <2>5, <2>6, <2>7, Zenon DEF Next
<1> QED
  BY <1>1, <1>2, <1>3 DEF FirstInv

(* The first text of a buffer is encrypted if its chat has a key in use when
   the buffer is packed and the encryption is not ended meanwhile: whatever
   else is in the buffer, wherever a ping stands, however often the key is
   replaced; but for a lookup between the two statements of add_aes_key, and
   a statement that fails.                                                 *)
THEOREM FirstLeavesEncrypted == Spec => []FirstIsEncrypted
<1>1. FirstInv => FirstIsEncrypted
  BY DEF FirstInv, FirstOK, FirstIsEncrypted
<1> QED
  BY <1>1, InitFirst, FirstStep, PTL DEF Spec

-----------------------------------------------------------------------------
(* What was encrypted can be read back.                                    *)

(* The outermost layer names a row of the chat, of whose key it is unless a
   key was stored between the two lookups.                                 *)
Named(tables, c, body) == body # Plain =>
  /\ c \in Chats
  /\ \E i \in DOMAIN tables[c] :
       /\ tables[c][i].n = body[1].n
       /\ body[1].changed \/ tables[c][i].key = body[1].key

RequestsNamed == \A t \in Texts :
  /\ Named(aes, req[t].chat, req[t].body)
  /\ req[t].place = "none" => req[t].body = Plain
ItemsNamed == \A i \in DOMAIN out.items : out.items[i].text # Service =>
  /\ out.items[i].text \in Texts /\ req[out.items[i].text].place # "none"
  /\ ChatOf(out.items[i]) \in Chats
  /\ Named(aes, ChatOf(out.items[i]), out.items[i].body)
ServerNamed == \A t \in Texts : server[t] # <<>> =>
  /\ req[t].place # "none"
  /\ Named(aes, req[t].chat, server[t][1])

(* Between the two lookups: the key found is that of the row in use, if there
   still is one, unless a key was stored.                                  *)
CurrentRow == ActiveRow(aes[ChatOf(Current)])
KeyNamed == key # <<>> =>
  /\ ChatOf(Current) \in Chats
  /\ out.changed \/ CurrentRow = <<>> \/ CurrentRow[1].key = key[1]

(* Between the two lookups of the decryption: what the first did not find the
   second will.                                                            *)
LookTable == aes[req[look.text].chat]
LookOK == look # NoLookup =>
  /\ look.text \in Texts /\ Encrypted(look.text)
  /\ \/ look.failed \/ look.keys # <<>>
     \/ \E i \in DOMAIN LookTable :
          LookTable[i].n = Outer(look.text).n /\ LookTable[i].status = Outdated
  /\ ~Outer(look.text).changed => look.keys \in {<<>>, <<Outer(look.text).key>>}

NamedInv == RequestsNamed /\ ItemsNamed /\ ServerNamed /\ KeyNamed /\ LookOK
ReadInv == FirstInv /\ NamedInv

(* What every step does to the tables and to the chats of the requests.    *)
Monotone == /\ \A c \in Chats : Grows(aes[c], aes'[c])
            /\ \A t \in Texts : Stays(t)

LEMMA NamedStays ==
  ASSUME NEW c, NEW body, Named(aes, c, body), Monotone
  PROVE  Named(aes', c, body)
<1> SUFFICES ASSUME body # Plain PROVE Named(aes', c, body)
  BY DEF Named
<1>1. c \in Chats
  BY DEF Named
<1>2. PICK i \in DOMAIN aes[c] : /\ aes[c][i].n = body[1].n
                                 /\ body[1].changed \/ aes[c][i].key = body[1].key
  BY DEF Named
<1>3. i \in DOMAIN aes'[c] /\ aes'[c][i].n = aes[c][i].n /\ aes'[c][i].key = aes[c][i].key
  BY <1>1 DEF Monotone, Grows
<1> QED
  BY <1>1, <1>2, <1>3 DEF Named

LEMMA RequestsKept ==
  ASSUME RequestsNamed, Monotone, \A t \in Texts : req'[t].body = req[t].body
  PROVE  RequestsNamed'
<1> SUFFICES ASSUME NEW t \in Texts
             PROVE  /\ Named(aes', req'[t].chat, req'[t].body)
                    /\ req'[t].place = "none" => req'[t].body = Plain
  BY DEF RequestsNamed
<1>1. CASE req[t].body = Plain
  BY <1>1 DEF Named
<1>2. CASE req[t].body # Plain
  <2>1. req[t].place # "none" /\ Named(aes, req[t].chat, req[t].body)
    BY <1>2 DEF RequestsNamed
  <2>2. req'[t].place # "none" /\ req'[t].chat = req[t].chat
    BY <2>1 DEF Monotone, Stays
  <2> QED
    BY <2>1, <2>2, NamedStays
<1> QED
  BY <1>1, <1>2

LEMMA ItemsKept ==
  ASSUME ItemsNamed, Monotone, out'.items = out.items
  PROVE  ItemsNamed'
<1> SUFFICES ASSUME NEW i \in DOMAIN out.items, out.items[i].text # Service
             PROVE  /\ out.items[i].text \in Texts /\ req'[out.items[i].text].place # "none"
                    /\ ChatOf(out.items[i])' \in Chats
                    /\ Named(aes', ChatOf(out.items[i])', out.items[i].body)
  BY DEF ItemsNamed
<1>1. /\ out.items[i].text \in Texts /\ req[out.items[i].text].place # "none"
      /\ ChatOf(out.items[i]) \in Chats
      /\ Named(aes, ChatOf(out.items[i]), out.items[i].body)
  BY DEF ItemsNamed
<1>2. req'[out.items[i].text].place # "none" /\ ChatOf(out.items[i])' = ChatOf(out.items[i])
  BY <1>1 DEF Monotone, Stays, ChatOf
<1> QED
  BY <1>1, <1>2, NamedStays

LEMMA ServerKept ==
  ASSUME ServerNamed, Monotone, server' = server
  PROVE  ServerNamed'
<1> SUFFICES ASSUME NEW t \in Texts, server[t] # <<>>
             PROVE  req'[t].place # "none" /\ Named(aes', req'[t].chat, server[t][1])
  BY DEF ServerNamed
<1>1. req[t].place # "none" /\ Named(aes, req[t].chat, server[t][1])
  BY DEF ServerNamed
<1>2. req'[t].place # "none" /\ req'[t].chat = req[t].chat
  BY <1>1 DEF Monotone, Stays
<1> QED
  BY <1>1, <1>2, NamedStays

LEMMA LookKept ==
  ASSUME ServerNamed, LookOK, Monotone, look' = look,
         \A t \in Texts : server[t] # <<>> => server'[t] = server[t]
  PROVE  LookOK'
<1> SUFFICES ASSUME look # NoLookup PROVE LookOK'
  BY DEF LookOK
<1> DEFINE t == look.text
<1>1. t \in Texts /\ server[t] # <<>> /\ server[t][1] # Plain
  BY DEF LookOK, Encrypted
<1>2. server'[t] = server[t] /\ Outer(t)' = Outer(t) /\ Encrypted(t)'
  BY <1>1 DEF Outer, Encrypted
<1>3. req[t].chat \in Chats /\ req'[t].chat = req[t].chat
  BY <1>1 DEF ServerNamed, Named, Monotone, Stays
<1>4. Grows(LookTable, LookTable')
  BY <1>3 DEF Monotone, LookTable
<1>5. (\E i \in DOMAIN LookTable :
          LookTable[i].n = Outer(t).n /\ LookTable[i].status = Outdated)
      => \E i \in DOMAIN LookTable' :
           LookTable'[i].n = Outer(t)'.n /\ LookTable'[i].status = Outdated
  BY <1>2, <1>4 DEF Grows
<1> QED
  BY <1>1, <1>2, <1>5 DEF LookOK

LEMMA InitRead == Init => ReadInv
<1> SUFFICES ASSUME Init PROVE ReadInv
  OBVIOUS
<1>1. FirstInv
  BY InitFirst
<1>2. RequestsNamed /\ ServerNamed
  <2>1. ASSUME NEW t \in Texts PROVE req[t].body = Plain /\ server[t] = <<>>
    BY DEF Init
  <2> QED
    BY <2>1 DEF RequestsNamed, ServerNamed, Named
<1>3. ItemsNamed /\ KeyNamed /\ LookOK
  BY DEF Init, NoBuffer, ItemsNamed, KeyNamed, LookOK
<1> QED
  BY <1>1, <1>2, <1>3 DEF ReadInv, NamedInv

(* While a text is between the two lookups, the other threads change the row
   it will be named after only by storing a key.                           *)
LEMMA KeyKept ==
  ASSUME ReadInv, Monotone,
         \/ \E c \in Chats, ok \in BOOLEAN : StoreDisable(c, ok) \/ Retire(c, ok)
         \/ \E ok \in BOOLEAN : StoreInsert(ok)
  PROVE  KeyNamed'
<1>0. /\ IsBuffer(out) /\ aes = [c \in Chats |-> aes[c]] /\ \A c \in Chats : TableOK(aes[c])
      /\ KeyNamed
  BY DEF ReadInv, NamedInv, FirstInv, SingleInv, BufferOK, DbInv
<1>1. ASSUME UNCHANGED <<req, key>>, SameItems, out.changed => out'.changed,
             key # <<>> => \/ out'.changed
                           \/ aes'[ChatOf(Current)] = aes[ChatOf(Current)]
                           \/ ActiveRow(aes'[ChatOf(Current)]) = <<>>
      PROVE  KeyNamed'
  <2>1. Current' = Current /\ ChatOf(Current)' = ChatOf(Current)
    BY <1>1 DEF SameItems, Pending, Current, ChatOf
  <2> QED
    BY <1>0, <1>1, <2>1 DEF KeyNamed, CurrentRow
<1>2. ASSUME NEW c \in Chats, NEW ok \in BOOLEAN, StoreDisable(c, ok) \/ Retire(c, ok)
      PROVE  KeyNamed'
  <2>1. /\ UNCHANGED <<req, key>>
        /\ aes' = [aes EXCEPT ![c] = IF ok THEN DisableOtherKeys(@) ELSE @]
        /\ \E p : out' = out \/ out' = [out EXCEPT !.promised = p]
    BY <1>2, Zenon DEF StoreDisable, Retire, sending
  <2>2. SameItems /\ out'.changed = out.changed
    BY <1>0, <2>1 DEF SameItems, IsBuffer
  <2>3. ASSUME key # <<>>
        PROVE  \/ aes'[ChatOf(Current)] = aes[ChatOf(Current)]
               \/ ActiveRow(aes'[ChatOf(Current)]) = <<>>
    <3>1. ChatOf(Current) \in Chats
      BY <1>0, <2>3 DEF KeyNamed
    <3>2. \/ aes'[ChatOf(Current)] = aes[ChatOf(Current)]
          \/ aes'[ChatOf(Current)] = DisableOtherKeys(aes[ChatOf(Current)])
      BY <1>0, <2>1, <3>1
    <3> QED
      BY <1>0, <3>1, <3>2, Disabled
  <2> QED
    BY <1>1, <2>1, <2>2, <2>3
<1>3. ASSUME NEW ok \in BOOLEAN, StoreInsert(ok)
      PROVE  KeyNamed'
  <2>1. /\ UNCHANGED <<req, key>>
        /\ \E e : out' = [out EXCEPT !.changed = @ \/ (key # <<>> /\ ok), !.excused = e]
        /\ aes' = [aes EXCEPT ![store.chat] =
                     IF ok THEN Append(@, Row(store.n, store.key, InUse)) ELSE @]
    BY <1>3, Zenon DEF StoreInsert
  <2>2. SameItems /\ (out'.changed <=> out.changed \/ (key # <<>> /\ ok))
    BY <1>0, <2>1 DEF SameItems, IsBuffer
  <2>3. ASSUME key # <<>>
        PROVE  out'.changed \/ aes'[ChatOf(Current)] = aes[ChatOf(Current)]
    <3>1. ChatOf(Current) \in Chats
      BY <1>0, <2>3 DEF KeyNamed
    <3>2. ~ok => aes'[ChatOf(Current)] = aes[ChatOf(Current)]
      BY <1>0, <2>1, <3>1
    <3> QED
      BY <2>2, <2>3, <3>2
  <2> QED
    BY <1>1, <2>1, <2>2, <2>3
<1> QED
  BY <1>2, <1>3

(* The lookups of the decryption find the row, whichever of the two finds it,
   and a row found by number has the key of that number.                   *)
LEMMA NumberedIs ==
  ASSUME NEW c, TableOK(aes[c]), NEW n, NEW status,
         NEW i \in DOMAIN aes[c], aes[c][i].n = n
  PROVE  /\ KeyOf(Numbered(c, n, status)) \in {<<>>, <<aes[c][i].key>>}
         /\ aes[c][i].status = status => KeyOf(Numbered(c, n, status)) # <<>>
<1> DEFINE places == {j \in WithStatus(aes[c], status) : aes[c][j].n = n}
<1>1. PICK S : aes[c] \in Seq(S)
  BY DEF TableOK
<1>2. places \subseteq {i}
  BY DEF TableOK, WithStatus
<1>3. aes[c][i].status = status => i \in places
  BY DEF WithStatus
<1>4. Numbered(c, n, status) = FirstRow(aes[c], places)
  BY DEF Numbered
<1> HIDE DEF places
<1>5. places \subseteq DOMAIN aes[c]
  BY <1>2
<1>6. \/ places = {} /\ Numbered(c, n, status) = <<>>
      \/ Numbered(c, n, status) = <<aes[c][i]>>
  BY <1>1, <1>2, <1>4, <1>5, FirstRowIs
<1>7. KeyOf(<<>>) = <<>> /\ KeyOf(<<aes[c][i]>>) = <<aes[c][i].key>>
  BY DEF KeyOf
<1> QED
  BY <1>3, <1>6, <1>7

(* tryToSend copies the bodies of the requests.                            *)
LEMMA PackNamed ==
  ASSUME ReadInv, Monotone, NEW ping \in BOOLEAN, NEW copied \in BOOLEAN, NEW renew \in BOOLEAN,
         TryToSend(ping, copied, renew)
  PROVE  NamedInv'
<1>1. /\ aes' = aes /\ server' = server /\ look' = look /\ key' = key /\ out = NoBuffer
      /\ out'.items = Packed(ping, renew)
  <2>1. \E p, g, h : out' = [items |-> Packed(ping, renew), at |-> 1,
             inPlace |-> p, grown |-> {},
             left |-> "no", excused |-> FALSE, changed |-> FALSE, promised |-> g]
    BY Zenon DEF TryToSend
  <2> QED
    BY <2>1 DEF TryToSend, Idle, db, world
<1>2. \A t \in Texts : req'[t].body = req[t].body
  <2>1. TAKE t \in Texts
  <2>2. req' = [s \in Texts |->
          IF req[s].place # "queued" THEN req[s]
          ELSE LET i == CHOOSE j \in DOMAIN Queued : Queued[j] = s
               IN [req[s] EXCEPT !.place = "sent", !.id = IdToSend(s, i, renew),
                                 !.renamed = @ \/ (req[s].id # 0 /\ renew)]]
    BY Zenon DEF TryToSend
  <2>3. \/ req'[t] = req[t]
        \/ \E id, r : req'[t] = [req[t] EXCEPT !.place = "sent", !.id = id, !.renamed = r]
    BY <2>2, Zenon
  <2>4. IsRequest(req[t])
    BY DEF ReadInv, FirstInv, SingleInv, RequestsOK
  <2> QED
    BY <2>3, <2>4 DEF IsRequest
<1>3. RequestsNamed' /\ ServerNamed' /\ LookOK'
  BY <1>1, <1>2, RequestsKept, ServerKept, LookKept DEF ReadInv, NamedInv
<1>4. KeyNamed'
  <2>1. key = <<>>
    BY <1>1 DEF ReadInv, FirstInv, SingleInv, KeyOK, NoBuffer, Pending
  <2> QED
    BY <1>1, <2>1 DEF KeyNamed
<1>5. ItemsNamed'
  <2> DEFINE item(i) == [text |-> Queued[i], id |-> IdToSend(Queued[i], i, renew),
                         body |-> req[Queued[i]].body]
             copies == [i \in DOMAIN Queued |-> item(i)]
             front == IF ping THEN <<PingFirst>> ELSE <<>>
             Good(e) == e.text # Service => \E i \in DOMAIN Queued :
                          e.text = Queued[i] /\ e.body = req[Queued[i]].body
  <2>1. PICK n \in Nat : DOMAIN Queued = 1 .. n
    BY QueueHolds
  <2>2. Good(PingFirst) /\ \A i \in DOMAIN Queued : Good(item(i))
    BY DEF PingFirst
  <2>3. Packed(ping, renew) = front \o copies
    BY DEF Packed
  <2> DEFINE S == {item(i) : i \in DOMAIN Queued} \cup {PingFirst}
  <2>4. \A e \in S : Good(e)
    BY <2>2
  <2>5. copies \in Seq(S)
    <3>1. \A i \in DOMAIN Queued : item(i) \in S
      OBVIOUS
    <3> HIDE DEF S, item
    <3> QED
      BY <2>1, <3>1
  <2>6. front \in Seq(S)
    <3>1. PingFirst \in S
      OBVIOUS
    <3> HIDE DEF S
    <3> QED
      BY <3>1
  <2> HIDE DEF S, Good, copies, front
  <2>7. \A i \in DOMAIN out'.items : out'.items[i] \in S
    <3>1. front \o copies \in Seq(S)
      BY <2>5, <2>6
    <3> QED
      BY <1>1, <2>3, <3>1
  <2>8. ASSUME NEW i \in DOMAIN out'.items, out'.items[i].text # Service
        PROVE  /\ out'.items[i].text \in Texts /\ req'[out'.items[i].text].place # "none"
               /\ req'[out'.items[i].text].chat \in Chats
               /\ Named(aes', req'[out'.items[i].text].chat, out'.items[i].body)
    <3>1. Good(out'.items[i])
      BY <2>4, <2>7
    <3>2. PICK j \in DOMAIN Queued : out'.items[i].text = Queued[j]
                                     /\ out'.items[i].body = req[Queued[j]].body
      BY <2>8, <3>1 DEF Good
    <3>3. Queued[j] \in Texts /\ req[Queued[j]].place = "queued"
      BY QueueHolds DEF In
    <3>4. req'[Queued[j]].place # "none" /\ req'[Queued[j]].chat = req[Queued[j]].chat
      BY <3>3 DEF Monotone, Stays
    <3>5. req[Queued[j]].chat \in Chats /\ Named(aes, req[Queued[j]].chat, req[Queued[j]].body)
      BY <3>3 DEF ReadInv, NamedInv, RequestsNamed, FirstInv, Placed
    <3> QED
      BY <1>1, <3>2, <3>3, <3>4, <3>5
  <2> QED
    BY <2>8 DEF ItemsNamed, ChatOf
<1> QED
  BY <1>3, <1>4, <1>5 DEF NamedInv

(* The first lookup finds the key of the row in use.                       *)
LEMMA LookedNamed ==
  ASSUME ReadInv, Monotone, LoopEnds \/ \E ok \in BOOLEAN : ReadKey(ok)
  PROVE  NamedInv'
<1>0. IsBuffer(out) /\ NamedInv
  BY DEF ReadInv, FirstInv, SingleInv, BufferOK
<1>1. UNCHANGED <<aes, req, server, look>>
  BY DEF LoopEnds, ReadKey, db, world
<1>2. RequestsNamed' /\ ServerNamed' /\ LookOK'
  BY <1>0, <1>1, RequestsKept, ServerKept, LookKept DEF NamedInv
<1>3. CASE LoopEnds
  <2>1. key' = <<>> /\ out' = [out EXCEPT !.left = "end"]
    BY <1>3, Zenon DEF LoopEnds
  <2>2. out'.items = out.items
    BY <1>0, <2>1 DEF IsBuffer
  <2>3. ItemsNamed'
    BY <1>0, <2>2, ItemsKept DEF NamedInv
  <2> QED
    BY <1>2, <2>1, <2>3 DEF NamedInv, KeyNamed
<1>4. ASSUME NEW ok \in BOOLEAN, ReadKey(ok)
      PROVE  NamedInv'
  <2> DEFINE found == KeyOf(IF ok THEN ActiveRow(aes[ChatOf(Current)]) ELSE <<>>)
  <2>1. IF Current.body # Plain \/ found = <<>> THEN ReturnUnchanged(ok)
        ELSE key' = found /\ out' = [out EXCEPT !.changed = FALSE]
    BY <1>4, Zenon DEF ReadKey
  <2>2. CASE ReturnUnchanged(ok)
    <3>1. key' = <<>> /\ \E e : out' = [out EXCEPT !.left = "return", !.excused = e]
      BY <2>2, Zenon DEF ReturnUnchanged
    <3>2. out'.items = out.items
      BY <1>0, <3>1 DEF IsBuffer
    <3>3. ItemsNamed'
      BY <1>0, <3>2, ItemsKept DEF NamedInv
    <3> QED
      BY <1>2, <3>1, <3>3 DEF NamedInv, KeyNamed
  <2>3. CASE ~ReturnUnchanged(ok)
    <3>1. /\ found # <<>> /\ key' = found /\ out' = [out EXCEPT !.changed = FALSE]
      BY <2>1, <2>3
    <3>2. ok /\ CurrentRow # <<>> /\ found = <<CurrentRow[1].key>>
      BY <3>1 DEF KeyOf, CurrentRow
    <3> HIDE DEF found
    <3>3. SameItems
      BY <1>0, <3>1 DEF IsBuffer, SameItems
    <3>4. ItemsNamed'
      BY <1>0, <3>3, ItemsKept DEF NamedInv, SameItems
    <3>5. Current' = Current /\ ChatOf(Current)' = ChatOf(Current) /\ CurrentRow' = CurrentRow
      BY <1>1, <3>3 DEF SameItems, Pending, Current, ChatOf, CurrentRow
    <3>6. ChatOf(Current) \in Chats
      <4>1. Pending # {}
        BY <1>4, Zenon DEF ReadKey
      <4>2. PICK S : out.items \in Seq(S)
        BY DEF ReadInv, FirstInv, SingleInv, BufferOK, ItemsOK
      <4>3. Pending \in SUBSET Nat
        BY <4>2 DEF Pending
      <4>4. Min(Pending) \in Pending
        BY <4>1, <4>3, LeastElement
      <4> QED
        BY <1>0, <4>4 DEF NamedInv, ItemsNamed, Pending, Current
    <3>7. key'[1] = CurrentRow[1].key
      BY <3>1, <3>2
    <3>8. KeyNamed'
      BY <3>5, <3>6, <3>7 DEF KeyNamed
    <3> QED
      BY <1>2, <3>4, <3>8 DEF NamedInv
  <2> QED
    BY <2>2, <2>3
<1> QED
  BY <1>3, <1>4

(* The second lookup names the row it finds; the key is that of the first.  *)
LEMMA EncryptedNamed ==
  ASSUME ReadInv, Monotone, NEW select \in BOOLEAN, NEW insert \in BOOLEAN,
         ReadNumber(select, insert)
  PROVE  NamedInv'
<1>0. /\ IsBuffer(out) /\ NamedInv /\ \A c \in Chats : TableOK(aes[c])
      /\ req = [t \in Texts |-> req[t]] /\ \A t \in Texts : IsRequest(req[t])
  BY DEF ReadInv, FirstInv, SingleInv, BufferOK, RequestsOK, DbInv
<1>1. UNCHANGED <<aes, server, look>> /\ key # <<>> /\ key' = <<>>
  <2>1. key' = <<>>
    BY Zenon DEF ReadNumber, ReturnUnchanged
  <2> QED
    BY <2>1 DEF ReadNumber, db, world
<1>2. ServerNamed' /\ LookOK' /\ KeyNamed'
  BY <1>0, <1>1, ServerKept, LookKept DEF NamedInv, KeyNamed
<1> DEFINE active == IF select THEN ActiveRow(aes[ChatOf(Current)]) ELSE <<>>
<1>3. CASE active = <<>>
  <2>1. req' = req /\ \E e : out' = [out EXCEPT !.left = "return", !.excused = e]
    BY <1>3, Zenon DEF ReadNumber, ReturnUnchanged
  <2>2. out'.items = out.items
    BY <1>0, <2>1 DEF IsBuffer
  <2>3. ItemsNamed' /\ RequestsNamed'
    BY <1>0, <2>1, <2>2, ItemsKept, RequestsKept DEF NamedInv
  <2> QED
    BY <1>2, <2>3 DEF NamedInv
<1>4. CASE active # <<>>
  <2> DEFINE b == Encrypt(Current.body, active[1].n, key[1])
             i == Min(Pending)
  <2>1. /\ \E next, g : out' = [out EXCEPT !.items[i].body = b, !.at = next, !.grown = g]
        /\ req' = [req EXCEPT ![Current.text].body = b] \/ req' = req
    BY <1>4, Zenon DEF ReadNumber
  <2>2. /\ i \in DOMAIN out.items /\ Current = out.items[i] /\ Current.text \in Texts
        /\ req[Current.text].place # "none"
        /\ ChatOf(Current) \in Chats /\ Current.body = Plain
    <3>1. Pending # {} /\ Current.body = Plain
      BY <1>1 DEF ReadInv, FirstInv, SingleInv, KeyOK
    <3>2. PICK S : out.items \in Seq(S)
      BY DEF ReadInv, FirstInv, SingleInv, BufferOK, ItemsOK
    <3>3. Pending \in SUBSET Nat
      BY <3>2 DEF Pending
    <3>4. i \in Pending
      BY <3>1, <3>3, LeastElement
    <3> HIDE DEF b
    <3> QED
      BY <1>0, <3>1, <3>4 DEF NamedInv, ItemsNamed, Pending, Current
  <2>3. Named(aes, ChatOf(Current), b)
    <3> DEFINE layer == [n |-> active[1].n, key |-> key[1], changed |-> out.changed]
               t == aes[ChatOf(Current)]
    <3>1. b = <<layer>> \o <<>>
      BY <2>2 DEF Encrypt, Plain
    <3>2. select /\ active = CurrentRow
      BY <1>4 DEF CurrentRow
    <3>3. PICK S : t \in Seq(S)
      BY <1>0, <2>2 DEF TableOK
    <3>4. PICK j \in WithStatus(t, InUse) : CurrentRow = <<t[j]>>
      <4>1. WithStatus(t, InUse) \subseteq DOMAIN t
        BY DEF WithStatus
      <4>2. FirstRow(t, WithStatus(t, InUse)) = active /\ active # <<>>
        BY <1>4, <3>2 DEF CurrentRow, ActiveRow
      <4> HIDE DEF active, t
      <4> QED
        BY <3>2, <3>3, <4>1, <4>2, FirstRowIs
    <3>5. j \in DOMAIN t /\ CurrentRow[1] = t[j]
      BY <3>4 DEF WithStatus
    <3>6. out.changed \/ CurrentRow[1].key = key[1]
      BY <1>0, <1>1, <1>4, <3>2 DEF NamedInv, KeyNamed
    <3>7. layer.n = t[j].n /\ layer.key = key[1] /\ layer.changed = out.changed
      BY <3>2, <3>5
    <3> HIDE DEF layer
    <3>8. b[1] = layer
      BY <3>1
    <3>9. b[1].n = t[j].n /\ (b[1].changed \/ t[j].key = b[1].key)
      BY <3>5, <3>6, <3>7, <3>8
    <3> HIDE DEF b
    <3> QED
      BY <2>2, <3>5, <3>9 DEF Named
  <2> HIDE DEF b, i, active
  <2>4. out'.items = [out.items EXCEPT ![i].body = b]
    BY <1>0, <2>1 DEF IsBuffer
  <2>5. ASSUME NEW t \in Texts
        PROVE  /\ req'[t].chat = req[t].chat /\ req'[t].place = req[t].place
               /\ req'[t].body = req[t].body \/ (t = Current.text /\ req'[t].body = b)
    <3>1. req'[t] = req[t] \/ (t = Current.text /\ req'[t] = [req[t] EXCEPT !.body = b])
      BY <1>0, <2>1
    <3> QED
      BY <1>0, <3>1 DEF IsRequest
  <2>6. RequestsNamed'
    <3> SUFFICES ASSUME NEW t \in Texts
                 PROVE  /\ Named(aes', req'[t].chat, req'[t].body)
                        /\ req'[t].place = "none" => req'[t].body = Plain
      BY DEF RequestsNamed
    <3> QED
      BY <1>0, <1>1, <2>2, <2>3, <2>5 DEF NamedInv, RequestsNamed, ChatOf
  <2>7. ItemsNamed'
    <3> SUFFICES ASSUME NEW k \in DOMAIN out'.items, out'.items[k].text # Service
                 PROVE  /\ out'.items[k].text \in Texts /\ req'[out'.items[k].text].place # "none"
                        /\ ChatOf(out.items[k])' \in Chats
                        /\ Named(aes', ChatOf(out.items[k])', out'.items[k].body)
      BY DEF ItemsNamed
    <3>1. k \in DOMAIN out.items /\ IsItem(out.items[k])
      BY <2>4 DEF ReadInv, FirstInv, SingleInv, BufferOK, ItemsOK
    <3>2. \/ out'.items[k] = out.items[k]
          \/ k = i /\ out'.items[k] = [out.items[k] EXCEPT !.body = b]
      BY <2>4, <3>1
    <3>3. /\ out'.items[k].text = out.items[k].text
          /\ out'.items[k].body = out.items[k].body \/ (k = i /\ out'.items[k].body = b)
      BY <3>1, <3>2 DEF IsItem
    <3>4. /\ out.items[k].text \in Texts /\ req[out.items[k].text].place # "none"
          /\ ChatOf(out.items[k]) \in Chats
          /\ Named(aes, ChatOf(out.items[k]), out.items[k].body)
      BY <1>0, <3>1, <3>3 DEF NamedInv, ItemsNamed
    <3>5. /\ ChatOf(out.items[k])' = ChatOf(out.items[k])
          /\ req'[out'.items[k].text].place = req[out.items[k].text].place
      BY <2>5, <3>3, <3>4 DEF ChatOf
    <3> QED
      BY <1>1, <2>2, <2>3, <3>3, <3>4, <3>5
  <2> QED
    BY <1>2, <2>6, <2>7 DEF NamedInv
<1> QED
  BY <1>3, <1>4

(* The server keeps a text as an item of the buffer has it.                *)
LEMMA SentNamed ==
  ASSUME ReadInv, Monotone, NEW arrives \in BOOLEAN, Transmit(arrives)
  PROVE  NamedInv'
<1> DEFINE ItemOf(t) == {i \in DOMAIN out.items : out.items[i].text = t}
           taken == {t \in Texts : ItemOf(t) # {} /\ server[t] = <<>>}
           Body(t) == out.items[Min(ItemOf(t))].body
<1>0. NamedInv
  BY DEF ReadInv
<1>1. /\ out.left # "no" /\ out' = NoBuffer /\ UNCHANGED <<aes, req, key, look>>
      /\ \/ server' = [t \in Texts |-> IF t \in taken THEN <<Body(t)>> ELSE server[t]]
         \/ server' = server
  <2>1. /\ out.left # "no" /\ out' = NoBuffer
        /\ \/ server' = [t \in Texts |-> IF t \in taken THEN <<Body(t)>> ELSE server[t]]
           \/ server' = server
    BY Zenon DEF Transmit
  <2> QED
    BY <2>1 DEF Transmit, db
<1>2. key' = <<>>
  BY <1>1 DEF ReadInv, FirstInv, SingleInv, KeyOK
<1>3. KeyNamed' /\ ItemsNamed'
  BY <1>1, <1>2 DEF KeyNamed, ItemsNamed, NoBuffer
<1>4. RequestsNamed'
  BY <1>0, <1>1, RequestsKept DEF NamedInv
<1>5. ASSUME NEW t \in taken
      PROVE  req[t].place # "none" /\ Named(aes, req[t].chat, Body(t))
  <2>1. PICK S : out.items \in Seq(S)
    BY DEF ReadInv, FirstInv, SingleInv, BufferOK, ItemsOK
  <2>2. ItemOf(t) \in SUBSET Nat /\ ItemOf(t) # {}
    BY <2>1
  <2>3. Min(ItemOf(t)) \in ItemOf(t)
    <3> HIDE DEF ItemOf
    <3> QED
      BY <2>2, LeastElement
  <2>4. /\ Min(ItemOf(t)) \in DOMAIN out.items /\ out.items[Min(ItemOf(t))].text = t
        /\ t # Service
    BY <2>3 DEF Texts, Service
  <2> HIDE DEF taken
  <2> QED
    BY <1>0, <2>4 DEF NamedInv, ItemsNamed, ChatOf
<1>6. ASSUME NEW t \in Texts, server[t] # <<>>
      PROVE  server'[t] = server[t]
  BY <1>1, <1>6
<1>7. LookOK'
  BY <1>0, <1>1, <1>6, LookKept DEF NamedInv
<1>8. ServerNamed'
  <2> SUFFICES ASSUME NEW t \in Texts, server'[t] # <<>>
               PROVE  req[t].place # "none" /\ Named(aes, req[t].chat, server'[t][1])
    BY <1>1 DEF ServerNamed
  <2>1. CASE server'[t] = server[t]
    BY <1>0, <2>1 DEF NamedInv, ServerNamed
  <2>2. CASE server'[t] # server[t]
    <3>1. t \in taken /\ server'[t] = <<Body(t)>>
      BY <1>1, <2>2
    <3> HIDE DEF taken, Body
    <3>2. server'[t][1] = Body(t)
      BY <3>1
    <3> QED
      BY <1>5, <3>1, <3>2
  <2> QED
    BY <2>1, <2>2
<1> QED
  BY <1>3, <1>4, <1>7, <1>8 DEF NamedInv

(* The first lookup of the decryption.                                     *)
LEMMA LookedFirst ==
  ASSUME ReadInv, NEW t \in Texts, NEW ok \in BOOLEAN, LookFirst(t, ok)
  PROVE  LookOK'
<1>1. /\ Encrypted(t) /\ UNCHANGED <<aes, req, server>>
      /\ look' = [text |-> t, keys |-> IF ok THEN Found(t, 1) ELSE <<>>, failed |-> ~ok]
  BY DEF LookFirst, db, sending, world
<1> DEFINE c == req[t].chat
<1>2. c \in Chats /\ TableOK(aes[c])
      /\ \E i \in DOMAIN aes[c] : /\ aes[c][i].n = Outer(t).n
                                  /\ Outer(t).changed \/ aes[c][i].key = Outer(t).key
  BY <1>1 DEF ReadInv, FirstInv, DbInv, NamedInv, ServerNamed, Named, Encrypted, Outer
<1>3. PICK i \in DOMAIN aes[c] : /\ aes[c][i].n = Outer(t).n
                                 /\ Outer(t).changed \/ aes[c][i].key = Outer(t).key
  BY <1>2
<1>4. /\ Found(t, 1) \in {<<>>, <<aes[c][i].key>>}
      /\ aes[c][i].status = InUse => Found(t, 1) # <<>>
  <2>1. Found(t, 1) = KeyOf(Numbered(c, Outer(t).n, InUse))
    <3>1. LookupOrder[1] = InUse
      BY DEF LookupOrder
    <3> QED
      BY <3>1 DEF Found
  <2>2. /\ KeyOf(Numbered(c, Outer(t).n, InUse)) \in {<<>>, <<aes[c][i].key>>}
        /\ aes[c][i].status = InUse => KeyOf(Numbered(c, Outer(t).n, InUse)) # <<>>
    BY <1>2, <1>3, NumberedIs
  <2> QED
    BY <2>1, <2>2
<1>5. aes[c][i].status \in {InUse, Outdated}
  BY <1>2 DEF TableOK
<1>6. look'.text = t /\ look'.failed = ~ok /\ (ok => look'.keys = Found(t, 1))
      /\ (~ok => look'.keys = <<>>)
  BY <1>1
<1>7. Encrypted(look.text)' /\ Outer(look.text)' = Outer(t) /\ LookTable' = aes[c]
  BY <1>1, <1>6 DEF Encrypted, Outer, LookTable
<1> QED
  BY <1>3, <1>4, <1>5, <1>6, <1>7 DEF LookOK

LEMMA NamedStep ==
  ASSUME ReadInv, Monotone, [Next]_vars
  PROVE  NamedInv'
<1>0. NamedInv
  BY DEF ReadInv
<1>1. CASE \/ \E c \in Chats, ok \in BOOLEAN : StoreDisable(c, ok) \/ Retire(c, ok)
           \/ \E ok \in BOOLEAN : StoreInsert(ok)
  <2>1. UNCHANGED <<req, server, look>>
    BY <1>1 DEF StoreDisable, Retire, StoreInsert, sending, world
  <2>2. out'.items = out.items
    <3>1. SameItems
      <4>1. IsBuffer(out)
        BY DEF ReadInv, FirstInv, SingleInv, BufferOK
      <4>2. \E c, e, p : \/ out' = out
                         \/ out' = [out EXCEPT !.changed = c, !.excused = e]
                         \/ out' = [out EXCEPT !.promised = p]
        BY <1>1, Zenon DEF StoreDisable, Retire, StoreInsert, sending
      <4> QED
        BY <4>1, <4>2 DEF SameItems, IsBuffer
    <3> QED
      BY <3>1 DEF SameItems
  <2>3. RequestsNamed' /\ ServerNamed' /\ ItemsNamed' /\ LookOK'
    BY <1>0, <2>1, <2>2, RequestsKept, ServerKept, ItemsKept, LookKept DEF NamedInv
  <2>4. KeyNamed'
    BY <1>1, KeyKept
  <2> QED
    BY <2>3, <2>4 DEF NamedInv
<1>2. CASE \/ UNCHANGED vars
           \/ \E t \in Texts, ok \in BOOLEAN : LookFirst(t, ok)
           \/ \E select, insert \in BOOLEAN : LookSecond(select, insert)
  <2>1. UNCHANGED <<aes, req, out, key, server>>
    BY <1>2 DEF vars, db, sending, world, LookFirst, LookSecond
  <2>2. RequestsNamed' /\ ServerNamed' /\ ItemsNamed'
    BY <1>0, <2>1, RequestsKept, ServerKept, ItemsKept DEF NamedInv
  <2>3. KeyNamed'
    BY <1>0, <2>1 DEF NamedInv, KeyNamed, CurrentRow, Current, Pending, ChatOf
  <2>4. LookOK'
    <3>1. CASE UNCHANGED vars
      BY <1>0, <2>1, <3>1, LookKept DEF NamedInv, vars
    <3>2. ASSUME NEW select \in BOOLEAN, NEW insert \in BOOLEAN, LookSecond(select, insert)
          PROVE  LookOK'
      BY <3>2 DEF LookSecond, LookOK
    <3> QED
      BY <1>2, <3>1, <3>2, LookedFirst
  <2> QED
    BY <2>2, <2>3, <2>4 DEF NamedInv
<1>3. CASE \/ \E t \in Texts, c \in Chats : Compose(t, c)
           \/ \E t \in Texts : Resend(t)
           \/ \E a \in answers, alone, ok \in BOOLEAN : Answer(a, alone, ok)
  <2>1. UNCHANGED <<aes, out, key, server, look>> /\ out = NoBuffer
    BY <1>3 DEF Compose, Resend, Answer, Idle, db, world
  <2>2. ASSUME NEW t \in Texts PROVE req'[t].body = req[t].body
    <3>1. PICK u, c, p, f : \/ req' = [req EXCEPT ![u].chat = c, ![u].place = p]
                            \/ req' = [req EXCEPT ![u].place = p, ![u].forced = f]
                            \/ req' = [req EXCEPT ![u].place = p]
      BY <1>3, Zenon DEF Compose, Resend, Answer
    <3>2. req = [s \in Texts |-> req[s]] /\ IsRequest(req[t])
      BY DEF ReadInv, FirstInv, SingleInv, RequestsOK
    <3>3. \/ req'[t] = req[t]
          \/ req'[t] = [req[t] EXCEPT !.chat = c, !.place = p]
          \/ req'[t] = [req[t] EXCEPT !.place = p, !.forced = f]
          \/ req'[t] = [req[t] EXCEPT !.place = p]
      BY <3>1, <3>2
    <3> QED
      BY <3>2, <3>3 DEF IsRequest
  <2>3. RequestsNamed' /\ ServerNamed' /\ ItemsNamed' /\ LookOK'
    BY <1>0, <2>1, <2>2, RequestsKept, ServerKept, ItemsKept, LookKept DEF NamedInv
  <2>4. key = <<>>
    BY <2>1 DEF ReadInv, FirstInv, SingleInv, KeyOK, NoBuffer, Pending
  <2> QED
    BY <2>1, <2>3, <2>4 DEF NamedInv, KeyNamed
<1>4. CASE \E ping, copied, renew \in BOOLEAN : TryToSend(ping, copied, renew)
  BY <1>4, PackNamed
<1>5. CASE LoopEnds \/ \E ok \in BOOLEAN : ReadKey(ok)
  BY <1>5, LookedNamed
<1>6. CASE \E select, insert \in BOOLEAN : ReadNumber(select, insert)
  BY <1>6, EncryptedNamed
<1>7. CASE \E arrives \in BOOLEAN : Transmit(arrives)
  BY <1>7, SentNamed
<1> QED
  BY <1>1, <1>2, <1>3, <1>4, <1>5, <1>6, <1>7, Zenon DEF Next

LEMMA ReadStep ==
  ASSUME ReadInv, [Next]_vars
  PROVE  ReadInv'
<1>1. FirstInv'
  BY FirstStep DEF ReadInv
<1>2. Monotone
  BY DbStep, ChatsStay DEF ReadInv, FirstInv, Monotone
<1> QED
  BY <1>1, <1>2, NamedStep DEF ReadInv

(* What both lookups find of the text that is read.                        *)
LEMMA FoundIs ==
  ASSUME ReadInv, look # NoLookup
  PROVE  /\ ~look.failed => FoundInAll # <<>>
         /\ ~Outer(look.text).changed => FoundInAll \in {<<>>, <<Outer(look.text).key>>}
<1> DEFINE t == look.text
           c == req[t].chat
           second == KeyOf(Numbered(c, Outer(t).n, Outdated))
<1>1. LookOK /\ ServerNamed /\ \A d \in Chats : TableOK(aes[d])
  BY DEF ReadInv, NamedInv, FirstInv, DbInv
<1>2. t \in Texts /\ server[t] # <<>> /\ server[t][1] # Plain
  BY <1>1 DEF LookOK, Encrypted
<1>3. c \in Chats /\ \E i \in DOMAIN aes[c] : /\ aes[c][i].n = Outer(t).n
                                              /\ Outer(t).changed \/ aes[c][i].key = Outer(t).key
  BY <1>1, <1>2 DEF ServerNamed, Named, Outer
<1>4. PICK i \in DOMAIN aes[c] : /\ aes[c][i].n = Outer(t).n
                                 /\ Outer(t).changed \/ aes[c][i].key = Outer(t).key
  BY <1>3
<1>5. Found(t, 2) = second
  <2>1. LookupOrder[2] = Outdated
    BY DEF LookupOrder
  <2> QED
    BY <2>1 DEF Found
<1>6. second \in {<<>>, <<aes[c][i].key>>}
  BY <1>1, <1>3, <1>4, NumberedIs
<1>7. ASSUME ~look.failed, look.keys = <<>>
      PROVE  second # <<>>
  <2>1. PICK j \in DOMAIN aes[c] : aes[c][j].n = Outer(t).n /\ aes[c][j].status = Outdated
    BY <1>1, <1>7 DEF LookOK, LookTable
  <2> QED
    BY <1>1, <1>3, <2>1, NumberedIs
<1>8. FoundInAll = IF second # <<>> THEN second ELSE look.keys
  BY <1>5 DEF FoundInAll
<1> HIDE DEF second
<1>9. ~look.failed => FoundInAll # <<>>
  BY <1>7, <1>8
<1>10. ~Outer(t).changed => FoundInAll \in {<<>>, <<Outer(t).key>>}
  BY <1>1, <1>4, <1>6, <1>8 DEF LookOK
<1> QED
  BY <1>9, <1>10

(* A text of ours can be decrypted whenever it is read back: between the two
   lookups of decrypt_the_message, of the keys in use and of those out of
   date, a key can only become out of date.                                *)
THEOREM KeyStaysFindable == Spec => []KeyIsFound
<1>1. ReadInv => KeyIsFound
  BY FoundIs DEF KeyIsFound
<1> QED
  BY <1>1, InitRead, ReadStep, PTL DEF Spec

(* The key found is the one the text was encrypted with, whatever was stored,
   replaced or retired since: numbers are used once in a chat, and the key and
   the number of a text, read by two statements, are those of one row unless
   a key was stored between the two.                                       *)
THEOREM RightKeyIsFound == Spec => []Readable
<1>1. ReadInv => Readable
  BY FoundIs DEF Readable
<1> QED
  BY <1>1, InitRead, ReadStep, PTL DEF Spec

-----------------------------------------------------------------------------
(* The icon: which rows of "messages" belong to which text.                *)

(* No text but t has this message id.                                      *)
Owner(id, t) == \A u \in Texts : req[u].id = id => u = t

(* Message ids are given once, to a request that is sent.                  *)
IdsOK ==
  /\ clock \in Nat
  /\ \A t \in Texts :
       /\ req[t].id \in 0 .. clock
       /\ req[t].place = "sent" => req[t].id # 0
       /\ req[t].place \in {"none", "queued"} => req[t].forced \/ req[t].id = 0
       /\ req[t].renamed => req[t].forced
       /\ server[t] # <<>> => req[t].id # 0
  /\ \A t \in Texts : req[t].id # 0 => Owner(req[t].id, t)

(* A result is that of a text the server has, under an id the text was sent
   with: the one it still has, unless it was given another.                *)
AnswersOK == \A a \in answers :
  /\ a.text \in Texts /\ a.id \in 1 .. clock /\ Owner(a.id, a.text) /\ server[a.text] # <<>>
  /\ ~req[a.text].renamed => a.id = req[a.text].id
  /\ \A b \in answers : a.id = b.id => a.text = b.text

(* A row with a message is that of a text the server has, and of no other. *)
RowsOK == \A r \in rows :
  /\ r = [req |-> r.req, text |-> r.text, n |-> r.n] /\ r.req \in 0 .. clock
  /\ r.text = 0 \/ (r.text \in Texts /\ server[r.text] # <<>>)
  /\ r.text # 0 /\ r.req # 0 => /\ Owner(r.req, r.text)
                                /\ \A a \in answers : a.id = r.req => a.text = r.text

(* Of a buffer: every text is there once, with its id; one that was never put
   back is new to the server.                                              *)
BufferIds ==
  /\ \A i \in DOMAIN out.items : out.items[i].text = Service => out.items[i].id = 0
  /\ \A i \in DOMAIN out.items : out.items[i].text # Service =>
       /\ out.items[i].text \in Texts
       /\ out.items[i].id = req[out.items[i].text].id /\ out.items[i].id # 0
       /\ req[out.items[i].text].forced \/ server[out.items[i].text] = <<>>
       /\ \A j \in DOMAIN out.items : out.items[j].text = out.items[i].text => j = i
  /\ out.inPlace => DOMAIN out.items = {1}
  /\ out.at \in Nat

(* The loop does not come past a text at the head without encrypting it.   *)
HeadOK ==
  1 \in DOMAIN out.items /\ out.items[1].text # Service /\ out.items[1].body = Plain
    => out.at <= 1

LookIcon == look # NoLookup => look.text \in Texts /\ Encrypted(look.text)

HasRow(t) == \E r \in rows : r.req = req[t].id

(* A row under a text that was sent once: the text is or will be encrypted. *)
RowIsTrue == \A t \in Texts :
  req[t].id # 0 /\ HasRow(t) /\ ~req[t].forced =>
    /\ server[t] # <<>> => Encrypted(t)
    /\ \A i \in DOMAIN out.items : out.items[i].text = t => out.items[i].body # Plain

(* A text that is encrypted has a row, unless its length will keep the buffer
   from being read.                                                        *)
Known(t) == ~req[t].renamed /\ t \notin unmarked
RowComes ==
  /\ \A t \in Texts : (req[t].body # Plain \/ Encrypted(t)) /\ Known(t)
                        => req[t].id # 0 /\ HasRow(t)
  /\ \A i \in DOMAIN out.items :
       out.items[i].text # Service /\ out.items[i].body # Plain /\ Known(out.items[i].text)
         => HasRow(out.items[i].text) \/ i \in out.grown \ {1}

ToldOK == \A t \in told : t \in Texts /\ server[t] # <<>>

IconInv ==
  /\ SingleInv /\ IdsOK /\ AnswersOK /\ RowsOK /\ BufferIds /\ HeadOK /\ LookIcon
  /\ RowIsTrue /\ RowComes /\ ToldOK /\ IconIsTrue /\ IconComes

LEMMA InitIcon == Init => IconInv
<1> SUFFICES ASSUME Init PROVE IconInv
  OBVIOUS
<1>1. /\ out.items = <<>> /\ out.at = 0 /\ ~out.inPlace /\ clock = 0
      /\ look = NoLookup /\ rows = {} /\ answers = {} /\ told = {} /\ unmarked = {}
  BY DEF Init, NoBuffer
<1>2. ASSUME NEW t \in Texts
      PROVE  /\ req[t].id = 0 /\ req[t].body = Plain /\ req[t].place = "none"
             /\ ~req[t].renamed /\ server[t] = <<>>
  BY DEF Init
<1>3. DOMAIN out.items = {}
  BY <1>1
<1>4. SingleInv
  BY InitSingle
<1>5. IdsOK /\ AnswersOK /\ RowsOK /\ LookIcon /\ ToldOK
  BY <1>1, <1>2 DEF IdsOK, AnswersOK, RowsOK, LookIcon, ToldOK
<1>6. BufferIds /\ HeadOK /\ RowIsTrue
  BY <1>1, <1>2, <1>3 DEF BufferIds, HeadOK, RowIsTrue
<1>7. RowComes
  BY <1>2, <1>3 DEF RowComes, Encrypted
<1>8. IconIsTrue /\ IconComes
  BY <1>1, <1>2 DEF IconIsTrue, IconComes
<1> QED
  BY <1>4, <1>5, <1>6, <1>7, <1>8 DEF IconInv

(* A step that leaves requests, rows, results and the items alone.         *)
LEMMA IconQuiet ==
  ASSUME IconInv, SingleInv', UNCHANGED <<req, clock, rows, server, answers, told, unmarked>>,
         out'.items = out.items, out'.at = out.at, out'.inPlace = out.inPlace,
         out'.grown = out.grown, LookIcon'
  PROVE  IconInv'
<1>1. IdsOK' /\ AnswersOK' /\ RowsOK' /\ ToldOK'
  BY DEF IconInv, IdsOK, AnswersOK, RowsOK, ToldOK, Owner
<1>2. BufferIds' /\ HeadOK'
  BY DEF IconInv, BufferIds, HeadOK
<1>3. RowIsTrue' /\ RowComes'
  BY DEF IconInv, RowIsTrue, RowComes, Encrypted, HasRow, Known
<1>4. IconIsTrue' /\ IconComes'
  BY DEF IconInv, IconIsTrue, IconComes, Marked, Encrypted
<1> QED
  BY <1>1, <1>2, <1>3, <1>4 DEF IconInv

(* The steps of other threads, and those of the session that neither change a
   text nor pack or empty a buffer.                                        *)
LEMMA IconOthers ==
  ASSUME IconInv, SingleInv',
         \/ UNCHANGED vars
         \/ \E c \in Chats, ok \in BOOLEAN : StoreDisable(c, ok) \/ Retire(c, ok)
         \/ \E ok \in BOOLEAN : StoreInsert(ok) \/ ReadKey(ok)
         \/ \E t \in Texts, ok \in BOOLEAN : LookFirst(t, ok)
         \/ LoopEnds
  PROVE  IconInv'
<1>1. UNCHANGED <<req, clock, rows, server, answers, told, unmarked>>
  BY DEF vars, sending, world, faults, StoreDisable, Retire, StoreInsert, ReadKey, LookFirst,
         LoopEnds
<1>2. /\ out'.items = out.items /\ out'.at = out.at /\ out'.inPlace = out.inPlace
      /\ out'.grown = out.grown
  <2>1. IsBuffer(out)
    BY DEF IconInv, SingleInv, BufferOK
  <2>2. \/ out' = out
        \/ \E c, e : out' = [out EXCEPT !.changed = c, !.excused = e]
        \/ \E p : out' = [out EXCEPT !.promised = p]
        \/ \E l : out' = [out EXCEPT !.left = l]
        \/ \E l, e : out' = [out EXCEPT !.left = l, !.excused = e]
        \/ \E c : out' = [out EXCEPT !.changed = c]
    <3>1. ASSUME NEW ok, StoreInsert(ok)
          PROVE  \E c, e : out' = [out EXCEPT !.changed = c, !.excused = e]
      BY <3>1, Zenon DEF StoreInsert
    <3>2. ASSUME NEW c, NEW ok, Retire(c, ok)
          PROVE  \E p : out' = [out EXCEPT !.promised = p]
      BY <3>2, Zenon DEF Retire
    <3>3. ASSUME NEW ok, ReadKey(ok)
          PROVE  \/ \E l, e : out' = [out EXCEPT !.left = l, !.excused = e]
                 \/ \E c : out' = [out EXCEPT !.changed = c]
      BY <3>3, Zenon DEF ReadKey, ReturnUnchanged
    <3>4. LoopEnds => \E l : out' = [out EXCEPT !.left = l]
      BY Zenon DEF LoopEnds
    <3>5. \/ out' = out
          \/ \E ok : StoreInsert(ok) \/ ReadKey(ok)
          \/ \E c, ok : Retire(c, ok)
          \/ LoopEnds
      BY DEF vars, sending, StoreDisable, LookFirst
    <3> QED
      BY <3>1, <3>2, <3>3, <3>4, <3>5, Zenon
  <2> QED
    BY <2>1, <2>2 DEF IsBuffer
<1>3. LookIcon'
  <2>1. CASE look' = look
    BY <1>1, <2>1 DEF IconInv, LookIcon, Encrypted
  <2>2. ASSUME NEW t \in Texts, NEW ok \in BOOLEAN, LookFirst(t, ok)
        PROVE  LookIcon'
    <3>1. look'.text = t /\ Encrypted(t)
      BY <2>2 DEF LookFirst
    <3> QED
      BY <1>1, <3>1 DEF LookIcon, Encrypted
  <2>3. look' = look \/ \E t \in Texts, ok \in BOOLEAN : LookFirst(t, ok)
    BY DEF vars, StoreDisable, Retire, StoreInsert, ReadKey, LoopEnds
  <2> QED
    BY <2>1, <2>2, <2>3
<1> QED
  BY <1>1, <1>2, <1>3, IconQuiet

(* A text is written, or its request is put back in the queue.             *)
LEMMA IconRequests ==
  ASSUME IconInv, SingleInv',
         \/ \E t \in Texts, c \in Chats : Compose(t, c)
         \/ \E t \in Texts : Resend(t)
  PROVE  IconInv'
<1>1. UNCHANGED <<clock, out, rows, server, answers, told, look, unmarked>> /\ out = NoBuffer
  BY DEF Compose, Resend, Idle, world, faults
<1>2. DOMAIN out.items = {}
  BY <1>1 DEF NoBuffer
<1>3. req = [t \in Texts |-> req[t]] /\ \A t \in Texts : IsRequest(req[t])
  BY DEF IconInv, SingleInv, RequestsOK
<1>4. ASSUME NEW s \in Texts
      PROVE  /\ req'[s].id = req[s].id /\ req'[s].body = req[s].body
             /\ req'[s].renamed = req[s].renamed /\ (req[s].forced => req'[s].forced)
             /\ req'[s].place = "sent" => req'[s].id # 0
             /\ req'[s].place \in {"none", "queued"} => req'[s].forced \/ req'[s].id = 0
  <2>0. /\ req[s].place = "sent" => req[s].id # 0
        /\ req[s].place \in {"none", "queued"} => req[s].forced \/ req[s].id = 0
    BY DEF IconInv, IdsOK
  <2>1. ASSUME NEW t \in Texts, NEW c \in Chats, Compose(t, c), req'[s] # req[s]
        PROVE  req'[s] = [req[s] EXCEPT !.chat = c, !.place = "queued"] /\ req[s].place = "none"
    <3>1. req' = [req EXCEPT ![t].chat = c, ![t].place = "queued"] /\ t = Min(In("none"))
          /\ In("none") # {}
      BY <2>1, Zenon DEF Compose
    <3>2. In("none") \in SUBSET Nat
      BY BoundsAssumption DEF In, Texts
    <3>3. req[t].place = "none"
      BY <3>1, <3>2, LeastElement DEF In
    <3> QED
      BY <1>3, <2>1, <3>1, <3>3
  <2>2. ASSUME NEW t \in Texts, Resend(t), req'[s] # req[s]
        PROVE  req'[s] = [req[s] EXCEPT !.place = "queued", !.forced = TRUE]
    <3>1. req' = [req EXCEPT ![t].place = "queued", ![t].forced = TRUE]
      BY <2>2, Zenon DEF Resend
    <3> QED
      BY <1>3, <2>2, <3>1
  <2>3. \/ req'[s] = req[s]
        \/ \E c : req'[s] = [req[s] EXCEPT !.chat = c, !.place = "queued"] /\ req[s].place = "none"
        \/ req'[s] = [req[s] EXCEPT !.place = "queued", !.forced = TRUE]
    BY <2>1, <2>2
  <2>4. IsRequest(req[s])
    BY <1>3
  <2>5. CASE req'[s] = req[s]
    BY <2>0, <2>5
  <2>6. ASSUME NEW c, req'[s] = [req[s] EXCEPT !.chat = c, !.place = "queued"],
               req[s].place = "none"
        PROVE  /\ req'[s].id = req[s].id /\ req'[s].body = req[s].body
               /\ req'[s].renamed = req[s].renamed /\ req'[s].forced = req[s].forced
               /\ req'[s].place = "queued" /\ (req[s].forced \/ req[s].id = 0)
    BY <2>0, <2>4, <2>6 DEF IsRequest
  <2>7. ASSUME req'[s] = [req[s] EXCEPT !.place = "queued", !.forced = TRUE]
        PROVE  /\ req'[s].id = req[s].id /\ req'[s].body = req[s].body
               /\ req'[s].renamed = req[s].renamed /\ req'[s].forced
               /\ req'[s].place = "queued"
    BY <2>4, <2>7 DEF IsRequest
  <2> QED
    BY <2>3, <2>5, <2>6, <2>7
<1>5. IdsOK' /\ AnswersOK' /\ RowsOK'
  BY <1>1, <1>4 DEF IconInv, IdsOK, AnswersOK, RowsOK, Owner
<1>6. BufferIds' /\ HeadOK' /\ LookIcon' /\ ToldOK'
  BY <1>1, <1>2 DEF IconInv, BufferIds, HeadOK, LookIcon, ToldOK, Encrypted
<1>7. RowIsTrue' /\ RowComes'
  BY <1>1, <1>2, <1>4 DEF IconInv, RowIsTrue, RowComes, HasRow, Known, Encrypted
<1>8. IconIsTrue' /\ IconComes'
  BY <1>1, <1>4 DEF IconInv, IconIsTrue, IconComes, Marked, Encrypted, ToldOK
<1> QED
  BY <1>5, <1>6, <1>7, <1>8 DEF IconInv

(* A result that comes by itself gives its text's id to the rows under the
   request; no row of another text is among them.                          *)
LEMMA IconAnswer ==
  ASSUME IconInv, SingleInv', NEW a \in answers, NEW alone \in BOOLEAN, NEW ok \in BOOLEAN,
         Answer(a, alone, ok)
  PROVE  IconInv'
<1> DEFINE t == a.text
<1>1. /\ UNCHANGED <<clock, out, server, look>> /\ out = NoBuffer
      /\ answers' = answers \ {a} /\ (ok \/ alone)
      /\ req' = [req EXCEPT ![t].place = "answered"]
      /\ rows' = IF alone /\ ok THEN AddMessageId(a.id, t) ELSE rows
      /\ unmarked' = IF ok THEN unmarked ELSE unmarked \cup {t}
      /\ told' = IF alone THEN told \cup {t} ELSE told
  BY DEF Answer, Idle
<1>2. DOMAIN out.items = {}
  BY <1>1 DEF NoBuffer
<1>3. req = [s \in Texts |-> req[s]] /\ \A s \in Texts : IsRequest(req[s])
  BY DEF IconInv, SingleInv, RequestsOK
<1>4. /\ t \in Texts /\ a.id \in 1 .. clock /\ Owner(a.id, t) /\ server[t] # <<>>
      /\ ~req[t].renamed => a.id = req[t].id
      /\ \A b \in answers : a.id = b.id => t = b.text
  BY DEF IconInv, AnswersOK
<1> HIDE DEF t
<1>5. ASSUME NEW s \in Texts
      PROVE  /\ req'[s].id = req[s].id /\ req'[s].body = req[s].body
             /\ req'[s].renamed = req[s].renamed /\ req'[s].forced = req[s].forced
             /\ req'[s].place \in {"none", "queued", "sent"} => req'[s].place = req[s].place
  <2>1. req'[s] = req[s] \/ req'[s] = [req[s] EXCEPT !.place = "answered"]
    BY <1>1, <1>3
  <2>2. IsRequest(req[s])
    BY <1>3
  <2> QED
    BY <2>1, <2>2 DEF IsRequest
<1>6. IdsOK' /\ AnswersOK'
  BY <1>1, <1>5 DEF IconInv, IdsOK, AnswersOK, Owner
<1>7. BufferIds' /\ HeadOK' /\ LookIcon' /\ ToldOK'
  BY <1>1, <1>2, <1>4 DEF IconInv, BufferIds, HeadOK, LookIcon, ToldOK, Encrypted
<1>8. ASSUME NEW r \in rows'
      PROVE  \/ r \in rows /\ (alone /\ ok => r.req # a.id)
             \/ /\ alone /\ ok /\ r = [req |-> r.req, text |-> r.text, n |-> r.n]
                /\ r.req = a.id /\ r.text = t /\ \E q \in rows : q.req = a.id
  <2>1. CASE ~(alone /\ ok)
    BY <1>1, <2>1
  <2>2. CASE alone /\ ok
    <3>1. PICK q \in rows : r = IF q.req = a.id THEN [q EXCEPT !.text = t] ELSE q
      BY <1>1, <2>2 DEF AddMessageId
    <3>2. q = [req |-> q.req, text |-> q.text, n |-> q.n]
      BY DEF IconInv, RowsOK
    <3> QED
      BY <2>2, <3>1, <3>2
  <2> QED
    BY <2>1, <2>2
<1>9. ASSUME NEW q \in rows
      PROVE  /\ \E r \in rows' : r.req = q.req
             /\ q.req # a.id \/ ~(alone /\ ok) => q \in rows'
             /\ q.req = a.id /\ alone /\ ok => \E r \in rows' : r.text = t
  <2>1. CASE ~(alone /\ ok)
    BY <1>1, <2>1
  <2>2. CASE alone /\ ok
    <3> DEFINE r == IF q.req = a.id THEN [q EXCEPT !.text = t] ELSE q
    <3>1. r \in rows'
      BY <1>1, <2>2 DEF AddMessageId
    <3>2. q = [req |-> q.req, text |-> q.text, n |-> q.n]
      BY DEF IconInv, RowsOK
    <3>3. r.req = q.req /\ (q.req # a.id => r = q) /\ (q.req = a.id => r.text = t)
      BY <3>2
    <3> HIDE DEF r
    <3> QED
      BY <2>2, <3>1, <3>3
  <2> QED
    BY <2>1, <2>2
<1>10. ASSUME NEW s \in Texts
       PROVE  HasRow(s)' <=> HasRow(s)
  <2>1. ASSUME NEW r \in rows'
        PROVE  \E q \in rows : q.req = r.req
    BY <1>8
  <2> QED
    BY <1>5, <1>9, <2>1 DEF HasRow
<1>11. RowsOK'
  <2>1. ASSUME NEW r \in rows'
        PROVE  /\ r = [req |-> r.req, text |-> r.text, n |-> r.n] /\ r.req \in 0 .. clock
               /\ r.text = 0 \/ (r.text \in Texts /\ server[r.text] # <<>>)
               /\ r.text # 0 /\ r.req # 0 => /\ Owner(r.req, r.text)
                                             /\ \A b \in answers : b.id = r.req => b.text = r.text
    <3>1. CASE r \in rows
      BY <3>1 DEF IconInv, RowsOK
    <3>2. CASE r = [req |-> r.req, text |-> r.text, n |-> r.n] /\ r.req = a.id /\ r.text = t
      <4>1. a.id \in 0 .. clock
        BY <1>4
      <4> QED
        BY <1>4, <3>2, <4>1
    <3> QED
      BY <1>8, <3>1, <3>2
  <2> QED
    BY <1>1, <1>5, <2>1 DEF RowsOK, Owner
<1>12. RowIsTrue' /\ RowComes'
  BY <1>1, <1>2, <1>5, <1>10 DEF IconInv, RowIsTrue, RowComes, Known, Encrypted
<1>13. IconIsTrue'
  <2> SUFFICES ASSUME NEW s \in Texts, NEW r \in rows', r.text = s, server[s] # <<>>, ~req[s].forced
               PROVE  Encrypted(s)
    BY <1>1, <1>5 DEF IconIsTrue, Marked, Encrypted
  <2>1. CASE r \in rows
    BY <2>1 DEF IconInv, IconIsTrue, Marked
  <2>2. CASE r.text = t /\ \E q \in rows : q.req = a.id
    <3>1. a.id = req[s].id /\ a.id # 0
      BY <1>4, <2>2 DEF IconInv, IdsOK
    <3>2. HasRow(s)
      BY <2>2, <3>1 DEF HasRow
    <3> QED
      BY <3>1, <3>2 DEF IconInv, RowIsTrue
  <2> QED
    BY <1>8, <2>1, <2>2
<1>14. IconComes'
  <2> SUFFICES ASSUME NEW s \in told', Encrypted(s), ~req'[s].renamed, s \notin unmarked'
               PROVE  \E r \in rows' : r.text = s
    BY <1>1 DEF IconComes, Marked, Encrypted
  <2>0. s \in Texts /\ s \notin unmarked /\ ~req[s].renamed
    BY <1>1, <1>4, <1>5 DEF IconInv, ToldOK
  <2>1. CASE s \in told
    <3>1. PICK r \in rows : r.text = s
      BY <2>0, <2>1 DEF IconInv, IconComes, Marked
    <3>2. CASE r.req # a.id \/ ~(alone /\ ok)
      BY <1>9, <3>1, <3>2
    <3>3. CASE r.req = a.id /\ alone /\ ok
      <4>1. s # 0 /\ a.id # 0
        BY <1>4, <2>0 DEF Texts, IconInv, IdsOK
      <4>2. t = s
        BY <3>1, <3>3, <4>1 DEF IconInv, RowsOK, t
      <4> QED
        BY <1>9, <3>3, <4>2
    <3> QED
      BY <3>2, <3>3
  <2>2. CASE s = t /\ alone
    <3>1. ok
      BY <1>1, <2>2
    <3>2. HasRow(s) /\ a.id = req[s].id
      BY <1>4, <2>0, <2>2 DEF IconInv, RowComes, Known
    <3>3. PICK q \in rows : q.req = a.id
      BY <3>2 DEF HasRow
    <3> QED
      BY <1>9, <2>2, <3>1, <3>3
  <2> QED
    BY <1>1, <2>1, <2>2
<1> QED
  BY <1>6, <1>7, <1>11, <1>12, <1>13, <1>14 DEF IconInv

(* The icon that comes with the decryption: of a text that is encrypted.   *)
LEMMA IconLooked ==
  ASSUME IconInv, SingleInv', NEW select \in BOOLEAN, NEW insert \in BOOLEAN,
         LookSecond(select, insert)
  PROVE  IconInv'
<1> DEFINE t == look.text
           new == [req |-> 0, text |-> t, n |-> Outer(t).n]
<1>1. /\ UNCHANGED <<req, clock, out, server, answers, told, unmarked>>
      /\ look' = NoLookup /\ rows' \in {rows, rows \cup {new}}
  BY DEF LookSecond, sending, world, AddByMessage
<1>2. t \in Texts /\ Encrypted(t)
  BY DEF LookSecond, IconInv, LookIcon
<1>3. new = [req |-> new.req, text |-> new.text, n |-> new.n] /\ new.req = 0 /\ new.text = t
  OBVIOUS
<1> HIDE DEF t, new
<1>4. rows \subseteq rows' /\ \A r \in rows' : r \in rows \/ r = new
  BY <1>1
<1>5. IdsOK' /\ AnswersOK' /\ BufferIds' /\ HeadOK' /\ ToldOK' /\ LookIcon'
  BY <1>1 DEF IconInv, IdsOK, AnswersOK, BufferIds, HeadOK, ToldOK, LookIcon, Owner
<1>6. RowsOK'
  <2>1. server[t] # <<>> /\ 0 \in 0 .. clock
    BY <1>2 DEF Encrypted, IconInv, IdsOK
  <2>2. ASSUME NEW r \in rows'
        PROVE  /\ r = [req |-> r.req, text |-> r.text, n |-> r.n] /\ r.req \in 0 .. clock
               /\ r.text = 0 \/ (r.text \in Texts /\ server[r.text] # <<>>)
               /\ r.text # 0 /\ r.req # 0 => /\ Owner(r.req, r.text)
                                             /\ \A b \in answers : b.id = r.req => b.text = r.text
    <3>1. CASE r \in rows
      BY <3>1 DEF IconInv, RowsOK
    <3>2. CASE r = new
      BY <1>2, <1>3, <2>1, <3>2
    <3> QED
      BY <1>4, <3>1, <3>2
  <2> QED
    BY <1>1, <2>2 DEF RowsOK, Owner
<1>7. ASSUME NEW s \in Texts, req[s].id # 0
      PROVE  HasRow(s)' <=> HasRow(s)
  BY <1>1, <1>3, <1>4, <1>7 DEF HasRow
<1>8. RowIsTrue' /\ RowComes'
  <2>1. \A s \in Texts : HasRow(s) => HasRow(s)'
    BY <1>1, <1>4 DEF HasRow
  <2>2. RowIsTrue'
    BY <1>1, <1>7 DEF IconInv, RowIsTrue, Encrypted
  <2>3. RowComes'
    BY <1>1, <2>1 DEF IconInv, RowComes, BufferIds, Known, Encrypted
  <2> QED
    BY <2>2, <2>3
<1>9. IconIsTrue'
  BY <1>1, <1>2, <1>3, <1>4 DEF IconInv, IconIsTrue, Marked, Encrypted
<1>10. IconComes'
  BY <1>1, <1>4 DEF IconInv, IconComes, Marked, Encrypted
<1> QED
  BY <1>5, <1>6, <1>8, <1>9, <1>10 DEF IconInv

(* The queue holds every text that is queued, once.                        *)
LEMMA QueueOnce ==
  /\ \A i, j \in DOMAIN Queued : Queued[i] = Queued[j] => i = j
  /\ \A t \in In("queued") : \E i \in DOMAIN Queued : Queued[i] = t
<1> DEFINE S == In("queued")
           n == Cardinality(S)
           Below(t) == {s \in S : s < t}
           rank == [t \in S |-> Cardinality(Below(t))]
<1>1. S \subseteq Nat /\ IsFiniteSet(S)
  <2>1. MaxTexts \in Nat /\ S \subseteq Texts
    BY BoundsAssumption DEF In
  <2>2. IsFiniteSet(Texts) /\ Texts \subseteq Nat
    BY <2>1, FS_Interval DEF Texts
  <2> QED
    BY <2>1, <2>2, FS_Subset
<1>2. Queued = [i \in 1 .. n |-> CHOOSE t \in S : Cardinality(Below(t)) = i - 1]
  BY DEF Queued
<1> HIDE DEF S
<1>3. n \in Nat
  BY <1>1, FS_CardinalityType
<1>4. ASSUME NEW u \in S
      PROVE  IsFiniteSet(Below(u)) /\ rank[u] = Cardinality(Below(u)) /\ rank[u] \in 0 .. n - 1
  <2>1. Below(u) \in SUBSET (S \ {u})
    BY <1>1
  <2>2. IsFiniteSet(S \ {u}) /\ Cardinality(S \ {u}) = n - 1
    BY <1>1, FS_RemoveElement
  <2> DEFINE B == Below(u)
  <2>3. rank[u] = Cardinality(B)
    OBVIOUS
  <2> HIDE DEF B
  <2>4. IsFiniteSet(B) /\ Cardinality(B) <= n - 1
    BY <2>1, <2>2, FS_Subset DEF B
  <2>5. Cardinality(B) \in Nat
    BY <2>4, FS_CardinalityType
  <2> HIDE DEF rank
  <2>6. rank[u] \in 0 .. n - 1
    BY <1>3, <2>3, <2>4, <2>5
  <2> QED
    BY <2>3, <2>4, <2>6 DEF B
<1>5. ASSUME NEW u \in S, NEW w \in S, u < w
      PROVE  rank[u] < rank[w]
  <2> DEFINE A == Below(u)
             B == Below(w)
  <2>1. A \cup {u} \in SUBSET B /\ u \notin A
    <3>1. u \in Nat /\ w \in Nat /\ S \subseteq Nat
      BY <1>1
    <3>2. \A v \in Nat : v < u => v < w
      BY <1>5, <3>1
    <3>3. ~(u < u)
      BY <3>1
    <3> QED
      BY <1>5, <3>1, <3>2, <3>3
  <2>2. IsFiniteSet(A) /\ IsFiniteSet(B) /\ rank[u] = Cardinality(A) /\ rank[w] = Cardinality(B)
    BY <1>4
  <2> HIDE DEF A, B, rank
  <2>3. IsFiniteSet(A \cup {u}) /\ Cardinality(A \cup {u}) = Cardinality(A) + 1
    BY <2>1, <2>2, FS_AddElement
  <2>4. Cardinality(A \cup {u}) <= Cardinality(B)
    BY <2>1, <2>2, FS_Subset
  <2>5. Cardinality(A) \in Nat /\ Cardinality(B) \in Nat
    BY <2>2, FS_CardinalityType
  <2> QED
    BY <2>2, <2>3, <2>4, <2>5
<1>6. \A u \in S : rank[u] \in 0 .. n - 1
  BY <1>4
<1>7. \A w \in S : rank[w] = Cardinality(Below(w))
  BY <1>4
<1>8. ASSUME NEW i \in 1 .. n
      PROVE  Queued[i] \in S /\ rank[Queued[i]] = i - 1
  <2>1. i - 1 \in 0 .. n - 1
    BY <1>3
  <2>2. \E t \in S : Cardinality(Below(t)) = i - 1
    BY <1>1, <2>1, RankExists
  <2>3. Queued[i] = CHOOSE t \in S : Cardinality(Below(t)) = i - 1
    BY <1>2
  <2>4. Queued[i] \in S /\ Cardinality(Below(Queued[i])) = i - 1
    <3> HIDE DEF Below
    <3> QED
      BY <2>2, <2>3
  <2> HIDE DEF rank, Below
  <2> QED
    BY <1>7, <2>4
<1> HIDE DEF rank, Below
<1>9. DOMAIN Queued = 1 .. n
  BY <1>2
<1>10. \A i, j \in DOMAIN Queued : Queued[i] = Queued[j] => i = j
  <2>1. TAKE i, j \in DOMAIN Queued
  <2>2. rank[Queued[i]] = i - 1 /\ rank[Queued[j]] = j - 1 /\ i \in Int /\ j \in Int
    BY <1>8, <1>9
  <2> QED
    BY <2>2
<1>11. ASSUME NEW u \in S
       PROVE  \E i \in DOMAIN Queued : Queued[i] = u
  <2> DEFINE i == rank[u] + 1
  <2>1. i \in 1 .. n /\ i - 1 = rank[u]
    <3>1. rank[u] \in 0 .. n - 1
      BY <1>6
    <3> HIDE DEF n
    <3> QED
      BY <1>3, <3>1
  <2> HIDE DEF i
  <2> DEFINE w == Queued[i]
  <2>2. w \in S /\ rank[w] = rank[u]
    BY <1>8, <2>1
  <2> HIDE DEF w
  <2>3. w \in Nat /\ u \in Nat /\ rank[u] \in Int
    BY <1>1, <1>6, <2>2
  <2>4. ~(w < u) /\ ~(u < w)
    BY <1>5, <2>2, <2>3
  <2>5. w = u
    BY <2>3, <2>4
  <2> QED
    BY <1>9, <2>1, <2>5 DEF w
<1> QED
  BY <1>10, <1>11 DEF S

(* What the buffer is packed from: a ping, and the requests of the queue
   under the ids they are sent with.                                       *)
LEMMA PackedIs ==
  ASSUME NEW ping \in BOOLEAN, NEW renew \in BOOLEAN
  PROVE  /\ \A k \in DOMAIN Packed(ping, renew) :
              \/ Packed(ping, renew)[k] = PingFirst
              \/ \E i \in DOMAIN Queued :
                   /\ Packed(ping, renew)[k] =
                        [text |-> Queued[i], id |-> IdToSend(Queued[i], i, renew),
                         body |-> req[Queued[i]].body]
                   /\ k = i + (IF ping THEN 1 ELSE 0)
         /\ Len(Queued) = 1 /\ ~ping => DOMAIN Packed(ping, renew) = {1}
<1> DEFINE item(i) == [text |-> Queued[i], id |-> IdToSend(Queued[i], i, renew),
                       body |-> req[Queued[i]].body]
           copies == [i \in DOMAIN Queued |-> item(i)]
           front == IF ping THEN <<PingFirst>> ELSE <<>>
<1>1. PICK n \in Nat : DOMAIN Queued = 1 .. n
  BY QueueHolds
<1>2. Packed(ping, renew) = front \o copies
  BY DEF Packed
<1> DEFINE S == {item(i) : i \in DOMAIN Queued} \cup {PingFirst}
<1>3. copies \in Seq(S) /\ Len(copies) = n /\ DOMAIN copies = 1 .. n
  <2>1. \A i \in DOMAIN Queued : item(i) \in S
    OBVIOUS
  <2> HIDE DEF S, item
  <2> QED
    BY <1>1, <2>1
<1>4. front \in Seq(S) /\ Len(front) = IF ping THEN 1 ELSE 0
  <2>1. PingFirst \in S
    OBVIOUS
  <2> HIDE DEF S
  <2> QED
    BY <2>1
<1>5. \A i \in 1 .. n : copies[i] = item(i)
  BY <1>1
<1>6. ping => front[1] = PingFirst
  OBVIOUS
<1> HIDE DEF S, copies, front, item
<1>7. /\ DOMAIN (front \o copies) = 1 .. Len(front) + n
      /\ \A k \in 1 .. Len(front) + n :
           (front \o copies)[k] = IF k <= Len(front) THEN front[k] ELSE copies[k - Len(front)]
  <2>1. front \in Seq(S) /\ copies \in Seq(S)
    BY <1>3, <1>4
  <2>2. Len(front \o copies) = Len(front) + Len(copies) /\ front \o copies \in Seq(S)
    BY ONLY <2>1
  <2>3. \A k \in 1 .. Len(front) + Len(copies) :
          (front \o copies)[k] = IF k <= Len(front) THEN front[k] ELSE copies[k - Len(front)]
    BY ONLY <2>1
  <2>4. DOMAIN (front \o copies) = 1 .. Len(front \o copies)
    BY ONLY <2>2
  <2> QED
    BY ONLY <1>3, <2>2, <2>3, <2>4
<1>8. ASSUME NEW k \in DOMAIN (front \o copies)
      PROVE  \/ (front \o copies)[k] = PingFirst
             \/ \E i \in 1 .. n : (front \o copies)[k] = item(i) /\ k = i + Len(front)
  <2>1. CASE k <= Len(front)
    <3>1. k = 1 /\ ping
      BY <1>4, <1>7, <2>1
    <3> QED
      BY <1>6, <1>7, <2>1, <3>1
  <2>2. CASE ~(k <= Len(front))
    <3>1. k - Len(front) \in 1 .. n /\ k = k - Len(front) + Len(front)
      BY <1>1, <1>4, <1>7, <2>2
    <3> QED
      BY <1>5, <1>7, <2>2, <3>1
  <2> QED
    BY <2>1, <2>2
<1>9. Len(Queued) = 1 /\ ~ping => n = 1
  <2>1. Queued \in Seq({Queued[i] : i \in 1 .. n})
    <3>1. Queued = [i \in 1 .. n |-> Queued[i]]
      <4> DEFINE e(i) == CHOOSE t \in In("queued") : Cardinality({s \in In("queued") : s < t}) = i - 1
      <4>1. Queued = [i \in 1 .. Cardinality(In("queued")) |-> e(i)]
        BY DEF Queued
      <4> HIDE DEF e
      <4> QED
        BY <1>1, <4>1
    <3> DEFINE T == {Queued[i] : i \in 1 .. n}
    <3>2. \A i \in 1 .. n : Queued[i] \in T
      OBVIOUS
    <3> HIDE DEF T
    <3>3. [i \in 1 .. n |-> Queued[i]] \in Seq(T)
      BY <3>2
    <3> QED
      BY <3>1, <3>3 DEF T
  <2>2. DOMAIN Queued = 1 .. Len(Queued)
    BY <2>1
  <2>3. ASSUME Len(Queued) = 1
        PROVE  n = 1
    <3>1. 1 .. n = 1 .. 1
      BY <1>1, <2>2, <2>3
    <3>2. n \in 1 .. n \/ n = 0
      OBVIOUS
    <3> QED
      BY <3>1, <3>2
  <2> QED
    BY <2>3
<1>10. Len(Queued) = 1 /\ ~ping => DOMAIN (front \o copies) = {1}
  BY <1>4, <1>7, <1>9
<1> DEFINE packed == front \o copies
<1>11. ASSUME NEW k \in DOMAIN packed
       PROVE  \/ packed[k] = PingFirst
              \/ \E i \in DOMAIN Queued : packed[k] = item(i) /\ k = i + (IF ping THEN 1 ELSE 0)
  <2>1. \/ packed[k] = PingFirst
        \/ \E i \in 1 .. n : packed[k] = item(i) /\ k = i + Len(front)
    BY <1>8
  <2> HIDE DEF packed
  <2> QED
    BY <1>1, <1>4, <2>1
<1>12. Packed(ping, renew) = packed /\ (Len(Queued) = 1 /\ ~ping => DOMAIN packed = {1})
  BY <1>2, <1>10
<1> HIDE DEF packed
<1>13. /\ \A k \in DOMAIN packed :
            \/ packed[k] = PingFirst
            \/ \E i \in DOMAIN Queued : packed[k] = item(i) /\ k = i + (IF ping THEN 1 ELSE 0)
       /\ Len(Queued) = 1 /\ ~ping => DOMAIN packed = {1}
  BY <1>11, <1>12
<1> QED
  BY <1>12, <1>13, Zenon DEF item

(* What tryToSend makes of a request: one that is queued gets a new id, above
   all that were given, or keeps the one it has.                           *)
LEMMA PackedRequests ==
  ASSUME IconInv, NEW ping \in BOOLEAN, NEW copied \in BOOLEAN, NEW renew \in BOOLEAN,
         TryToSend(ping, copied, renew), NEW t \in Texts
  PROVE  /\ req'[t].body = req[t].body /\ req'[t].forced = req[t].forced
         /\ req[t].place # "queued" => req'[t] = req[t]
         /\ \A i \in DOMAIN Queued : Queued[i] = t =>
              /\ req'[t].place = "sent" /\ req'[t].id = IdToSend(t, i, renew)
              /\ req'[t].renamed = (req[t].renamed \/ (req[t].id # 0 /\ renew))
<1> DEFINE i == CHOOSE j \in DOMAIN Queued : Queued[j] = t
           new(s, j) == [req[s] EXCEPT !.place = "sent", !.id = IdToSend(s, j, renew),
                                       !.renamed = @ \/ (req[s].id # 0 /\ renew)]
<1>1. req'[t] = IF req[t].place # "queued" THEN req[t] ELSE new(t, i)
  <2>1. req' = [s \in Texts |->
          IF req[s].place # "queued" THEN req[s]
          ELSE LET j == CHOOSE j \in DOMAIN Queued : Queued[j] = s
               IN [req[s] EXCEPT !.place = "sent", !.id = IdToSend(s, j, renew),
                                 !.renamed = @ \/ (req[s].id # 0 /\ renew)]]
    BY Zenon DEF TryToSend
  <2> QED
    BY <2>1, Zenon
<1>2. IsRequest(req[t])
  BY DEF IconInv, SingleInv, RequestsOK
<1> HIDE DEF i
<1>3. /\ new(t, i).body = req[t].body /\ new(t, i).forced = req[t].forced
      /\ new(t, i).place = "sent" /\ new(t, i).id = IdToSend(t, i, renew)
      /\ new(t, i).renamed = (req[t].renamed \/ (req[t].id # 0 /\ renew))
  <2> DEFINE id == IdToSend(t, i, renew)
             r == req[t].renamed \/ (req[t].id # 0 /\ renew)
  <2>1. new(t, i) = [req[t] EXCEPT !.place = "sent", !.id = id, !.renamed = r]
    OBVIOUS
  <2> HIDE DEF id, r, new
  <2>2. /\ new(t, i).body = req[t].body /\ new(t, i).forced = req[t].forced
        /\ new(t, i).place = "sent" /\ new(t, i).id = id /\ new(t, i).renamed = r
    BY <1>2, <2>1 DEF IsRequest
  <2> QED
    BY <2>2 DEF id, r
<1> HIDE DEF new
<1>4. \A j \in DOMAIN Queued : Queued[j] = t => i = j
  BY QueueOnce DEF i
<1>5. \A j \in DOMAIN Queued : Queued[j] = t => req[t].place = "queued"
  BY QueueHolds DEF In
<1> QED
  BY <1>1, <1>3, <1>4, <1>5

LEMMA IconPacked ==
  ASSUME IconInv, SingleInv', NEW ping \in BOOLEAN, NEW copied \in BOOLEAN, NEW renew \in BOOLEAN,
         TryToSend(ping, copied, renew)
  PROVE  IconInv'
<1>1. /\ UNCHANGED <<rows, server, answers, told, look, unmarked>>
      /\ out = NoBuffer /\ look = NoLookup /\ clock' = clock + Len(Queued)
      /\ renew => \E t \in In("queued") : req[t].id # 0
  BY DEF TryToSend, Idle, world, faults
<1>2. /\ out'.items = Packed(ping, renew) /\ out'.at = 1 /\ out'.grown = {}
      /\ out'.inPlace => Alone(ping)
  <2> DEFINE alone == Alone(ping) /\ ~copied
  <2>1. PICK g : out' = [items |-> Packed(ping, renew), at |-> 1,
             inPlace |-> alone, grown |-> {},
             left |-> "no", excused |-> FALSE, changed |-> FALSE, promised |-> g]
    BY Zenon DEF TryToSend
  <2>2. alone => Alone(ping)
    OBVIOUS
  <2> HIDE DEF alone
  <2>3. /\ out'.items = Packed(ping, renew) /\ out'.at = 1 /\ out'.grown = {}
        /\ out'.inPlace = alone
    BY <2>1
  <2> QED
    BY <2>2, <2>3, Zenon
<1>3. PICK n \in Nat : DOMAIN Queued = 1 .. n /\ Len(Queued) = n
  <2>1. PICK n \in Nat : DOMAIN Queued = 1 .. n
    BY QueueHolds
  <2>2. Queued \in Seq({Queued[i] : i \in 1 .. n})
    <3>1. Queued = [i \in 1 .. n |-> Queued[i]]
      <4> DEFINE e(i) == CHOOSE t \in In("queued") : Cardinality({s \in In("queued") : s < t}) = i - 1
      <4>1. Queued = [i \in 1 .. Cardinality(In("queued")) |-> e(i)]
        BY DEF Queued
      <4> HIDE DEF e
      <4> QED
        BY <2>1, <4>1
    <3> DEFINE T == {Queued[i] : i \in 1 .. n}
    <3>2. \A i \in 1 .. n : Queued[i] \in T
      OBVIOUS
    <3> HIDE DEF T
    <3>3. [i \in 1 .. n |-> Queued[i]] \in Seq(T)
      BY <3>2
    <3> QED
      BY <3>1, <3>3 DEF T
  <2>3. Len(Queued) \in Nat /\ 1 .. Len(Queued) = 1 .. n
    BY <2>1, <2>2
  <2>4. Len(Queued) = n
    <3> DEFINE m == Len(Queued)
    <3>1. m \in Nat /\ 1 .. m = 1 .. n
      BY <2>3
    <3> HIDE DEF m
    <3>2. (m = 0 \/ m \in 1 .. m) /\ (n = 0 \/ n \in 1 .. n)
      BY <3>1
    <3>3. m = n
      BY <3>1, <3>2
    <3> QED
      BY <3>3 DEF m
  <2> QED
    BY <2>1, <2>4
<1>4. clock \in Nat /\ clock' = clock + n /\ clock' \in Nat
  BY <1>1, <1>3 DEF IconInv, IdsOK
(* Of a text in the queue.                                                 *)
<1>5. ASSUME NEW i \in DOMAIN Queued
      PROVE  /\ Queued[i] \in Texts /\ req[Queued[i]].place = "queued" /\ Queued[i] # Service
             /\ req'[Queued[i]].place = "sent"
             /\ req'[Queued[i]].id = IdToSend(Queued[i], i, renew)
             /\ req'[Queued[i]].renamed = (req[Queued[i]].renamed \/ (req[Queued[i]].id # 0 /\ renew))
             /\ req[Queued[i]].forced \/ req[Queued[i]].id = 0
             /\ req'[Queued[i]].id \in {req[Queued[i]].id, clock + i}
             /\ req'[Queued[i]].id \in 1 .. clock'
  <2>1. Queued[i] \in Texts /\ req[Queued[i]].place = "queued" /\ Queued[i] # Service
    BY QueueHolds DEF In, Texts, Service
  <2>2. /\ req'[Queued[i]].place = "sent"
        /\ req'[Queued[i]].id = IdToSend(Queued[i], i, renew)
        /\ req'[Queued[i]].renamed = (req[Queued[i]].renamed \/ (req[Queued[i]].id # 0 /\ renew))
    BY <2>1, PackedRequests
  <2>3. (req[Queued[i]].forced \/ req[Queued[i]].id = 0) /\ req[Queued[i]].id \in 0 .. clock
    BY <2>1 DEF IconInv, IdsOK
  <2>4. \/ req'[Queued[i]].id = clock + i
        \/ req'[Queued[i]].id = req[Queued[i]].id /\ req[Queued[i]].id # 0
    BY <2>2 DEF IdToSend
  <2> QED
    BY <1>3, <1>4, <2>1, <2>2, <2>3, <2>4
(* Of any text.                                                            *)
<1>6. ASSUME NEW t \in Texts
      PROVE  /\ req'[t].body = req[t].body /\ req'[t].forced = req[t].forced
             /\ \/ req'[t] = req[t] /\ req[t].place # "queued"
                \/ \E i \in DOMAIN Queued : Queued[i] = t /\ req[t].place = "queued"
             /\ req'[t].id \in 0 .. clock' /\ req[t].id \in 0 .. clock
             /\ req'[t].id # req[t].id => req'[t].id > clock
             /\ req[t].renamed => req'[t].renamed
             /\ req[t].id # 0 /\ ~req'[t].renamed => req'[t].id = req[t].id
             /\ req[t].id # 0 => req'[t].id # 0
  <2>1. req'[t].body = req[t].body /\ req'[t].forced = req[t].forced
    BY PackedRequests
  <2>2. req[t].id \in 0 .. clock
    BY DEF IconInv, IdsOK
  <2>3. CASE req[t].place # "queued"
    <3>1. req'[t] = req[t]
      BY <2>3, PackedRequests
    <3> QED
      BY <1>3, <1>4, <2>1, <2>2, <2>3, <3>1
  <2>4. CASE req[t].place = "queued"
    <3>1. PICK i \in DOMAIN Queued : Queued[i] = t
      BY <2>4, QueueOnce DEF In
    <3>2. /\ req'[t].id = IdToSend(t, i, renew)
          /\ req'[t].renamed = (req[t].renamed \/ (req[t].id # 0 /\ renew))
          /\ req'[t].id \in {req[t].id, clock + i} /\ req'[t].id \in 1 .. clock'
      BY <1>5, <3>1
    <3>3. req[t].id # 0 /\ ~req'[t].renamed => req'[t].id = req[t].id
      BY <3>2 DEF IdToSend
    <3>4. req'[t].id \in 0 .. clock' /\ (req'[t].id # req[t].id => req'[t].id > clock)
          /\ req'[t].id # 0
      BY <1>3, <1>4, <3>2
    <3> QED
      BY <2>1, <2>2, <2>4, <3>1, <3>2, <3>3, <3>4
  <2> QED
    BY <2>3, <2>4
(* A new id is that of no other text, and an old one of whom it was of.     *)
<1>7. ASSUME NEW t \in Texts, NEW u \in Texts, req'[u].id = req'[t].id, req'[t].id # 0
      PROVE  u = t
  <2>1. CASE req'[t].id <= clock
    <3>1. req'[t].id = req[t].id /\ req'[u].id = req[u].id
      BY <1>4, <1>6, <1>7, <2>1
    <3> QED
      BY <1>7, <3>1 DEF IconInv, IdsOK, Owner
  <2>2. CASE ~(req'[t].id <= clock)
    <3>1. req'[t] # req[t] /\ req'[u] # req[u]
      BY <1>4, <1>6, <1>7, <2>2
    <3>2. PICK i \in DOMAIN Queued : Queued[i] = t
      BY <1>6, <3>1
    <3>3. PICK j \in DOMAIN Queued : Queued[j] = u
      BY <1>6, <3>1
    <3>4. req'[t].id = clock + i /\ req'[u].id = clock + j
      <4>1. req'[t].id \in {req[t].id, clock + i} /\ req'[u].id \in {req[u].id, clock + j}
        BY <1>5, <3>2, <3>3
      <4>2. req[t].id <= clock /\ req[u].id <= clock /\ req[t].id \in Int /\ req[u].id \in Int
        BY <1>4, <1>6
      <4> QED
        BY <1>4, <1>7, <2>2, <4>1, <4>2
    <3>5. i = j
      BY <1>3, <1>4, <1>7, <3>4
    <3> QED
      BY <3>2, <3>3, <3>5
  <2> QED
    BY <2>1, <2>2
<1>8. ASSUME NEW id \in 1 .. clock, NEW t \in Texts, Owner(id, t)
      PROVE  Owner(id, t)'
  <2>1. ASSUME NEW u \in Texts, req'[u].id = id
        PROVE  u = t
    <3>1. req[u].id = id
      BY <1>4, <1>6, <2>1
    <3> QED
      BY <1>8, <3>1 DEF Owner
  <2> QED
    BY <2>1 DEF Owner
<1>9. IdsOK'
  <2>1. ASSUME NEW t \in Texts
        PROVE  /\ req'[t].place = "sent" => req'[t].id # 0
               /\ req'[t].place \in {"none", "queued"} => req'[t].forced \/ req'[t].id = 0
               /\ req'[t].renamed => req'[t].forced
               /\ server[t] # <<>> => req'[t].id # 0
    <3>0. /\ req[t].place = "sent" => req[t].id # 0
          /\ req[t].place \in {"none", "queued"} => req[t].forced \/ req[t].id = 0
          /\ req[t].renamed => req[t].forced
          /\ server[t] # <<>> => req[t].id # 0
      BY DEF IconInv, IdsOK
    <3>1. CASE req'[t] = req[t]
      BY <3>0, <3>1
    <3>2. ASSUME NEW i \in DOMAIN Queued, Queued[i] = t
          PROVE  /\ req'[t].place = "sent" /\ req'[t].id # 0
                 /\ req'[t].renamed => req'[t].forced
      <4>1. /\ req'[t].place = "sent" /\ req'[t].id \in 1 .. clock'
            /\ req'[t].renamed = (req[t].renamed \/ (req[t].id # 0 /\ renew))
            /\ req[t].forced \/ req[t].id = 0
        BY <1>5, <3>2
      <4>2. req'[t].forced = req[t].forced
        BY <1>6
      <4>3. req'[t].renamed => req'[t].forced
        BY <3>0, <4>1, <4>2, Zenon
      <4>4. req'[t].id # 0
        BY <1>4, <4>1
      <4> QED
        BY <4>1, <4>3, <4>4
    <3> QED
      BY <1>6, <3>1, <3>2
  <2> QED
    BY <1>1, <1>4, <1>6, <1>7, <2>1 DEF IdsOK, Owner
<1>10. AnswersOK'
  <2>1. ASSUME NEW a \in answers
        PROVE  /\ a.text \in Texts /\ a.id \in 1 .. clock' /\ Owner(a.id, a.text)'
               /\ server[a.text] # <<>>
               /\ ~req'[a.text].renamed => a.id = req'[a.text].id
               /\ \A b \in answers : a.id = b.id => a.text = b.text
    <3>1. /\ a.text \in Texts /\ a.id \in 1 .. clock /\ Owner(a.id, a.text)
          /\ server[a.text] # <<>>
          /\ ~req[a.text].renamed => a.id = req[a.text].id
          /\ \A b \in answers : a.id = b.id => a.text = b.text
      BY DEF IconInv, AnswersOK
    <3>2. Owner(a.id, a.text)'
      BY <1>8, <3>1
    <3>3. a.id \in 1 .. clock'
      BY <1>3, <1>4, <3>1
    <3>4. ~req'[a.text].renamed => a.id = req'[a.text].id
      <4>1. a.id # 0
        BY <3>1
      <4> QED
        BY <1>6, <3>1, <4>1
    <3> QED
      BY <3>1, <3>2, <3>3, <3>4
  <2> QED
    BY <1>1, <2>1 DEF AnswersOK
<1>11. RowsOK'
  <2>1. ASSUME NEW r \in rows
        PROVE  /\ r = [req |-> r.req, text |-> r.text, n |-> r.n] /\ r.req \in 0 .. clock'
               /\ r.text = 0 \/ (r.text \in Texts /\ server[r.text] # <<>>)
               /\ r.text # 0 /\ r.req # 0 => /\ Owner(r.req, r.text)'
                                             /\ \A b \in answers : b.id = r.req => b.text = r.text
    <3>1. /\ r = [req |-> r.req, text |-> r.text, n |-> r.n] /\ r.req \in 0 .. clock
          /\ r.text = 0 \/ (r.text \in Texts /\ server[r.text] # <<>>)
          /\ r.text # 0 /\ r.req # 0 => /\ Owner(r.req, r.text)
                                        /\ \A b \in answers : b.id = r.req => b.text = r.text
      BY DEF IconInv, RowsOK
    <3>2. r.req \in 0 .. clock' /\ (r.req # 0 => r.req \in 1 .. clock)
      BY <1>3, <1>4, <3>1
    <3>3. r.text # 0 /\ r.req # 0 => Owner(r.req, r.text)'
      BY <1>8, <3>1, <3>2
    <3> QED
      BY <3>1, <3>2, <3>3
  <2> QED
    BY <1>1, <2>1 DEF RowsOK
(* Of what is in the buffer.                                               *)
<1> DEFINE items == Packed(ping, renew)
<1>12. /\ \A k \in DOMAIN items :
             \/ items[k].text = Service /\ items[k].id = 0 /\ items[k].body = Plain
             \/ \E i \in DOMAIN Queued :
                  /\ items[k].text = Queued[i] /\ items[k].body = req[Queued[i]].body
                  /\ items[k].id = IdToSend(Queued[i], i, renew)
                  /\ k = i + (IF ping THEN 1 ELSE 0)
       /\ Alone(ping) => DOMAIN items = {1}
  <2>1. PingFirst.text = Service /\ PingFirst.id = 0 /\ PingFirst.body = Plain
    BY DEF PingFirst
  <2>2. Len(Queued) = 1 /\ ~ping => DOMAIN items = {1}
    BY PackedIs
  <2>3. \A k \in DOMAIN items :
             \/ items[k] = PingFirst
             \/ \E i \in DOMAIN Queued :
                  /\ items[k] = [text |-> Queued[i], id |-> IdToSend(Queued[i], i, renew),
                                 body |-> req[Queued[i]].body]
                  /\ k = i + (IF ping THEN 1 ELSE 0)
    BY PackedIs
  <2> HIDE DEF items
  <2> QED
    BY <2>1, <2>2, <2>3 DEF Alone
<1> HIDE DEF items
<1>13. ASSUME NEW k \in DOMAIN items, items[k].text # Service
       PROVE  /\ items[k].text \in Texts /\ req[items[k].text].place = "queued"
              /\ items[k].id = req'[items[k].text].id /\ items[k].id # 0
              /\ items[k].body = req[items[k].text].body
              /\ req'[items[k].text].forced \/ server[items[k].text] = <<>>
              /\ \A j \in DOMAIN items : items[j].text = items[k].text => j = k
  <2>1. PICK i \in DOMAIN Queued :
           /\ items[k].text = Queued[i] /\ items[k].body = req[Queued[i]].body
           /\ items[k].id = IdToSend(Queued[i], i, renew)
           /\ k = i + (IF ping THEN 1 ELSE 0)
    BY <1>12, <1>13
  <2>2. /\ Queued[i] \in Texts /\ req[Queued[i]].place = "queued"
        /\ req'[Queued[i]].id = IdToSend(Queued[i], i, renew)
        /\ req[Queued[i]].forced \/ req[Queued[i]].id = 0
        /\ req'[Queued[i]].id \in 1 .. clock'
    BY <1>5
  <2>3. req'[Queued[i]].id # 0 /\ req'[Queued[i]].forced = req[Queued[i]].forced
    BY <1>6, <2>2
  <2>4. req[Queued[i]].forced \/ server[Queued[i]] = <<>>
    BY <2>2 DEF IconInv, IdsOK
  <2>5. ASSUME NEW j \in DOMAIN items, items[j].text = items[k].text
        PROVE  j = k
    <3>1. PICK l \in DOMAIN Queued :
             items[j].text = Queued[l] /\ j = l + (IF ping THEN 1 ELSE 0)
      BY <1>12, <1>13, <2>5
    <3>2. l = i
      BY <2>1, <2>5, <3>1, QueueOnce
    <3> QED
      BY <2>1, <3>1, <3>2
  <2> QED
    BY <2>1, <2>2, <2>3, <2>4, <2>5
<1>14. BufferIds' /\ HeadOK'
  <2>1. out'.inPlace => DOMAIN items = {1}
    BY <1>2, <1>12
  <2>2. \A k \in DOMAIN items : items[k].text = Service => items[k].id = 0
    <3>1. TAKE k \in DOMAIN items
    <3>2. HAVE items[k].text = Service
    <3>3. \A i \in DOMAIN Queued : Queued[i] # Service
      BY <1>5
    <3> QED
      BY <1>12, <3>2, <3>3
  <2>3. out'.items = items
    BY <1>2 DEF items
  <2> QED
    BY <1>1, <1>2, <1>13, <2>1, <2>2, <2>3 DEF BufferIds, HeadOK
<1>15. ASSUME NEW t \in Texts
       PROVE  /\ req[t].id # 0 /\ ~req'[t].renamed => HasRow(t)' = HasRow(t)
              /\ ~req[t].forced /\ req'[t].id # 0 /\ HasRow(t)' =>
                   req[t].place # "queued" /\ req[t].id # 0 /\ HasRow(t)
  <2>1. req'[t].id = req[t].id => HasRow(t)' = HasRow(t)
    BY <1>1 DEF HasRow
  <2>2. ASSUME req'[t].id # req[t].id
        PROVE  ~HasRow(t)'
    <3>1. \A r \in rows : r.req \in 0 .. clock
      BY DEF IconInv, RowsOK
    <3>2. req'[t].id > clock /\ req'[t].id \in 0 .. clock'
      BY <1>6, <2>2
    <3>3. \A r \in rows : r.req # req'[t].id
      BY <1>4, <3>1, <3>2
    <3> QED
      BY <1>1, <3>3 DEF HasRow
  <2>3. ASSUME ~req[t].forced, req'[t].id # 0, HasRow(t)'
        PROVE  req[t].place # "queued" /\ req[t].id # 0
    <3>1. req'[t].id = req[t].id
      BY <2>2, <2>3
    <3>2. req[t].place \in {"none", "queued"} => req[t].forced \/ req[t].id = 0
      BY DEF IconInv, IdsOK
    <3> QED
      BY <2>3, <3>1, <3>2
  <2> QED
    BY <1>6, <2>1, <2>2, <2>3
<1>16. RowIsTrue'
  <2>1. ASSUME NEW t \in Texts, req'[t].id # 0, HasRow(t)', ~req'[t].forced
        PROVE  /\ server[t] # <<>> => Encrypted(t)
               /\ \A k \in DOMAIN items : items[k].text # t
    <3>1. ~req[t].forced /\ req[t].place # "queued" /\ req[t].id # 0 /\ HasRow(t)
      BY <1>6, <1>15, <2>1
    <3>2. t # Service
      BY DEF Texts, Service
    <3>3. \A k \in DOMAIN items : items[k].text # t
      BY <1>13, <3>1, <3>2
    <3> QED
      BY <3>1, <3>3 DEF IconInv, RowIsTrue
  <2>2. out'.items = items
    BY <1>2 DEF items
  <2> QED
    BY <1>1, <2>1, <2>2 DEF RowIsTrue, Encrypted
<1>17. RowComes'
  <2>1. ASSUME NEW t \in Texts, req[t].body # Plain \/ Encrypted(t), ~req'[t].renamed,
               t \notin unmarked
        PROVE  req'[t].id # 0 /\ \E r \in rows : r.req = req'[t].id
    <3>1. ~req[t].renamed
      BY <1>6, <2>1
    <3>2. req[t].id # 0 /\ HasRow(t)
      BY <2>1, <3>1 DEF IconInv, RowComes, Known
    <3>3. req'[t].id = req[t].id
      BY <1>6, <2>1, <3>2
    <3> QED
      BY <3>2, <3>3 DEF HasRow
  <2>2. ASSUME NEW t \in Texts, req'[t].body # Plain \/ Encrypted(t), ~req'[t].renamed,
               t \notin unmarked
        PROVE  req'[t].id # 0 /\ \E r \in rows : r.req = req'[t].id
    BY <1>6, <2>1, <2>2
  <2>3. out'.items = items
    BY <1>2 DEF items
  <2>4. ASSUME NEW k \in DOMAIN items, items[k].text # Service, items[k].body # Plain,
               ~req'[items[k].text].renamed, items[k].text \notin unmarked
        PROVE  \E r \in rows : r.req = req'[items[k].text].id
    BY <1>13, <2>1, <2>4
  <2> QED
    BY <1>1, <2>2, <2>3, <2>4 DEF RowComes, Known, Encrypted, HasRow
<1>18. ToldOK' /\ LookIcon' /\ IconIsTrue' /\ IconComes'
  BY <1>1, <1>6 DEF IconInv, ToldOK, LookIcon, IconIsTrue, IconComes, Encrypted, Marked
<1> QED
  BY <1>9, <1>10, <1>11, <1>14, <1>16, <1>17, <1>18 DEF IconInv

(* encrypt_the_message writes its row under the id at a fixed place, that of
   the first message of the buffer: it is the first text's, who has been
   encrypted by then, or a ping's.                                         *)
LEMMA IconEncrypted ==
  ASSUME IconInv, SingleInv', NEW select \in BOOLEAN, NEW insert \in BOOLEAN,
         ReadNumber(select, insert)
  PROVE  IconInv'
<1>0. /\ IsBuffer(out) /\ req = [t \in Texts |-> req[t]] /\ \A t \in Texts : IsRequest(req[t])
      /\ \A k \in DOMAIN out.items : IsItem(out.items[k])
  BY DEF IconInv, SingleInv, BufferOK, ItemsOK, RequestsOK
<1>1. /\ UNCHANGED <<clock, server, answers, told, look>> /\ key # <<>>
  BY DEF ReadNumber, world
<1>2. CASE ReturnUnchanged(select) /\ UNCHANGED <<req, rows, unmarked>>
  <2>1. \E e : out' = [out EXCEPT !.left = "return", !.excused = e]
    BY <1>2, Zenon DEF ReturnUnchanged
  <2>2. /\ out'.items = out.items /\ out'.at = out.at /\ out'.inPlace = out.inPlace
        /\ out'.grown = out.grown
    BY <1>0, <2>1 DEF IsBuffer
  <2>3. LookIcon'
    BY <1>1 DEF IconInv, LookIcon, Encrypted
  <2> QED
    BY <1>1, <1>2, <2>2, <2>3, IconQuiet
<1>3. CASE ~(ReturnUnchanged(select) /\ UNCHANGED <<req, rows, unmarked>>)
  <2> DEFINE i == Min(Pending)
             t == Current.text
  <2>1. PICK n :
          /\ \E next \in i + 1 .. Len(out.items) + 1 :
               out' = [out EXCEPT !.items[i].body = Encrypt(Current.body, n, key[1]),
                                  !.at = next, !.grown = @ \cup {i}]
          /\ req' = IF out.inPlace THEN [req EXCEPT ![t].body = Encrypt(Current.body, n, key[1])]
                    ELSE req
          /\ rows' = IF insert THEN AddByRequest(out.items, n) ELSE rows
          /\ unmarked' = IF insert THEN unmarked ELSE unmarked \cup {t}
    BY <1>3, Zenon DEF ReadNumber
  <2> DEFINE body == Encrypt(Current.body, n, key[1])
             new == [req |-> RequestId(out.items), text |-> 0, n |-> n]
  <2>2. body # Plain
    <3>1. Current.body = Plain
      BY <1>1 DEF IconInv, SingleInv, KeyOK
    <3> DEFINE layer == [n |-> n, key |-> key[1], changed |-> out.changed]
    <3>2. body = <<layer>> \o <<>>
      BY <3>1 DEF Encrypt, Plain
    <3> HIDE DEF layer
    <3>3. <<layer>> \o <<>> # <<>>
      OBVIOUS
    <3> QED
      BY <3>2, <3>3 DEF Plain
  <2>3. /\ i \in Pending /\ \A j \in Pending : i <= j
        /\ i \in DOMAIN out.items /\ t = out.items[i].text /\ t # Service
        /\ i \in Nat /\ 1 \in DOMAIN out.items /\ i >= 1
    <3>1. PICK S : out.items \in Seq(S)
      BY DEF IconInv, SingleInv, BufferOK, ItemsOK
    <3>2. Pending \in SUBSET Nat
      BY <3>1 DEF Pending
    <3>3. Pending # {}
      BY <1>1 DEF IconInv, SingleInv, KeyOK
    <3>4. i \in Pending /\ \A j \in Pending : i <= j
      BY <3>2, <3>3, LeastBelow
    <3>5. i \in DOMAIN out.items /\ t = out.items[i].text /\ t # Service
      BY <3>4 DEF Pending, Current
    <3>6. DOMAIN out.items = 1 .. Len(out.items) /\ Len(out.items) \in Nat
      BY <3>1
    <3> HIDE DEF i
    <3> QED
      BY <3>4, <3>5, <3>6
  <2> HIDE DEF body
  <2>4. PICK next \in i + 1 .. Len(out.items) + 1 :
          out' = [out EXCEPT !.items[i].body = body, !.at = next, !.grown = @ \cup {i}]
    BY <2>1 DEF body
  <2>5. /\ req' = IF out.inPlace THEN [req EXCEPT ![t].body = body] ELSE req
        /\ rows' = IF insert THEN rows \cup {new} ELSE rows
        /\ unmarked' = IF insert THEN unmarked ELSE unmarked \cup {t}
    BY <2>1 DEF body, AddByRequest
  <2> HIDE DEF i, t
  <2>6. /\ out'.items = [out.items EXCEPT ![i].body = body] /\ out'.at = next
        /\ out'.inPlace = out.inPlace /\ out'.grown = out.grown \cup {i}
    BY <1>0, <2>4 DEF IsBuffer
  <2>7. /\ DOMAIN out'.items = DOMAIN out.items
        /\ \A j \in DOMAIN out.items :
             /\ out'.items[j].text = out.items[j].text /\ out'.items[j].id = out.items[j].id
             /\ j # i => out'.items[j] = out.items[j]
             /\ j = i => out'.items[j].body = body
    <3>1. DOMAIN out'.items = DOMAIN out.items
      BY <2>6
    <3>2. ASSUME NEW j \in DOMAIN out.items
          PROVE  /\ out'.items[j].text = out.items[j].text /\ out'.items[j].id = out.items[j].id
                 /\ j # i => out'.items[j] = out.items[j]
                 /\ j = i => out'.items[j].body = body
      <4>1. CASE j # i
        BY <2>6, <4>1
      <4>2. CASE j = i
        <5> DEFINE e == out.items[j]
        <5>1. out'.items[j] = [e EXCEPT !.body = body] /\ IsItem(e)
          BY <1>0, <2>6, <4>2
        <5> HIDE DEF e
        <5>2. out'.items[j].text = e.text /\ out'.items[j].id = e.id /\ out'.items[j].body = body
          BY <5>1 DEF IsItem
        <5> QED
          BY <4>2, <5>2 DEF e
      <4> QED
        BY <4>1, <4>2
    <3> QED
      BY <3>1, <3>2
  <2>8. ASSUME NEW s \in Texts
        PROVE  /\ req'[s].id = req[s].id /\ req'[s].place = req[s].place
               /\ req'[s].forced = req[s].forced /\ req'[s].renamed = req[s].renamed
               /\ req'[s].body = req[s].body \/ (out.inPlace /\ s = t)
    <3>1. req'[s] = req[s] \/ (out.inPlace /\ s = t /\ req'[s] = [req[s] EXCEPT !.body = body])
      BY <1>0, <2>5
    <3>2. IsRequest(req[s])
      BY <1>0
    <3> QED
      BY <3>1, <3>2 DEF IsRequest
  <2>9. /\ t \in Texts /\ out.items[i].id = req[t].id /\ req[t].id # 0
        /\ out.inPlace => i = 1
    BY <2>3 DEF IconInv, BufferIds
  (* The row is under the id of the head.                                  *)
  <2>10. /\ new = [req |-> new.req, text |-> new.text, n |-> new.n] /\ new.text = 0
         /\ new.req = out.items[1].id
    BY DEF RequestId
  <2> HIDE DEF new
  <2>11. rows \subseteq rows' /\ (\A r \in rows' : r \in rows \/ (r = new /\ insert))
         /\ (insert => new \in rows') /\ unmarked \subseteq unmarked' /\ (~insert => t \in unmarked')
    BY <2>5
  <2>12. out.items[1].text # Service /\ i # 1 => out.items[1].body # Plain
    <3>1. SUFFICES ASSUME out.items[1].text # Service, i # 1, out.items[1].body = Plain
                   PROVE  FALSE
      OBVIOUS
    <3>2. out.at <= 1 /\ out.at \in Nat
      BY <2>3, <3>1 DEF IconInv, HeadOK, BufferIds
    <3>3. 1 \in Pending
      BY <2>3, <3>1, <3>2 DEF Pending
    <3> QED
      BY <2>3, <3>1, <3>3
  <2>13. IdsOK' /\ AnswersOK' /\ ToldOK' /\ LookIcon'
    BY <1>1, <2>8 DEF IconInv, IdsOK, AnswersOK, ToldOK, LookIcon, Owner, Encrypted
  <2>14. RowsOK'
    <3>1. new.req \in 0 .. clock
      <4>1. CASE out.items[1].text = Service
        BY <2>3, <2>10, <4>1 DEF IconInv, BufferIds, IdsOK
      <4>2. CASE out.items[1].text # Service
        BY <2>3, <2>10, <4>2 DEF IconInv, BufferIds, IdsOK
      <4> QED
        BY <4>1, <4>2
    <3>2. ASSUME NEW r \in rows'
          PROVE  /\ r = [req |-> r.req, text |-> r.text, n |-> r.n] /\ r.req \in 0 .. clock
                 /\ r.text = 0 \/ (r.text \in Texts /\ server[r.text] # <<>>)
                 /\ r.text # 0 /\ r.req # 0 => /\ Owner(r.req, r.text)
                                               /\ \A b \in answers : b.id = r.req => b.text = r.text
      <4>1. CASE r \in rows
        BY <4>1 DEF IconInv, RowsOK
      <4>2. CASE r = new
        BY <2>10, <3>1, <4>2
      <4> QED
        BY <2>11, <4>1, <4>2
    <3> QED
      BY <1>1, <2>8, <3>2 DEF RowsOK, Owner
  <2>15. BufferIds' /\ HeadOK'
    <3>1. out'.at \in Nat /\ ~(out'.items[1].text # Service /\ out'.items[1].body = Plain)
      <4>1. out'.at \in Nat
        <5>1. Len(out.items) \in Nat
          <6>1. PICK S : out.items \in Seq(S)
            BY DEF IconInv, SingleInv, BufferOK, ItemsOK
          <6> QED
            BY <6>1
        <5> QED
          BY <2>3, <2>6, <5>1
      <4>2. i = 1 => out'.items[1].body # Plain
        BY <2>2, <2>3, <2>7
      <4>3. i # 1 => out'.items[1] = out.items[1]
        BY <2>3, <2>7
      <4> QED
        BY <2>12, <4>1, <4>2, <4>3
    <3>2. HeadOK'
      BY <3>1 DEF HeadOK
    <3>3. \A k \in DOMAIN out.items : out.items[k].text # Service => out.items[k].text \in Texts
      BY DEF IconInv, BufferIds
    <3>4. BufferIds'
      BY <1>1, <2>6, <2>7, <2>8, <3>1, <3>3 DEF IconInv, BufferIds
    <3> QED
      BY <3>2, <3>4
  <2>16. ASSUME NEW s \in Texts, req[s].id # 0, ~req[s].forced, HasRow(s)'
         PROVE  /\ server[s] # <<>> => Encrypted(s)
                /\ \A j \in DOMAIN out.items : out.items[j].text = s => out'.items[j].body # Plain
    <3>1. CASE HasRow(s)
      <4>1. /\ server[s] # <<>> => Encrypted(s)
            /\ \A j \in DOMAIN out.items : out.items[j].text = s => out.items[j].body # Plain
        BY <2>16, <3>1 DEF IconInv, RowIsTrue
      <4> QED
        BY <2>2, <2>7, <4>1
    <3>2. CASE ~HasRow(s)
      <4>1. out.items[1].id = req[s].id
        <5>1. PICK r \in rows' : r.req = req'[s].id
          BY <2>16 DEF HasRow
        <5>2. r.req = req[s].id /\ r \notin rows
          BY <2>8, <3>2, <5>1 DEF HasRow
        <5> QED
          BY <2>10, <2>11, <5>2
      <4>2. /\ out.items[1].text # Service /\ out.items[1].text \in Texts
            /\ out.items[1].id = req[out.items[1].text].id
        BY <2>3, <2>16, <4>1 DEF IconInv, BufferIds
      <4>3. out.items[1].text = s
        BY <2>16, <4>1, <4>2 DEF IconInv, IdsOK, Owner
      <4>4. server[s] = <<>> /\ \A j \in DOMAIN out.items : out.items[j].text = s => j = 1
        BY <2>3, <2>16, <4>2, <4>3 DEF IconInv, BufferIds
      <4>5. out'.items[1].body # Plain
        <5>1. CASE i = 1
          BY <2>2, <2>3, <2>7, <5>1
        <5>2. CASE i # 1
          BY <2>3, <2>7, <2>12, <4>2, <5>2
        <5> QED
          BY <5>1, <5>2
      <4> QED
        BY <4>4, <4>5
    <3> QED
      BY <3>1, <3>2
  <2>17. RowIsTrue'
    BY <1>1, <2>7, <2>8, <2>16 DEF RowIsTrue, Encrypted
  (* An encrypted text has its row if it is the head; if it is not, the
     buffer will not be read.                                              *)
  <2>18. ASSUME i = 1, insert
         PROVE  \E r \in rows' : r.req = req[t].id
    BY <2>9, <2>10, <2>11, <2>18
  <2>19. ASSUME NEW s \in Texts
         PROVE  HasRow(s) => \E r \in rows' : r.req = req[s].id
    BY <2>11 DEF HasRow
  <2>20. RowComes'
    <3>1. ASSUME NEW s \in Texts, req'[s].body # Plain \/ Encrypted(s), ~req[s].renamed,
                 s \notin unmarked'
          PROVE  req[s].id # 0 /\ \E r \in rows' : r.req = req[s].id
      <4>1. s \notin unmarked
        BY <2>11, <3>1
      <4>2. CASE req[s].body # Plain \/ Encrypted(s)
        BY <2>19, <3>1, <4>1, <4>2 DEF IconInv, RowComes, Known
      <4>3. CASE out.inPlace /\ s = t
        <5>1. insert
          BY <2>11, <3>1, <4>3
        <5> QED
          BY <2>9, <2>18, <4>3, <5>1
      <4> QED
        BY <2>8, <3>1, <4>2, <4>3
    <3>2. ASSUME NEW k \in DOMAIN out.items, out.items[k].text # Service,
                 out'.items[k].body # Plain, ~req[out.items[k].text].renamed,
                 out.items[k].text \notin unmarked'
          PROVE  \/ \E r \in rows' : r.req = req[out.items[k].text].id
                 \/ k \in out'.grown \ {1}
      <4>0. out.items[k].text \in Texts /\ out.items[k].text \notin unmarked
        BY <2>11, <3>2 DEF IconInv, BufferIds
      <4>1. CASE k # i
        <5>1. out.items[k].body # Plain
          BY <2>7, <3>2, <4>1
        <5>2. HasRow(out.items[k].text) \/ k \in out.grown \ {1}
          BY <3>2, <4>0, <5>1 DEF IconInv, RowComes, Known
        <5> QED
          BY <2>6, <2>19, <4>0, <5>2
      <4>2. CASE k = i
        <5>1. insert
          BY <2>3, <2>11, <3>2, <4>2
        <5>2. CASE i = 1
          BY <2>3, <2>18, <4>2, <5>1, <5>2
        <5>3. CASE i # 1
          BY <2>6, <4>2, <5>3
        <5> QED
          BY <5>2, <5>3
      <4> QED
        BY <4>1, <4>2
    <3>3. \A k \in DOMAIN out.items : out.items[k].text # Service => out.items[k].text \in Texts
      BY DEF IconInv, BufferIds
    <3> QED
      BY <1>1, <2>7, <2>8, <3>1, <3>2, <3>3 DEF RowComes, Known, Encrypted, HasRow
  <2>21. IconIsTrue'
    <3>1. \A s \in Texts : Marked(s)' => Marked(s)
      BY <2>10, <2>11 DEF Marked, Texts
    <3> QED
      BY <1>1, <2>8, <3>1 DEF IconInv, IconIsTrue, Encrypted
  <2>22. IconComes'
    BY <1>1, <2>8, <2>11 DEF IconInv, IconComes, Marked, Encrypted, ToldOK
  <2> QED
    BY <2>13, <2>14, <2>15, <2>17, <2>20, <2>21, <2>22 DEF IconInv
<1> QED
  BY <1>2, <1>3

(* The server takes only a buffer in which nothing but the first message has
   grown: the text it gets encrypted has its row.                          *)
LEMMA IconSent ==
  ASSUME IconInv, SingleInv', NEW arrives \in BOOLEAN, Transmit(arrives)
  PROVE  IconInv'
<1> DEFINE ItemOf(t) == {i \in DOMAIN out.items : out.items[i].text = t}
           taken == {t \in Texts : ItemOf(t) # {} /\ server[t] = <<>>}
           here == {t \in Texts : ItemOf(t) # {}}
           Body(t) == out.items[Min(ItemOf(t))].body
<1>1. /\ UNCHANGED <<req, clock, rows, told, look, unmarked>>
      /\ out' = NoBuffer
      /\ \/ /\ Framed
            /\ server' = [t \in Texts |-> IF t \in taken THEN <<Body(t)>> ELSE server[t]]
            /\ answers' = answers \cup {[id |-> req[t].id, text |-> t] : t \in here}
         \/ UNCHANGED <<server, answers>>
  <2>1. UNCHANGED <<req, clock, rows, told, look, unmarked>>
    BY DEF Transmit, faults
  <2>2. /\ out' = NoBuffer
        /\ \/ /\ Framed
              /\ server' = [t \in Texts |-> IF t \in taken THEN <<Body(t)>> ELSE server[t]]
              /\ answers' = answers \cup {[id |-> req[t].id, text |-> t] : t \in here}
           \/ UNCHANGED <<server, answers>>
    BY Zenon DEF Transmit
  <2> QED
    BY <2>1, <2>2
<1>2. out'.items = <<>> /\ DOMAIN out'.items = {} /\ out'.at = 0 /\ ~out'.inPlace
  BY <1>1 DEF NoBuffer
<1>3. BufferIds' /\ HeadOK'
  BY <1>2 DEF BufferIds, HeadOK
<1>4. CASE UNCHANGED <<server, answers>>
  <2>1. IdsOK' /\ AnswersOK' /\ RowsOK' /\ ToldOK' /\ LookIcon'
    BY <1>1, <1>4 DEF IconInv, IdsOK, AnswersOK, RowsOK, ToldOK, LookIcon, Owner, Encrypted
  <2>2. RowIsTrue' /\ RowComes'
    BY <1>1, <1>2, <1>4 DEF IconInv, RowIsTrue, RowComes, HasRow, Known, Encrypted
  <2>3. IconIsTrue' /\ IconComes'
    BY <1>1, <1>4 DEF IconInv, IconIsTrue, IconComes, Marked, Encrypted
  <2> QED
    BY <1>3, <2>1, <2>2, <2>3 DEF IconInv
<1>5. CASE ~UNCHANGED <<server, answers>>
  <2>1. /\ Framed
        /\ server' = [t \in Texts |-> IF t \in taken THEN <<Body(t)>> ELSE server[t]]
        /\ answers' = answers \cup {[id |-> req[t].id, text |-> t] : t \in here}
    BY <1>1, <1>5
  <2>2. ASSUME NEW t \in here
        PROVE  /\ Min(ItemOf(t)) \in DOMAIN out.items /\ out.items[Min(ItemOf(t))].text = t
               /\ t \in Texts /\ t # Service
               /\ req[t].id # 0 /\ (req[t].forced \/ server[t] = <<>>)
    <3>1. PICK S : out.items \in Seq(S)
      BY DEF IconInv, SingleInv, BufferOK, ItemsOK
    <3>2. ItemOf(t) \in SUBSET Nat /\ ItemOf(t) # {}
      BY <3>1
    <3>3. Min(ItemOf(t)) \in ItemOf(t)
      <4> HIDE DEF ItemOf
      <4> QED
        BY <3>2, LeastElement
    <3> DEFINE k == Min(ItemOf(t))
    <3>4. k \in DOMAIN out.items /\ out.items[k].text = t /\ t \in Texts /\ t # Service
      BY <3>3 DEF Texts, Service
    <3> HIDE DEF k
    <3>5. req[t].id # 0 /\ (req[t].forced \/ server[t] = <<>>)
      BY <3>4 DEF IconInv, BufferIds
    <3> QED
      BY <3>4, <3>5 DEF k
  <2>3. ASSUME NEW t \in Texts
        PROVE  /\ server[t] # <<>> => server'[t] = server[t]
               /\ \/ server'[t] = server[t]
                  \/ t \in here /\ server[t] = <<>> /\ server'[t] = <<Body(t)>>
               /\ t \in here => server'[t] # <<>>
    BY <2>1
  <2> HIDE DEF taken
  <2>4. \A a \in answers' : \/ a \in answers
                            \/ a.text \in here /\ a.id = req[a.text].id
    BY <2>1
  <2>5. ASSUME NEW t \in here
        PROVE  /\ req[t].id \in 1 .. clock /\ Owner(req[t].id, t) /\ server'[t] # <<>>
    <3>1. t \in Texts /\ req[t].id # 0
      BY <2>2
    <3>2. req[t].id \in 0 .. clock /\ clock \in Nat /\ Owner(req[t].id, t)
      BY <3>1 DEF IconInv, IdsOK
    <3>3. req[t].id \in 1 .. clock
      <4> DEFINE id == req[t].id
      <4>1. id \in 0 .. clock /\ clock \in Nat /\ id # 0
        BY <3>1, <3>2
      <4> HIDE DEF id
      <4>2. id \in 1 .. clock
        BY <4>1
      <4> QED
        BY <4>2 DEF id
    <3>4. server'[t] # <<>>
      BY <2>3, <3>1, Zenon
    <3> QED
      BY <3>2, <3>3, <3>4
  <2>6. here \subseteq Texts
    OBVIOUS
  <2> HIDE DEF here
  <2>7. IdsOK'
    <3>1. ASSUME NEW t \in Texts, server'[t] # <<>>
          PROVE  req[t].id # 0
      <4>1. CASE server[t] # <<>>
        BY <4>1 DEF IconInv, IdsOK
      <4>2. CASE t \in here
        BY <2>2, <4>2
      <4> QED
        BY <2>3, <3>1, <4>1, <4>2
    <3> QED
      BY <1>1, <3>1 DEF IconInv, IdsOK, Owner
  (* Every result, old or new, has an id of its text.                      *)
  <2>8. ASSUME NEW a \in answers'
        PROVE  /\ a.text \in Texts /\ a.id \in 1 .. clock /\ Owner(a.id, a.text)
               /\ server'[a.text] # <<>>
               /\ ~req[a.text].renamed => a.id = req[a.text].id
    <3>1. CASE a \in answers
      BY <2>3, <3>1 DEF IconInv, AnswersOK
    <3>2. CASE a.text \in here /\ a.id = req[a.text].id
      BY <2>5, <2>6, <3>2
    <3> QED
      BY <2>4, <3>1, <3>2
  <2>9. ASSUME NEW a \in answers', NEW b \in answers', a.id = b.id
        PROVE  a.text = b.text
    <3>1. CASE a \in answers /\ b \in answers
      BY <2>9, <3>1 DEF IconInv, AnswersOK
    <3>2. CASE b.text \in here /\ b.id = req[b.text].id
      <4>1. Owner(a.id, a.text) /\ b.text \in Texts
        BY <2>8
      <4> QED
        BY <2>9, <3>2, <4>1 DEF Owner
    <3>3. CASE a.text \in here /\ a.id = req[a.text].id
      <4>1. Owner(b.id, b.text) /\ a.text \in Texts
        BY <2>8
      <4> QED
        BY <2>9, <3>3, <4>1 DEF Owner
    <3> QED
      BY <2>4, <3>1, <3>2, <3>3
  <2>10. AnswersOK'
    BY <1>1, <2>8, <2>9 DEF AnswersOK, Owner
  <2>11. RowsOK'
    <3>1. ASSUME NEW r \in rows
          PROVE  /\ r = [req |-> r.req, text |-> r.text, n |-> r.n] /\ r.req \in 0 .. clock
                 /\ r.text = 0 \/ (r.text \in Texts /\ server'[r.text] # <<>>)
                 /\ r.text # 0 /\ r.req # 0 =>
                      /\ Owner(r.req, r.text)
                      /\ \A a \in answers' : a.id = r.req => a.text = r.text
      <4>1. /\ r = [req |-> r.req, text |-> r.text, n |-> r.n] /\ r.req \in 0 .. clock
            /\ r.text = 0 \/ (r.text \in Texts /\ server[r.text] # <<>>)
            /\ r.text # 0 /\ r.req # 0 =>
                 /\ Owner(r.req, r.text)
                 /\ \A a \in answers : a.id = r.req => a.text = r.text
        BY DEF IconInv, RowsOK
      <4>2. r.text = 0 \/ (r.text \in Texts /\ server'[r.text] # <<>>)
        BY <2>3, <4>1
      <4>3. ASSUME r.text # 0, r.req # 0, NEW a \in answers', a.id = r.req
            PROVE  a.text = r.text
        <5>1. CASE a \in answers
          BY <4>1, <4>3, <5>1
        <5>2. CASE a.text \in here /\ a.id = req[a.text].id
          BY <2>6, <4>1, <4>3, <5>2 DEF Owner
        <5> QED
          BY <2>4, <5>1, <5>2
      <4> QED
        BY <4>1, <4>2, <4>3
    <3> QED
      BY <1>1, <3>1 DEF RowsOK, Owner
  (* What the server takes is the one copy of the text in the buffer.      *)
  <2>12. ASSUME NEW t \in Texts, server'[t] # server[t]
         PROVE  /\ t \in here /\ server[t] = <<>> /\ server'[t] # <<>>
                /\ \E k \in DOMAIN out.items :
                     out.items[k].text = t /\ server'[t][1] = out.items[k].body
    <3>1. t \in here /\ server[t] = <<>> /\ server'[t] = <<Body(t)>>
      BY <2>3, <2>12
    <3>2. Min(ItemOf(t)) \in DOMAIN out.items /\ out.items[Min(ItemOf(t))].text = t
      BY <2>2, <3>1
    <3> DEFINE k == Min(ItemOf(t))
    <3>3. server'[t] = <<out.items[k].body>> /\ k \in DOMAIN out.items /\ out.items[k].text = t
      BY <3>1, <3>2
    <3> HIDE DEF k
    <3>4. server'[t][1] = out.items[k].body /\ server'[t] # <<>>
      BY <3>3
    <3> QED
      BY <3>1, <3>3, <3>4
  <2>13. RowIsTrue'
    <3>1. ASSUME NEW t \in Texts, req[t].id # 0, HasRow(t), ~req[t].forced, server'[t] # <<>>
          PROVE  server'[t][1] # Plain
      <4>1. CASE server'[t] = server[t]
        BY <3>1, <4>1 DEF IconInv, RowIsTrue, Encrypted
      <4>2. CASE server'[t] # server[t]
        <5>1. PICK k \in DOMAIN out.items :
                out.items[k].text = t /\ server'[t][1] = out.items[k].body
          BY <2>12, <4>2
        <5>2. out.items[k].body # Plain
          BY <3>1, <5>1 DEF IconInv, RowIsTrue
        <5> QED
          BY <5>1, <5>2
      <4> QED
        BY <4>1, <4>2
    <3> QED
      BY <1>1, <1>2, <3>1 DEF RowIsTrue, HasRow, Encrypted
  <2>14. RowComes'
    <3>1. ASSUME NEW t \in Texts, Known(t), req[t].body # Plain \/ Encrypted(t)'
          PROVE  req[t].id # 0 /\ HasRow(t)
      <4>1. CASE req[t].body # Plain \/ Encrypted(t)
        BY <3>1, <4>1 DEF IconInv, RowComes
      <4>2. CASE Encrypted(t)' /\ server'[t] # server[t]
        <5>1. PICK k \in DOMAIN out.items :
                out.items[k].text = t /\ server'[t][1] = out.items[k].body
          BY <2>12, <4>2
        <5>2. t \in here /\ t # Service /\ req[t].id # 0 /\ out.items[k].body # Plain
          BY <2>2, <2>12, <4>2, <5>1 DEF Encrypted
        <5>3. HasRow(out.items[k].text) \/ k \in out.grown \ {1}
          BY <3>1, <5>1, <5>2 DEF IconInv, RowComes
        <5>4. k \notin out.grown \ {1}
          BY <2>1 DEF Framed
        <5> QED
          BY <5>1, <5>2, <5>3, <5>4
      <4>3. Encrypted(t)' => Encrypted(t) \/ server'[t] # server[t]
        BY DEF Encrypted
      <4> QED
        BY <3>1, <4>1, <4>2, <4>3
    <3> QED
      BY <1>1, <1>2, <3>1 DEF RowComes, HasRow, Known
  <2>15. ToldOK' /\ LookIcon' /\ IconComes'
    <3>1. \A t \in Texts : server[t] # <<>> => server'[t] = server[t]
      BY <2>3
    <3> QED
      BY <1>1, <3>1 DEF IconInv, ToldOK, LookIcon, IconComes, Encrypted, Marked
  <2>16. IconIsTrue'
    <3>1. \A t \in Texts : Marked(t) => server[t] # <<>>
      <4>1. \A r \in rows : r.text = 0 \/ server[r.text] # <<>>
        BY DEF IconInv, RowsOK
      <4>2. 0 \notin Texts
        BY DEF Texts
      <4> QED
        BY <4>1, <4>2 DEF Marked
    <3>2. \A t \in Texts : server[t] # <<>> => server'[t] = server[t]
      BY <2>3
    <3> QED
      BY <1>1, <3>1, <3>2 DEF IconInv, IconIsTrue, Marked, Encrypted
  <2> QED
    BY <1>3, <2>7, <2>10, <2>11, <2>13, <2>14, <2>15, <2>16 DEF IconInv
<1> QED
  BY <1>4, <1>5

LEMMA IconStep == IconInv /\ [Next]_vars => IconInv'
<1> SUFFICES ASSUME IconInv, [Next]_vars PROVE IconInv'
  OBVIOUS
<1>0. SingleInv'
  BY SingleStep DEF IconInv
<1>1. CASE \/ UNCHANGED vars
           \/ \E c \in Chats, ok \in BOOLEAN : StoreDisable(c, ok) \/ Retire(c, ok)
           \/ \E ok \in BOOLEAN : StoreInsert(ok) \/ ReadKey(ok)
           \/ \E t \in Texts, ok \in BOOLEAN : LookFirst(t, ok)
           \/ LoopEnds
  BY <1>0, <1>1, IconOthers
<1>2. CASE \/ \E t \in Texts, c \in Chats : Compose(t, c)
           \/ \E t \in Texts : Resend(t)
  BY <1>0, <1>2, IconRequests
<1>3. CASE \E a \in answers, alone, ok \in BOOLEAN : Answer(a, alone, ok)
  BY <1>0, <1>3, IconAnswer
<1>4. CASE \E ping, copied, renew \in BOOLEAN : TryToSend(ping, copied, renew)
  BY <1>0, <1>4, IconPacked
<1>5. CASE \E select, insert \in BOOLEAN : ReadNumber(select, insert)
  BY <1>0, <1>5, IconEncrypted
<1>6. CASE \E select, insert \in BOOLEAN : LookSecond(select, insert)
  BY <1>0, <1>6, IconLooked
<1>7. CASE \E arrives \in BOOLEAN : Transmit(arrives)
  BY <1>0, <1>7, IconSent
<1> QED
  BY <1>1, <1>2, <1>3, <1>4, <1>5, <1>6, <1>7, Zenon DEF Next

(* A text that was sent once and bears the icon is encrypted: the row of
   "messages" that check_id_for_accepted_messages completes was written by
   encrypt_the_message under the id of the first message of the buffer, which
   is that of a text encrypted by then or of a ping, and ids are given once. *)
THEOREM IconTellsTheTruth == Spec => []IconIsTrue
<1>1. IconInv => IconIsTrue
  BY DEF IconInv
<1> QED
  BY <1>1, InitIcon, IconStep, PTL DEF Spec

(* A text the server has encrypted bears the icon from the time its result has
   come by itself, unless its request was given another message id or a row
   of it could not be written: in a buffer the server can read, only the first
   message has grown, and it is the first whose id the row is under.       *)
THEOREM IconArrives == Spec => []IconComes
<1>1. IconInv => IconComes
  BY DEF IconInv
<1> QED
  BY <1>1, InitIcon, IconStep, PTL DEF Spec

=============================================================================
