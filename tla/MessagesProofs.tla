---------------------------- MODULE MessagesProofs ----------------------------
(***************************************************************************)
(* Theorems about Messages, for any chats and any number of texts, keys    *)
(* and faults.                                                             *)
(***************************************************************************)
EXTENDS Messages, FiniteSetTheorems, WellFoundedInduction, TLAPS

(* A text with no or one layer of encryption.                              *)
Single(body) == body = Plain \/ \E layer : body = <<layer>>

(* What the proofs need of requests, items and the buffer: their fields.   *)
IsRequest(r) == r = [chat |-> r.chat, body |-> r.body, id |-> r.id, place |-> r.place,
                     forced |-> r.forced, renamed |-> r.renamed]
IsItem(e) == e = [text |-> e.text, id |-> e.id, body |-> e.body]
IsBuffer(b) ==
  b = [items |-> b.items, at |-> b.at, inPlace |-> b.inPlace, grown |-> b.grown,
       left |-> b.left, promised |-> b.promised, excused |-> b.excused, changed |-> b.changed]

RequestsOK ==
  /\ req = [t \in Texts |-> req[t]]
  /\ \A t \in Texts : IsRequest(req[t]) /\ Single(req[t].body)
ItemsOK(items) ==
  /\ \E S : items \in Seq(S)
  /\ \A i \in DOMAIN items :
       IsItem(items[i]) /\ (items[i].text \in Texts => Single(items[i].body))
BufferOK == IsBuffer(out) /\ ItemsOK(out.items)

(* Between the two lookups there is a text, which is not encrypted.        *)
KeyOK == key # <<>> => out.left = "no" /\ Pending # {} /\ Current.body = Plain
ServerOK ==
  /\ server = [t \in Texts |-> server[t]]
  /\ \A t \in Texts : server[t] = <<>> \/ \E body : Single(body) /\ server[t] = <<body>>

SingleInv == RequestsOK /\ BufferOK /\ KeyOK /\ ServerOK

(* A buffer whose items, index and end stay what they are.                 *)
SameItems == out'.items = out.items /\ out'.at = out.at /\ out'.left = out.left

LEMMA SingleLength ==
  ASSUME NEW body, Single(body)
  PROVE  Len(body) <= 1
<1>1. CASE body = <<>>
  BY <1>1
<1>2. ASSUME NEW layer, body = <<layer>>
      PROVE  Len(body) <= 1
  <2>1. Len(<<layer>>) = 1
    OBVIOUS
  <2> QED
    BY <1>2, <2>1
<1> QED
  BY <1>1, <1>2 DEF Single, Plain

(* Encrypting a text that is not encrypted puts one layer around it.       *)
LEMMA EncryptOnce ==
  ASSUME NEW n, NEW k
  PROVE  Single(Encrypt(Plain, n, k))
<1> DEFINE layer == [n |-> n, key |-> k, changed |-> out.changed]
<1>1. Encrypt(Plain, n, k) = <<layer>> \o <<>>
  BY DEF Encrypt, Plain
<1> HIDE DEF layer
<1>2. <<layer>> \o <<>> = <<layer>>
  OBVIOUS
<1> QED
  BY <1>1, <1>2 DEF Single

(* A nonempty set of naturals has a least element, which Min chooses.      *)
LEMMA LeastElement ==
  ASSUME NEW S \in SUBSET Nat, S # {}
  PROVE  Min(S) \in S
<1>1. PICK x \in S : \A y \in S : ~(<<y, x>> \in OpToRel(<, Nat))
  BY WFMin, NatLessThanWellFounded
<1>2. \A y \in S : x <= y
  <2>1. TAKE y \in S
  <2>2. ~(y < x)
    BY <1>1 DEF OpToRel
  <2>3. x \in Nat /\ y \in Nat
    OBVIOUS
  <2> QED
    BY <2>2, <2>3
<1> QED
  BY <1>2 DEF Min

LEMMA InitSingle == Init => SingleInv
<1> SUFFICES ASSUME Init PROVE SingleInv
  OBVIOUS
<1>1. RequestsOK
  BY DEF Init, RequestsOK, IsRequest, Single
<1>2. BufferOK
  <2>1. <<>> \in Seq({}) /\ DOMAIN <<>> = {}
    OBVIOUS
  <2>2. out.items = <<>> /\ IsBuffer(out)
    BY DEF Init, NoBuffer, IsBuffer
  <2> QED
    BY <2>1, <2>2 DEF BufferOK, ItemsOK
<1>3. KeyOK /\ ServerOK
  BY DEF Init, KeyOK, ServerOK
<1> QED
  BY <1>1, <1>2, <1>3 DEF SingleInv

-----------------------------------------------------------------------------
(* A step that leaves requests and server alone, the items of the buffer and
   the key too, keeps the invariant.                                       *)
LEMMA QuietStep ==
  ASSUME SingleInv, UNCHANGED <<req, server>>, SameItems, IsBuffer(out'),
         key' = key \/ key' = <<>>
  PROVE  SingleInv'
<1>1. RequestsOK' /\ ServerOK'
  BY DEF SingleInv, RequestsOK, ServerOK
<1>2. BufferOK'
  BY DEF SingleInv, BufferOK, SameItems
<1>3. Pending' = Pending /\ Current' = Current
  BY DEF SameItems, Pending, Current
<1>4. KeyOK'
  BY <1>3 DEF SingleInv, KeyOK, SameItems
<1> QED
  BY <1>1, <1>2, <1>4 DEF SingleInv

(* The steps of the other threads, and those of the session that neither
   change a text nor pack or empty a buffer.                               *)
LEMMA OtherSteps ==
  ASSUME SingleInv,
         \/ UNCHANGED vars
         \/ \E c \in Chats, ok \in BOOLEAN : StoreDisable(c, ok) \/ Retire(c, ok)
         \/ \E ok \in BOOLEAN : StoreInsert(ok)
         \/ \E t \in Texts, ok \in BOOLEAN : LookFirst(t, ok)
         \/ \E select, insert \in BOOLEAN : LookSecond(select, insert)
  PROVE  SingleInv'
<1>1. UNCHANGED <<req, server, key>>
  BY DEF vars, db, sending, world, StoreDisable, Retire, StoreInsert, LookFirst, LookSecond
<1>2. SameItems /\ IsBuffer(out')
  <2>1. IsBuffer(out)
    BY DEF SingleInv, BufferOK
  <2>2. CASE out' = out
    BY <2>1, <2>2 DEF SameItems
  <2>3. ASSUME NEW c, NEW e, out' = [out EXCEPT !.changed = c, !.excused = e]
        PROVE  SameItems /\ IsBuffer(out')
    BY <2>1, <2>3 DEF SameItems, IsBuffer
  <2>4. ASSUME NEW p, out' = [out EXCEPT !.promised = p]
        PROVE  SameItems /\ IsBuffer(out')
    BY <2>1, <2>4 DEF SameItems, IsBuffer
  <2>5. ASSUME NEW ok, StoreInsert(ok)
        PROVE  \E c, e : out' = [out EXCEPT !.changed = c, !.excused = e]
    BY <2>5, Zenon DEF StoreInsert
  <2>6. ASSUME NEW c, NEW ok, Retire(c, ok)
        PROVE  \E p : out' = [out EXCEPT !.promised = p]
    BY <2>6, Zenon DEF Retire
  <2>7. \/ out' = out
        \/ \E ok : StoreInsert(ok)
        \/ \E c, ok : Retire(c, ok)
    BY DEF vars, sending, StoreDisable, LookFirst, LookSecond
  <2> QED
    BY <2>2, <2>3, <2>4, <2>5, <2>6, <2>7, Zenon
<1> QED
  BY <1>1, <1>2, QuietStep

-----------------------------------------------------------------------------
(* The steps that change a request but not its text.                       *)
LEMMA RequestSteps ==
  ASSUME SingleInv,
         \/ \E t \in Texts, c \in Chats : Compose(t, c)
         \/ \E t \in Texts : Resend(t)
         \/ \E a \in answers, alone, ok \in BOOLEAN : Answer(a, alone, ok)
  PROVE  SingleInv'
<1>1. UNCHANGED <<out, key, server>>
  BY DEF Compose, Resend, Answer, world
<1>2. RequestsOK'
  <2>1. req = [s \in Texts |-> req[s]]
    BY DEF SingleInv, RequestsOK
  <2>2. ASSUME NEW t, NEW c, NEW p, NEW f,
               \/ req' = [req EXCEPT ![t].chat = c, ![t].place = p]
               \/ req' = [req EXCEPT ![t].place = p, ![t].forced = f]
               \/ req' = [req EXCEPT ![t].place = p]
        PROVE  RequestsOK'
    <3>1. req' = [s \in Texts |-> req'[s]]
      BY <2>1, <2>2
    <3>2. ASSUME NEW s \in Texts
          PROVE  IsRequest(req'[s]) /\ req'[s].body = req[s].body
      <4>1. IsRequest(req[s])
        BY DEF SingleInv, RequestsOK
      <4>2. \/ req'[s] = req[s]
            \/ req'[s] = [req[s] EXCEPT !.chat = c, !.place = p]
            \/ req'[s] = [req[s] EXCEPT !.place = p, !.forced = f]
            \/ req'[s] = [req[s] EXCEPT !.place = p]
        BY <2>1, <2>2
      <4> QED
        BY <4>1, <4>2 DEF IsRequest
    <3> QED
      BY <3>1, <3>2 DEF SingleInv, RequestsOK
  <2>3. ASSUME NEW t \in Texts, NEW c \in Chats, Compose(t, c)
        PROVE  RequestsOK'
    <3>1. req' = [req EXCEPT ![t].chat = c, ![t].place = "queued"]
      BY <2>3, Zenon DEF Compose
    <3> QED
      BY <2>2, <3>1, Zenon
  <2>4. ASSUME NEW t \in Texts, Resend(t)
        PROVE  RequestsOK'
    <3>1. req' = [req EXCEPT ![t].place = "queued", ![t].forced = TRUE]
      BY <2>4, Zenon DEF Resend
    <3> QED
      BY <2>2, <3>1, Zenon
  <2>5. ASSUME NEW a \in answers, NEW alone, NEW ok, Answer(a, alone, ok)
        PROVE  RequestsOK'
    <3>1. req' = [req EXCEPT ![a.text].place = "answered"]
      BY <2>5, Zenon DEF Answer
    <3> QED
      BY <2>2, <3>1, Zenon
  <2> QED
    BY <2>3, <2>4, <2>5, Zenon
<1>3. BufferOK' /\ ServerOK'
  BY <1>1 DEF SingleInv, BufferOK, ServerOK
<1>4. KeyOK'
  BY <1>1 DEF SingleInv, KeyOK, Pending, Current
<1> QED
  BY <1>2, <1>3, <1>4 DEF SingleInv

-----------------------------------------------------------------------------
(* tryToSend: a buffer is packed from the requests as they are stored.     *)

(* The queue is finite, so that what is packed is a sequence.              *)
LEMMA PackedItems ==
  ASSUME NEW ping \in BOOLEAN, NEW renew, RequestsOK
  PROVE  ItemsOK(Packed(ping, renew))
<1> DEFINE item(i) == [text |-> Queued[i], id |-> IdToSend(Queued[i], i, renew),
                       body |-> req[Queued[i]].body]
           copies == [i \in DOMAIN Queued |-> item(i)]
           front == IF ping THEN <<PingFirst>> ELSE <<>>
<1>1. Packed(ping, renew) = front \o copies
  BY DEF Packed
<1>2. PICK n \in Nat : DOMAIN Queued = 1 .. n
  <2>1. Cardinality(In("queued")) \in Nat
    <3>1. MaxTexts \in Nat
      BY BoundsAssumption
    <3>2. IsFiniteSet(Texts)
      BY <3>1, FS_Interval DEF Texts
    <3>3. In("queued") \subseteq Texts
      BY DEF In
    <3> QED
      BY <3>2, <3>3, FS_Subset, FS_CardinalityType
  <2> QED
    BY <2>1 DEF Queued
<1>3. ASSUME NEW i
      PROVE  IsItem(item(i)) /\ (item(i).text \in Texts => Single(item(i).body))
  BY DEF IsItem, RequestsOK
<1>4. IsItem(PingFirst) /\ PingFirst.text \notin Texts
  BY DEF PingFirst, IsItem, Service, Texts
<1> DEFINE Good(e) == IsItem(e) /\ (e.text \in Texts => Single(e.body))
           S == {copies[i] : i \in 1 .. n} \cup {PingFirst}
<1>5. \A e \in S : Good(e)
  BY <1>2, <1>3, <1>4
<1>6. copies \in Seq(S)
  <2> DEFINE T == {copies[i] : i \in 1 .. n}
  <2>1. copies = [i \in 1 .. n |-> copies[i]]
    BY <1>2
  <2> HIDE DEF copies
  <2>2. [i \in 1 .. n |-> copies[i]] \in Seq(S)
    BY <1>2
  <2> QED
    BY <2>1, <2>2
<1>7. front \in Seq(S)
  <2>1. PingFirst \in S
    OBVIOUS
  <2> HIDE DEF S
  <2> QED
    BY <2>1
<1> HIDE DEF S, Good, copies, front
<1>8. front \o copies \in Seq(S)
  BY <1>6, <1>7
<1>9. \A i \in DOMAIN (front \o copies) : (front \o copies)[i] \in S
  BY <1>8
<1>10. \A i \in DOMAIN (front \o copies) : Good((front \o copies)[i])
  BY <1>5, <1>9
<1> QED
  BY <1>1, <1>8, <1>10 DEF ItemsOK, Good

LEMMA PackStep ==
  ASSUME SingleInv, NEW ping \in BOOLEAN, NEW copied, NEW renew,
         TryToSend(ping, copied, renew)
  PROVE  SingleInv'
<1>1. UNCHANGED <<key, server>>
  BY DEF TryToSend, world
<1>2. out'.items = Packed(ping, renew) /\ IsBuffer(out')
  <2>1. \E p, g, h : out' = [items |-> Packed(ping, renew), at |-> 1,
             inPlace |-> p, grown |-> {},
             left |-> "no", excused |-> FALSE, changed |-> FALSE, promised |-> g]
    BY Zenon DEF TryToSend
  <2> QED
    BY <2>1 DEF IsBuffer
<1>3. BufferOK'
  BY <1>2, PackedItems DEF SingleInv, BufferOK
<1>4. key = <<>>
  <2>1. out = NoBuffer
    BY DEF TryToSend, Idle
  <2>2. Pending = {}
    BY <2>1 DEF NoBuffer, Pending
  <2> QED
    BY <2>2 DEF SingleInv, KeyOK
<1>5. RequestsOK'
  <2> DEFINE new(t) ==
        IF req[t].place # "queued" THEN req[t]
        ELSE LET i == CHOOSE j \in DOMAIN Queued : Queued[j] = t
             IN [req[t] EXCEPT !.place = "sent", !.id = IdToSend(t, i, renew),
                               !.renamed = @ \/ (req[t].id # 0 /\ renew)]
  <2>1. req' = [t \in Texts |-> new(t)]
    BY Zenon DEF TryToSend
  <2>2. ASSUME NEW t \in Texts
        PROVE  IsRequest(new(t)) /\ new(t).body = req[t].body
    <3>1. IsRequest(req[t])
      BY DEF SingleInv, RequestsOK
    <3>2. \/ new(t) = req[t]
          \/ \E p, id, r : new(t) = [req[t] EXCEPT !.place = p, !.id = id, !.renamed = r]
      BY Zenon
    <3> HIDE DEF new
    <3> QED
      BY <3>1, <3>2 DEF IsRequest
  <2> HIDE DEF new
  <2> QED
    BY <2>1, <2>2 DEF SingleInv, RequestsOK
<1> QED
  BY <1>1, <1>3, <1>4, <1>5 DEF SingleInv, KeyOK, ServerOK

-----------------------------------------------------------------------------
(* encrypt_the_buffer: the first lookup passes on only a text that has no
   prefix, so that the second one encrypts what is not encrypted.          *)
LEMMA LookStep ==
  ASSUME SingleInv, \/ LoopEnds
                    \/ \E ok \in BOOLEAN : ReadKey(ok)
  PROVE  SingleInv'
<1>1. UNCHANGED <<req, server>>
  BY DEF LoopEnds, ReadKey, world
<1>2. IsBuffer(out)
  BY DEF SingleInv, BufferOK
<1>3. CASE LoopEnds
  <2>1. key' = <<>> /\ out' = [out EXCEPT !.left = "end"]
    BY <1>3, Zenon DEF LoopEnds
  <2>2. out'.items = out.items /\ IsBuffer(out')
    BY <1>2, <2>1 DEF IsBuffer
  <2> QED
    BY <1>1, <2>1, <2>2 DEF SingleInv, RequestsOK, BufferOK, KeyOK, ServerOK
<1>4. ASSUME NEW ok \in BOOLEAN, ReadKey(ok)
      PROVE  SingleInv'
  <2>1. CASE ReturnUnchanged(ok)
    <3>1. key' = <<>> /\ \E e : out' = [out EXCEPT !.left = "return", !.excused = e]
      BY <2>1, Zenon DEF ReturnUnchanged
    <3>2. out'.items = out.items /\ IsBuffer(out')
      BY <1>2, <3>1 DEF IsBuffer
    <3> QED
      BY <1>1, <3>1, <3>2 DEF SingleInv, RequestsOK, BufferOK, KeyOK, ServerOK
  <2>2. CASE ~ReturnUnchanged(ok)
    <3>1. /\ out.left = "no" /\ Pending # {} /\ Current.body = Plain
          /\ out' = [out EXCEPT !.changed = FALSE]
      BY <1>4, <2>2, Zenon DEF ReadKey, Looking
    <3>2. SameItems /\ IsBuffer(out')
      BY <1>2, <3>1 DEF IsBuffer, SameItems
    <3>3. Pending' = Pending /\ Current' = Current
      BY <3>2 DEF SameItems, Pending, Current
    <3>4. BufferOK' /\ KeyOK'
      BY <3>1, <3>2, <3>3 DEF SingleInv, BufferOK, KeyOK, SameItems
    <3> QED
      BY <1>1, <3>4 DEF SingleInv, RequestsOK, ServerOK
  <2> QED
    BY <2>1, <2>2
<1> QED
  BY <1>3, <1>4

LEMMA EncryptStep ==
  ASSUME SingleInv, NEW select \in BOOLEAN, NEW insert \in BOOLEAN, ReadNumber(select, insert)
  PROVE  SingleInv'
<1>1. server' = server /\ key # <<>>
  BY DEF ReadNumber, world
<1>2. IsBuffer(out) /\ Current.body = Plain
  BY <1>1 DEF SingleInv, BufferOK, KeyOK
<1>3. CASE ReturnUnchanged(select) /\ req' = req
  <2>1. key' = <<>> /\ \E e : out' = [out EXCEPT !.left = "return", !.excused = e]
    BY <1>3, Zenon DEF ReturnUnchanged
  <2>2. out'.items = out.items /\ IsBuffer(out')
    BY <1>2, <2>1 DEF IsBuffer
  <2> QED
    BY <1>1, <1>3, <2>1, <2>2 DEF SingleInv, RequestsOK, BufferOK, KeyOK, ServerOK
<1>4. CASE ~(ReturnUnchanged(select) /\ req' = req)
  <2>1. PICK n :
          /\ \E next, g :
               out' = [out EXCEPT !.items[Min(Pending)].body = Encrypt(Current.body, n, key[1]),
                                  !.at = next, !.grown = g]
          /\ \/ req' = [req EXCEPT ![Current.text].body = Encrypt(Current.body, n, key[1])]
             \/ req' = req
          /\ key' = <<>>
    BY <1>4, Zenon DEF ReadNumber
  <2> DEFINE body == Encrypt(Current.body, n, key[1])
             i == Min(Pending)
  <2>2. Single(body)
    BY <1>2, EncryptOnce
  <2> HIDE DEF body, i
  <2>3. \/ req' = [req EXCEPT ![Current.text].body = body]
        \/ req' = req
    BY <2>1 DEF body
  <2>4. PICK next, g : out' = [out EXCEPT !.items[i].body = body, !.at = next, !.grown = g]
    BY <2>1, Zenon DEF body, i
  <2>5. RequestsOK'
    <3>1. req = [t \in Texts |-> req[t]]
      BY DEF SingleInv, RequestsOK
    <3>2. req' = [t \in Texts |-> req'[t]]
      BY <2>3, <3>1
    <3>3. ASSUME NEW t \in Texts
          PROVE  IsRequest(req'[t]) /\ Single(req'[t].body)
      <4>1. IsRequest(req[t]) /\ Single(req[t].body)
        BY DEF SingleInv, RequestsOK
      <4>2. req'[t] = req[t] \/ req'[t] = [req[t] EXCEPT !.body = body]
        BY <2>3, <3>1
      <4> QED
        BY <2>2, <4>1, <4>2 DEF IsRequest
    <3> QED
      BY <3>2, <3>3 DEF RequestsOK
  <2>6. IsBuffer(out') /\ out'.items = [out.items EXCEPT ![i].body = body]
    BY <1>2, <2>4 DEF IsBuffer
  <2>7. ItemsOK(out'.items)
    <3> DEFINE items == out.items
    <3>1. PICK S : items \in Seq(S)
      BY DEF SingleInv, BufferOK, ItemsOK
    <3>2. \A k \in DOMAIN items :
            IsItem(items[k]) /\ (items[k].text \in Texts => Single(items[k].body))
      BY DEF SingleInv, BufferOK, ItemsOK
    <3>3. DOMAIN out'.items = DOMAIN items
      BY <2>6
    <3>4. ASSUME NEW k \in DOMAIN items
          PROVE  /\ IsItem(out'.items[k])
                 /\ out'.items[k].text \in Texts => Single(out'.items[k].body)
      <4>1. out'.items[k] = items[k] \/ out'.items[k] = [items[k] EXCEPT !.body = body]
        BY <2>6
      <4>2. IsItem(items[k])
        BY <3>2
      <4> QED
        BY <2>2, <3>2, <4>1, <4>2 DEF IsItem
    <3>5. \E T : out'.items \in Seq(T)
      <4> DEFINE T == S \cup {[items[i] EXCEPT !.body = body]}
      <4>1. out'.items = [k \in 1 .. Len(items) |-> out'.items[k]]
        BY <2>6, <3>1
      <4>2. \A k \in 1 .. Len(items) : out'.items[k] \in T
        BY <2>6, <3>1
      <4> HIDE DEF T
      <4>3. Len(items) \in Nat
        BY <3>1
      <4>4. [k \in 1 .. Len(items) |-> out'.items[k]] \in Seq(T)
        BY <4>2, <4>3
      <4> QED
        BY <4>1, <4>4
    <3> QED
      BY <3>3, <3>4, <3>5 DEF ItemsOK
  <2> QED
    BY <1>1, <2>1, <2>5, <2>6, <2>7 DEF SingleInv, BufferOK, KeyOK, ServerOK
<1> QED
  BY <1>3, <1>4

-----------------------------------------------------------------------------
(* The server keeps a text as one of the items of the buffer has it.       *)
LEMMA SendStep ==
  ASSUME SingleInv, NEW arrives, Transmit(arrives)
  PROVE  SingleInv'
<1> DEFINE ItemOf(t) == {i \in DOMAIN out.items : out.items[i].text = t}
           taken == {t \in Texts : ItemOf(t) # {} /\ server[t] = <<>>}
           Body(t) == out.items[Min(ItemOf(t))].body
<1>1. /\ out.left # "no" /\ out' = NoBuffer /\ UNCHANGED <<req, key>>
      /\ \/ server' = [t \in Texts |-> IF t \in taken THEN <<Body(t)>> ELSE server[t]]
         \/ server' = server
  BY Zenon DEF Transmit
<1>2. RequestsOK'
  BY <1>1 DEF SingleInv, RequestsOK
<1>3. BufferOK'
  <2>1. <<>> \in Seq({}) /\ DOMAIN <<>> = {}
    OBVIOUS
  <2>2. out'.items = <<>> /\ IsBuffer(out')
    BY <1>1 DEF NoBuffer, IsBuffer
  <2> QED
    BY <2>1, <2>2 DEF BufferOK, ItemsOK
<1>4. KeyOK'
  BY <1>1 DEF SingleInv, KeyOK
<1>5. ASSUME NEW t \in taken
      PROVE  Single(Body(t))
  <2>1. PICK S : out.items \in Seq(S)
    BY DEF SingleInv, BufferOK, ItemsOK
  <2>2. ItemOf(t) \in SUBSET Nat /\ ItemOf(t) # {}
    BY <2>1
  <2>3. Min(ItemOf(t)) \in ItemOf(t)
    <3> HIDE DEF ItemOf
    <3> QED
      BY <2>2, LeastElement
  <2>4. Min(ItemOf(t)) \in DOMAIN out.items /\ out.items[Min(ItemOf(t))].text \in Texts
    BY <2>3
  <2> QED
    BY <2>4 DEF SingleInv, BufferOK, ItemsOK
<1>6. ServerOK'
  <2>1. server = [t \in Texts |-> server[t]]
    BY DEF SingleInv, ServerOK
  <2> HIDE DEF taken, Body
  <2>2. ASSUME NEW t \in Texts
        PROVE  server'[t] = <<>> \/ \E body : Single(body) /\ server'[t] = <<body>>
    <3>1. server'[t] = server[t] \/ (t \in taken /\ server'[t] = <<Body(t)>>)
      BY <1>1
    <3>2. server[t] = <<>> \/ \E body : Single(body) /\ server[t] = <<body>>
      BY DEF SingleInv, ServerOK
    <3> QED
      BY <1>5, <3>1, <3>2
  <2>3. server' = [t \in Texts |-> server'[t]]
    BY <1>1, <2>1
  <2> QED
    BY <2>2, <2>3 DEF ServerOK
<1> QED
  BY <1>2, <1>3, <1>4, <1>6 DEF SingleInv

LEMMA SingleStep ==
  ASSUME SingleInv, [Next]_vars
  PROVE  SingleInv'
<1>1. CASE \/ UNCHANGED vars
           \/ \E c \in Chats, ok \in BOOLEAN : StoreDisable(c, ok) \/ Retire(c, ok)
           \/ \E ok \in BOOLEAN : StoreInsert(ok)
           \/ \E t \in Texts, ok \in BOOLEAN : LookFirst(t, ok)
           \/ \E select, insert \in BOOLEAN : LookSecond(select, insert)
  BY <1>1, OtherSteps, Zenon
<1>2. CASE \/ \E t \in Texts, c \in Chats : Compose(t, c)
           \/ \E t \in Texts : Resend(t)
           \/ \E a \in answers, alone, ok \in BOOLEAN : Answer(a, alone, ok)
  BY <1>2, RequestSteps, Zenon
<1>3. CASE \E ping, copied, renew \in BOOLEAN : TryToSend(ping, copied, renew)
  BY <1>3, PackStep, Zenon
<1>4. CASE LoopEnds \/ \E ok \in BOOLEAN : ReadKey(ok)
  BY <1>4, LookStep, Zenon
<1>5. CASE \E select, insert \in BOOLEAN : ReadNumber(select, insert)
  BY <1>5, EncryptStep, Zenon
<1>6. CASE \E arrives \in BOOLEAN : Transmit(arrives)
  BY <1>6, SendStep, Zenon
<1> QED
  BY <1>1, <1>2, <1>3, <1>4, <1>5, <1>6, Zenon DEF Next

(* A text is encrypted once, however often its request is put back and sent
   again, alone or in a container, whatever other threads do to the keys and
   whichever statements fail: the prefix of an encrypted text makes the first
   lookup of encrypt_the_message return.                                   *)
THEOREM OneLayer == Spec => []EncryptedOnce
<1>1. SingleInv => EncryptedOnce
  <2> SUFFICES ASSUME SingleInv, NEW t \in Texts, server[t] # <<>>
               PROVE  Len(server[t][1]) <= 1
    BY DEF EncryptedOnce
  <2>1. PICK body : Single(body) /\ server[t] = <<body>>
    BY DEF SingleInv, ServerOK
  <2>2. server[t][1] = body
    BY <2>1
  <2> QED
    BY <2>1, <2>2, SingleLength
<1> QED
  BY <1>1, InitSingle, SingleStep, PTL DEF Spec

=============================================================================
