---------------------------- MODULE KeyRoundProofs ----------------------------
(***************************************************************************)
(* Theorems about the values that KeyExchange hands round the ring of the  *)
(* members: what a stored key was raised to, that the keys of different    *)
(* exchanges have no private exponent in common, and that exchanges one    *)
(* after the other give everybody the same keys and implement GroupKey.    *)
(***************************************************************************)
EXTENDS KeyNumberProofs, FiniteSetTheorems

-----------------------------------------------------------------------------
(* The ring of the members.                                                *)

(* The members a value meant for t has passed when it comes from s.        *)
Arc(t, s) == IF t < s THEN t + 1 .. s ELSE (t + 1 .. N - 1) \cup (0 .. s)

(* The member after s.                                                     *)
LEMMA SuccIs ==
  ASSUME NEW s \in Pos
  PROVE  (s + 1) % N = IF s = N - 1 THEN 0 ELSE s + 1
<1>1. N \in Nat /\ N > 0 /\ s \in 0 .. N - 1
  BY NAssumption DEF Pos
<1>2. CASE s = N - 1
  <2>1. s + 1 = N
    BY <1>1, <1>2
  <2>2. N % N = 0
    BY <1>1
  <2> QED
    BY <1>2, <2>1, <2>2
<1>3. CASE s # N - 1
  <2>1. s + 1 \in 0 .. N - 1
    BY <1>1, <1>3
  <2> QED
    BY <1>1, <1>3, <2>1
<1> QED
  BY <1>2, <1>3

(* The arcs of the four ways in which a value starts, ends or goes on.     *)
LEMMA ArcBegin == N > 1 => Arc(N - 1, 0) = {0}
  BY NAssumption DEF Arc

LEMMA ArcAgain ==
  ASSUME NEW m \in Pos, m # 0
  PROVE  Arc(m - 1, m) = {m} /\ m - 1 \in Pos
  BY NAssumption DEF Arc, Pos

LEMMA ArcFinish ==
  ASSUME N > 1, NEW s \in Pos, NEW m \in Pos, m = (s + 1) % N
  PROVE  Arc(m, s) = Pos \ {m} /\ m # s
<1>1. m = IF s = N - 1 THEN 0 ELSE s + 1
  BY SuccIs
<1> QED
  BY <1>1, NAssumption DEF Arc, Pos

LEMMA ArcForward ==
  ASSUME NEW s \in Pos, NEW m \in Pos, NEW t \in Pos, m = (s + 1) % N, t # m, t # s
  PROVE  Arc(t, s) \in SUBSET Pos /\ m \notin Arc(t, s) /\ Arc(t, m) = Arc(t, s) \cup {m}
<1>1. m = IF s = N - 1 THEN 0 ELSE s + 1
  BY SuccIs
<1> QED
  BY <1>1, NAssumption DEF Arc, Pos

-----------------------------------------------------------------------------
(* Values that were raised once to an exponent of each of some members.    *)

Once(v, S) == \A p \in Pos :
  IF p \in S THEN \E i \in Gens : Uses(v, p) = {i} /\ v.exp[p][i] = 1
             ELSE Uses(v, p) = {}

LEMMA BaseOnce ==
  ASSUME NEW mod
  PROVE  Once(Base(mod), {})
  BY DEF Once, Base, Uses

(* Raised by a member that has not raised it yet.                          *)
LEMMA RaiseOnce ==
  ASSUME NEW v \in Value, NEW S \in SUBSET Pos, NEW m \in Pos \ S,
         NEW params \in Params, params.nth \in Gens, Once(v, S)
  PROVE  Once(Raise(v, m, params), S \cup {m})
<1> DEFINE w == Raise(v, m, params)
           k == params.nth
<1>1. v.exp \in [Pos -> [Gens -> Nat]]
  BY DEF Value
<1>2. w.exp = [v.exp EXCEPT ![m] = [v.exp[m] EXCEPT ![k] = @ + 1]]
  BY <1>1 DEF Raise
<1>3. Uses(v, m) = {}
  BY DEF Once
<1>4. \A i \in Gens : v.exp[m][i] = 0
  BY <1>3 DEF Uses
<1>5. \A i \in Gens : w.exp[m][i] = IF i = k THEN 1 ELSE 0
  BY <1>1, <1>2, <1>4
<1>6. \A p \in Pos \ {m} : w.exp[p] = v.exp[p]
  BY <1>1, <1>2
<1> HIDE DEF w, k
<1>7. Uses(w, m) = {k} /\ w.exp[m][k] = 1 /\ k \in Gens
  BY <1>5 DEF Uses, k
<1>8. \A p \in Pos \ {m} : Uses(w, p) = Uses(v, p)
  BY <1>6 DEF Uses
<1>9. Once(w, S \cup {m})
  BY <1>6, <1>7, <1>8 DEF Once
<1> QED
  BY <1>9 DEF w

LEMMA PublicOnce ==
  ASSUME NEW m \in Pos, NEW params \in Params, params.nth \in Gens
  PROVE  Once(Public(m, params), {m})
<1>1. Base(params.mod) \in Value
  BY BaseType DEF Params
<1>2. Once(Raise(Base(params.mod), m, params), {} \cup {m})
  BY <1>1, BaseOnce, RaiseOnce
<1> QED
  BY <1>2 DEF Public

-----------------------------------------------------------------------------
(* What a step sends and what it stores.                                   *)

Elems(q) == {q[i] : i \in DOMAIN q}

LEMMA TailElems ==
  ASSUME NEW T, NEW q \in Seq(T), q # <<>>
  PROVE  Elems(Tail(q)) \subseteq Elems(q) /\ Head(q) \in Elems(q)
<1>1. \A i \in DOMAIN Tail(q) : i + 1 \in DOMAIN q /\ Tail(q)[i] = q[i + 1]
  OBVIOUS
<1>2. Head(q) = q[1] /\ 1 \in DOMAIN q
  OBVIOUS
<1> QED
  BY <1>1, <1>2 DEF Elems

LEMMA AppendElems ==
  ASSUME NEW T, NEW q \in Seq(T), NEW x \in T
  PROVE  Elems(Append(q, x)) \subseteq Elems(q) \cup {x}
<1>1. \A i \in DOMAIN Append(q, x) :
        IF i \in DOMAIN q THEN Append(q, x)[i] = q[i] ELSE Append(q, x)[i] = x
  OBVIOUS
<1> QED
  BY <1>1 DEF Elems

(* The inboxes after a step, but for one message.                          *)
NothingNew == \A p \in Pos : Elems(inbox'[p]) \subseteq Elems(inbox[p])
OnlyNew(pk) == \A p \in Pos : Elems(inbox'[p]) \subseteq Elems(inbox[p]) \cup {pk}

LEMMA BroadcastNew ==
  ASSUME TypeOK, NEW m \in Pos, NEW msg \in Messages, Broadcast(m, msg)
  PROVE  OnlyNew([msg |-> msg, from |-> m])
<1> DEFINE pk == [msg |-> msg, from |-> m]
<1>1. pk \in Packets
  BY DEF Packets
<1>2. ASSUME NEW p \in Pos
      PROVE  Elems(inbox'[p]) \subseteq Elems(inbox[p]) \cup {pk}
  <2>1. inbox[p] \in Seq(Packets)
    BY DEF TypeOK
  <2>2. inbox'[p] = inbox[p] \/ inbox'[p] = Append(inbox[p], pk)
    BY DEF Broadcast
  <2> HIDE DEF pk
  <2> QED
    BY <1>1, <2>1, <2>2, AppendElems
<1> QED
  BY <1>2 DEF OnlyNew

LEMMA ReadsNew ==
  ASSUME TypeOK, NEW m \in Pos, Reads(m)
  PROVE  NothingNew /\ Packet(m) \in Elems(inbox[m])
<1>1. inbox[m] \in Seq(Packets) /\ inbox[m] # <<>>
  BY DEF TypeOK, Reads
<1>2. Elems(Tail(inbox[m])) \subseteq Elems(inbox[m]) /\ Head(inbox[m]) \in Elems(inbox[m])
  BY <1>1, TailElems
<1>3. ASSUME NEW p \in Pos
      PROVE  Elems(inbox'[p]) \subseteq Elems(inbox[p])
  BY <1>2 DEF Reads, TypeOK
<1> QED
  BY <1>2, <1>3 DEF NothingNew, Packet

LEMMA EnvironmentNew ==
  ASSUME TypeOK, NEW m \in Pos, Environment(m)
  PROVE  NothingNew
<1>1. inbox[m] \in Seq(Packets)
  BY DEF TypeOK
<1>2. CASE Resend(m)
  <2>1. PICK i \in DOMAIN inbox[m] : inbox' = [inbox EXCEPT ![m] = Append(@, inbox[m][i])]
    BY <1>2 DEF Resend
  <2>2. inbox[m][i] \in Packets /\ inbox[m][i] \in Elems(inbox[m])
    BY <1>1 DEF Elems
  <2>3. Elems(Append(inbox[m], inbox[m][i])) \subseteq Elems(inbox[m])
    BY <1>1, <2>2, AppendElems
  <2> QED
    BY <2>1, <2>3 DEF NothingNew, TypeOK
<1>3. CASE Lose(m)
  <2>1. Elems(Tail(inbox[m])) \subseteq Elems(inbox[m])
    BY <1>1, <1>3, TailElems DEF Lose
  <2> QED
    BY <1>3, <2>1 DEF Lose, NothingNew, TypeOK
<1>4. CASE Restart(m)
  <2>1. Elems(<<>>) = {}
    BY DEF Elems
  <2> QED
    BY <1>4, <2>1 DEF Restart, NothingNew, TypeOK
<1> QED
  BY <1>2, <1>3, <1>4 DEF Environment

(* A row after a step is one there was, but for its status, or the key the
   worker has just formed.                                                 *)
LEMMA NewRows ==
  ASSUME TypeOK, NoEmptyParams, [Next]_vars, NEW m \in Pos, NEW r \in Rows(m)'
  PROVE  \/ \E q \in Rows(m) : q.n = r.n /\ q.key = r.key
         \/ FormSolo(m) /\ r = Row(cur[m].n, SoloKey(m), InUse)
         \/ FormFinish(m) /\ r = Row(cur[m].n, Multi(m), InUse)
<1>1. PICK i \in DOMAIN aes'[m] : r = aes'[m][i]
  BY DEF Rows
<1>2. CASE i \in DOMAIN aes[m]
  <2>1. aes'[m][i].n = aes[m][i].n /\ aes'[m][i].key = aes[m][i].key
    <3>1. CASE aes'[m][i] = aes[m][i]
      BY <3>1
    <3>2. CASE aes'[m][i] = Row(aes[m][i].n, aes[m][i].key, Outdated)
      BY <3>2 DEF Row
    <3> QED
      BY <1>2, <3>1, <3>2, StepOnRows
  <2> QED
    BY <1>1, <1>2, <2>1 DEF Rows
<1>3. CASE i \notin DOMAIN aes[m]
  <2>1. aes[m] \in Seq(KeyRows) /\ cur[m].n \in 0 .. MaxKeyN
    BY DEF TypeOK, Messages
  <2>2. ~UNCHANGED aes
    BY <1>3
  <2>3. ASSUME NEW p \in Pos
        PROVE  ~Disables(p)
    BY <1>3, <2>1, TableKept DEF Disables, DisableOtherKeys, TypeOK
  <2>4. PICK p \in Pos : FormSolo(p) \/ FormFinish(p)
    <3>1. PICK p \in Pos : User(p) \/ Lifecycle(p) \/ Dispatch(p) \/ Worker(p) \/ Environment(p)
      BY <2>2 DEF Next, vars
    <3>2. ~(User(p) \/ Lifecycle(p) \/ Dispatch(p))
      BY <2>2, <2>3
      DEF User, PressStart, PressStop, Lifecycle, TimerStop, Joined, Dispatch,
          DispatchForming, DispatchEnding, DispatchOther, Disables
    <3>3. ~(Take(p) \/ InitRsa(p) \/ RsaStage(p) \/ AesInitStage(p) \/ FormBegin(p)
            \/ FormForward(p) \/ FormIgnore(p) \/ EndKeyForming(p) \/ Environment(p))
      BY <2>2
      DEF Take, InitRsa, RsaStage, RsaPublish, RsaListen, AesInitStage, AesInitSend,
          AesInitReceive, FormBegin, FormForward, FormIgnore, EndKeyForming,
          Environment, Resend, Lose, Restart
    <3> QED
      BY <3>1, <3>2, <3>3 DEF Worker, FormStage
  <2>5. CASE FormSolo(p)
    <3>1. p = m
      BY <1>3, <2>5 DEF FormSolo, Store, TypeOK
    <3>2. aes'[m] = AddAesKey(aes[m], cur[m].n, SoloKey(m))
      BY <2>5, <3>1 DEF FormSolo, Store, TypeOK
    <3>3. SoloKey(m) \in Value
      <4>1. gen[m] \in Gens
        BY <2>5, <3>1, BoundsAssumption DEF FormSolo, Generate, TypeOK, Gens
      <4>2. NewParams(m, {}) \in Params
        BY <4>1 DEF NewParams, Params
      <4> QED
        BY <4>2, PublicType DEF SoloKey
    <3>4. aes'[m][i] = Row(cur[m].n, SoloKey(m), InUse)
      BY <1>3, <2>1, <3>2, <3>3, AddedRow
    <3> QED
      BY <1>1, <2>5, <3>1, <3>4
  <2>6. CASE FormFinish(p)
    <3>1. p = m
      BY <1>3, <2>6 DEF FormFinish, Store, TypeOK
    <3>2. aes'[m] = AddAesKey(aes[m], cur[m].n, Multi(m))
      BY <2>6, <3>1 DEF FormFinish, Store, TypeOK
    <3>3. Multi(m) \in Value
      BY RaiseType DEF TypeOK, Messages, Multi
    <3>4. aes'[m][i] = Row(cur[m].n, Multi(m), InUse)
      BY <1>3, <2>1, <3>2, <3>3, AddedRow
    <3> QED
      BY <1>1, <2>6, <3>1, <3>4
  <2> QED
    BY <2>4, <2>5, <2>6
<1> QED
  BY <1>2, <1>3

-----------------------------------------------------------------------------
(* The ring: what a value was raised to is where it has been.              *)

RingPacket(pk) == pk.msg.kind = "aesForm" =>
  /\ pk.from # pk.msg.last
  /\ Once(pk.msg.key, Arc(pk.msg.last, pk.from))

InboxRing == \A p \in Pos : \A pk \in Elems(inbox[p]) : RingPacket(pk)

(* The mailbox of a member, and what its worker took out of it.            *)
LocalRing(m) ==
  /\ RingPacket(mail[m])
  /\ pc[m] = "run" /\ cur[m].kind = "aesForm" => cur[m] = mail[m].msg

RingInv == InboxRing /\ (\A m \in Pos : LocalRing(m)) /\ RaisedOnce

LEMMA UntouchedRing ==
  ASSUME NEW m, LocalRing(m), UNCHANGED <<pc, mail, cur>>
  PROVE  LocalRing(m)'
  BY DEF LocalRing

(* It is a member's turn to handle a value: it has the value of the packet in
   its mailbox, which comes from the member before it.                     *)
LEMMA TurnHasValue ==
  ASSUME TypeOK, NEW m \in Pos, NumberFresh(m), LocalRing(m), At(m, "aesForm"),
         NEW snd \in SendersSeen(m), MyTurn(m, snd)
  PROVE  /\ snd \in Pos /\ snd = mail[m].from /\ m = (snd + 1) % N
         /\ cur[m].last \in Pos /\ cur[m].last # snd /\ cur[m].key \in Value
         /\ Once(cur[m].key, Arc(cur[m].last, snd))
<1>1. ~fresh[m] /\ pc[m] = "run"
  BY DEF At, NumberFresh
<1>2. snd = mail[m].from
  BY <1>1 DEF SendersSeen
<1>3. cur[m].kind = "aesForm" /\ m = (snd + 1) % N
  BY DEF MyTurn
<1>4. cur[m] = mail[m].msg /\ RingPacket(mail[m])
  BY <1>1, <1>3 DEF LocalRing
<1>5. mail[m].from # cur[m].last /\ Once(cur[m].key, Arc(cur[m].last, mail[m].from))
  BY <1>3, <1>4 DEF RingPacket
<1>6. mail[m].from \in Pos /\ cur[m].last \in Pos /\ cur[m].key \in Value
  BY DEF TypeOK, Packets, Messages
<1> QED
  BY <1>2, <1>3, <1>5, <1>6

(* What the stage of the key round sends is on the ring, and what it stores
   has been all around.                                                    *)
LEMMA FormRing ==
  ASSUME TypeOK, NoEmptyParams, NEW m \in Pos, NumberFresh(m), LocalRing(m)
  PROVE  /\ FormBegin(m) =>
              RingPacket([msg |-> Msg("aesForm", cur[m].n, N - 1, Public(m, dh[m])), from |-> m])
         /\ FormFinish(m) => Once(Multi(m), Pos)
         /\ FormFinish(m) /\ m # 0 =>
              RingPacket([msg |-> Msg("aesForm", cur[m].n, m - 1, Public(m, dh[m])), from |-> m])
         /\ FormForward(m) =>
              RingPacket([msg |-> Msg("aesForm", cur[m].n, cur[m].last, Multi(m)), from |-> m])
<1>1. dh[m] \in Params
  BY DEF TypeOK
<1>2. At(m, "aesForm") => dh[m].nth \in Gens
  BY DEF At, NoEmptyParams
<1>3. At(m, "aesForm") => Once(Public(m, dh[m]), {m})
  BY <1>1, <1>2, PublicOnce
<1>4. ASSUME FormBegin(m)
      PROVE  RingPacket([msg |-> Msg("aesForm", cur[m].n, N - 1, Public(m, dh[m])), from |-> m])
  <2>1. m = 0 /\ N > 1 /\ At(m, "aesForm")
    BY <1>4 DEF FormBegin, Begins
  <2>2. Arc(N - 1, 0) = {0} /\ N - 1 # 0
    BY <2>1, ArcBegin, NAssumption
  <2> QED
    BY <1>3, <2>1, <2>2 DEF RingPacket, Msg
<1>5. ASSUME FormFinish(m)
      PROVE  Once(Multi(m), Pos)
  <2>1. At(m, "aesForm") /\ N > 1 /\ cur[m].last = m
    BY <1>5 DEF FormFinish
  <2>2. PICK snd \in SendersSeen(m) : MyTurn(m, snd)
    BY <1>5 DEF FormFinish
  <2>3. /\ snd \in Pos /\ m = (snd + 1) % N /\ cur[m].key \in Value
        /\ Once(cur[m].key, Arc(m, snd))
    BY <2>1, <2>2, TurnHasValue
  <2>4. Arc(m, snd) = Pos \ {m}
    BY <2>1, <2>3, ArcFinish
  <2>5. Once(Multi(m), (Pos \ {m}) \cup {m})
    BY <1>1, <1>2, <2>1, <2>3, <2>4, RaiseOnce DEF Multi
  <2>6. (Pos \ {m}) \cup {m} = Pos
    OBVIOUS
  <2> QED
    BY <2>5, <2>6
<1>6. ASSUME FormFinish(m), m # 0
      PROVE  RingPacket([msg |-> Msg("aesForm", cur[m].n, m - 1, Public(m, dh[m])), from |-> m])
  <2>1. Arc(m - 1, m) = {m} /\ m - 1 # m
    BY <1>6, ArcAgain DEF Pos
  <2> QED
    BY <1>3, <1>6, <2>1 DEF FormFinish, RingPacket, Msg
<1>7. ASSUME FormForward(m)
      PROVE  RingPacket([msg |-> Msg("aesForm", cur[m].n, cur[m].last, Multi(m)), from |-> m])
  <2>1. At(m, "aesForm") /\ N > 1 /\ cur[m].last # m
    BY <1>7 DEF FormForward
  <2>2. PICK snd \in SendersSeen(m) : MyTurn(m, snd)
    BY <1>7 DEF FormForward
  <2>3. /\ snd \in Pos /\ m = (snd + 1) % N /\ cur[m].key \in Value
        /\ cur[m].last \in Pos /\ cur[m].last # snd
        /\ Once(cur[m].key, Arc(cur[m].last, snd))
    BY <2>1, <2>2, TurnHasValue
  <2>4. /\ Arc(cur[m].last, snd) \in SUBSET Pos /\ m \notin Arc(cur[m].last, snd)
        /\ Arc(cur[m].last, m) = Arc(cur[m].last, snd) \cup {m}
    BY <2>1, <2>3, ArcForward
  <2>5. Once(Multi(m), Arc(cur[m].last, snd) \cup {m})
    BY <1>1, <1>2, <2>1, <2>3, <2>4, RaiseOnce DEF Multi
  <2> QED
    BY <2>1, <2>4, <2>5 DEF RingPacket, Msg
<1> QED
  BY <1>4, <1>5, <1>6, <1>7

(* A message that is no value of the key round is on the ring.             *)
LEMMA OtherRing ==
  ASSUME NEW kind \in Kinds \ {"aesForm"}, NEW n, NEW last, NEW key, NEW from
  PROVE  RingPacket([msg |-> Msg(kind, n, last, key), from |-> from])
  BY DEF RingPacket, Msg

(* Every inbox after a step.                                               *)
LEMMA UserInbox ==
  ASSUME TypeOK, InboxRing, NEW m \in Pos,
         User(m) \/ Lifecycle(m) \/ Dispatch(m) \/ Environment(m)
  PROVE  InboxRing'
<1>1. ASSUME Broadcast(m, EndEncryptionMsg)
      PROVE  InboxRing'
  <2>1. OnlyNew([msg |-> EndEncryptionMsg, from |-> m])
    BY <1>1, NoneType, BroadcastNew
  <2>2. RingPacket([msg |-> EndEncryptionMsg, from |-> m])
    BY OtherRing DEF EndEncryptionMsg, Kinds
  <2> QED
    BY <2>1, <2>2 DEF OnlyNew, InboxRing
<1>2. ASSUME NothingNew
      PROVE  InboxRing'
  BY <1>2 DEF NothingNew, InboxRing
<1>3. CASE User(m) \/ Lifecycle(m)
  <2>1. Broadcast(m, EndEncryptionMsg) \/ UNCHANGED inbox
    BY <1>3 DEF User, Lifecycle, PressStart, PressStop, TimerStop, Joined, net
  <2> QED
    BY <1>1, <2>1 DEF InboxRing
<1>4. CASE Dispatch(m)
  <2>1. Reads(m)
    BY <1>4 DEF Dispatch, DispatchForming, DispatchEnding, DispatchOther
  <2> QED
    BY <1>2, <2>1, ReadsNew
<1>5. CASE Environment(m)
  BY <1>2, <1>5, EnvironmentNew
<1> QED
  BY <1>3, <1>4, <1>5

LEMMA WorkerInbox ==
  ASSUME TypeOK, NoEmptyParams, InboxRing, NEW m \in Pos, NumberFresh(m), LocalRing(m), Worker(m)
  PROVE  InboxRing'
<1>1. ASSUME NEW msg \in Messages, Broadcast(m, msg), RingPacket([msg |-> msg, from |-> m])
      PROVE  InboxRing'
  BY <1>1, BroadcastNew DEF OnlyNew, InboxRing
<1>2. cur[m].n \in 0 .. MaxKeyN /\ cur[m].last \in Pos /\ cur[m].key \in Value /\ dh[m] \in Params
  BY DEF TypeOK, Messages
<1>3. CASE UNCHANGED inbox
  BY <1>3 DEF InboxRing
<1>4. ASSUME NEW kind \in Kinds \ {"aesForm"}, NEW n \in 0 .. MaxKeyN, NEW mod \in SUBSET Gens,
             Broadcast(m, Msg(kind, n, m, Base(mod)))
      PROVE  InboxRing'
  BY <1>1, <1>4, MsgType, BaseType, OtherRing
<1>0. {} \in SUBSET Gens
  OBVIOUS
<1>5. CASE InitRsa(m)
  <2>1. Last(m) + 1 \in 0 .. MaxKeyN
    BY <1>5, LastType, BoundsAssumption DEF InitRsa, Last, TypeOK
  <2>2. Broadcast(m, Msg("rsaInit", Last(m) + 1, m, Base({})))
    BY <1>5 DEF InitRsa
  <2>3. "rsaInit" \in Kinds \ {"aesForm"}
    BY DEF Kinds
  <2> QED
    BY <1>0, <1>4, <2>1, <2>2, <2>3
<1>6. CASE RsaPublish(m) \/ EndKeyForming(m)
  <2>1. PICK kind \in {"rsaForm", "endForming"} : Broadcast(m, Msg(kind, cur[m].n, m, Base({})))
    BY <1>6 DEF RsaPublish, EndKeyForming
  <2>2. kind \in Kinds \ {"aesForm"}
    BY DEF Kinds
  <2> QED
    BY <1>0, <1>2, <1>4, <2>1, <2>2
<1>7. CASE AesInitSend(m)
  <2>1. gen[m] \in Gens
    BY <1>7, BoundsAssumption DEF AesInitSend, NewDh, Generate, TypeOK, Gens
  <2> QED
    BY <1>2, <1>4, <1>7, <2>1 DEF AesInitSend, Kinds
<1>8. ASSUME NEW last \in Pos, NEW key \in Value, Send(m, last, key),
             RingPacket([msg |-> Msg("aesForm", cur[m].n, last, key), from |-> m])
      PROVE  InboxRing'
  <2>1. Msg("aesForm", cur[m].n, last, key) \in Messages
    BY <1>2, MsgType DEF Kinds
  <2> QED
    BY <1>1, <1>8, <2>1 DEF Send
<1>9. Public(m, dh[m]) \in Value /\ Multi(m) \in Value
  BY <1>2, PublicType, RaiseType DEF Multi
<1>10. CASE FormBegin(m)
  <2>1. N - 1 \in Pos
    BY NAssumption DEF Pos
  <2> QED
    BY <1>8, <1>9, <1>10, <2>1, FormRing DEF FormBegin
<1>11. CASE FormFinish(m)
  <2>1. CASE m = 0
    BY <1>3, <1>11, <2>1 DEF FormFinish, KeyRoundEnds
  <2>2. CASE m # 0
    <3>1. m - 1 \in Pos
      BY <2>2, NAssumption DEF Pos
    <3>2. Send(m, m - 1, Public(m, dh[m]))
      BY <1>11, <2>2 DEF FormFinish, KeyRoundEnds
    <3> QED
      BY <1>8, <1>9, <1>11, <2>2, <3>1, <3>2, FormRing
  <2> QED
    BY <2>1, <2>2
<1>12. CASE FormForward(m)
  BY <1>2, <1>8, <1>9, <1>12, FormRing DEF FormForward
<1>13. CASE Take(m) \/ RsaListen(m) \/ AesInitReceive(m) \/ FormSolo(m) \/ FormIgnore(m)
  BY <1>3, <1>13 DEF Take, RsaListen, AesInitReceive, FormSolo, FormIgnore, net
<1> QED
  BY <1>5, <1>6, <1>7, <1>10, <1>11, <1>12, <1>13 DEF Worker, RsaStage, AesInitStage, FormStage

(* The mailbox and the worker after a step.                                *)
LEMMA LocalStep ==
  ASSUME Prompt, TypeOK, InboxRing, NEW m \in Pos, LocalRing(m),
         User(m) \/ Lifecycle(m) \/ Dispatch(m) \/ Worker(m) \/ Environment(m)
  PROVE  LocalRing(m)'
<1>1. ASSUME NEW st, NEW packet, RingPacket(packet), StartWith(m, st, packet)
      PROVE  LocalRing(m)'
  <2>1. pc'[m] = "wait" /\ mail'[m] = packet
    BY <1>1 DEF StartWith, TypeOK
  <2> QED
    BY <1>1, <2>1 DEF LocalRing
<1>2. RingPacket([msg |-> NoMsg, from |-> m])
  BY OtherRing DEF NoMsg, Kinds
<1>3. CASE UNCHANGED <<pc, mail, cur>>
  BY <1>3, UntouchedRing
<1>4. CASE pc'[m] = "wait" /\ UNCHANGED <<mail, cur>>
  BY <1>4 DEF LocalRing
<1>5. CASE User(m) \/ Lifecycle(m)
  <2>1. CASE \E st, packet : StartWith(m, st, packet) /\ packet = [msg |-> NoMsg, from |-> m]
    BY <1>1, <1>2, <2>1
  <2>2. CASE pc'[m] = "off" /\ UNCHANGED <<mail, cur>>
    BY <2>2 DEF LocalRing
  <2> QED
    BY <1>3, <1>5, <2>1, <2>2
    DEF User, Lifecycle, PressStart, PressStop, TimerStop, Joined, box, TypeOK
<1>6. CASE DispatchForming(m)
  <2>1. RingPacket(Packet(m)) /\ pc[m] # "run"
    BY <1>6, ReadsNew DEF DispatchForming, Reads, InboxRing
  <2>2. CASE started[m]
    <3>1. mail'[m] = Packet(m) /\ UNCHANGED <<pc, cur>>
      BY <1>6, <2>2 DEF DispatchForming, AddInfo, TypeOK
    <3> QED
      BY <2>1, <3>1 DEF LocalRing
  <2>3. CASE ~started[m]
    BY <1>1, <1>6, <2>1, <2>3 DEF DispatchForming
  <2> QED
    BY <2>2, <2>3
<1>7. CASE DispatchEnding(m) \/ DispatchOther(m)
  BY <1>3, <1>7 DEF DispatchEnding, DispatchOther, box
<1>8. CASE Take(m)
  BY <1>8 DEF Take, LocalRing, TypeOK
<1>9. CASE InitRsa(m) \/ AesInitSend(m)
  <2>1. cur'[m].kind \in {"rsaInit", "aesInit"} /\ UNCHANGED mail
    BY <1>9 DEF InitRsa, AesInitSend, Msg, TypeOK, box
  <2> QED
    BY <2>1 DEF LocalRing
<1>10. CASE RsaStage(m) \/ AesInitReceive(m) \/ FormStage(m) \/ EndKeyForming(m)
  <2>1. UNCHANGED <<mail, cur>> /\ (StayAt(m) \/ \E st : GoTo(m, st))
    BY <1>10 DEF RsaStage, RsaPublish, RsaListen, AesInitReceive, FormStage, FormSolo, FormBegin,
                 FormFinish, FormForward, FormIgnore, EndKeyForming, box
  <2> QED
    BY <1>3, <1>4, <2>1 DEF StayAt, GoTo, TypeOK
<1>11. CASE Resend(m) \/ Lose(m)
  BY <1>3, <1>11 DEF Resend, Lose, box
<1>12. CASE Restart(m)
  <2>1. pc'[m] = "off" /\ mail'[m] = [msg |-> NoMsg, from |-> m]
    BY <1>12 DEF Restart, TypeOK
  <2> QED
    BY <1>2, <2>1 DEF LocalRing
<1> QED
  BY <1>5, <1>6, <1>7, <1>8, <1>9, <1>10, <1>11, <1>12
  DEF Dispatch, Worker, AesInitStage, Environment

LEMMA RingStep ==
  ASSUME Prompt, TypeOK, NoEmptyParams, NumberInv, RingInv, [Next]_vars
  PROVE  RingInv'
<1>1. CASE UNCHANGED vars
  <2>1. InboxRing' /\ \A m \in Pos : LocalRing(m)'
    BY <1>1 DEF vars, RingInv, InboxRing, LocalRing
  <2>2. RaisedOnce'
    BY <1>1 DEF vars, RingInv, RaisedOnce, Rows, Uses
  <2> QED
    BY <2>1, <2>2 DEF RingInv
<1>2. ASSUME NEW m \in Pos,
             User(m) \/ Lifecycle(m) \/ Dispatch(m) \/ Worker(m) \/ Environment(m)
      PROVE  RingInv'
  <2>1. InboxRing'
    BY <1>2, UserInbox, WorkerInbox DEF RingInv, NumberInv
  <2>2. LocalRing(m)'
    BY <1>2, LocalStep DEF RingInv
  <2>3. OthersUntouched(m)
    BY <1>2, UserNumbers, DispatchNumbers, WorkerNumbers, EnvironmentNumbers DEF NumberInv
  <2>4. \A p \in Pos \ {m} : LocalRing(p)'
    BY <2>3 DEF OthersUntouched, RingInv, LocalRing
  <2>5. ASSUME NEW p \in Pos, NEW r \in Rows(p)'
        PROVE  Once(r.key, Pos)
    <3>1. CASE \E q \in Rows(p) : q.n = r.n /\ q.key = r.key
      BY <3>1 DEF RingInv, RaisedOnce, Once
    <3>2. CASE FormSolo(p) /\ r = Row(cur[p].n, SoloKey(p), InUse)
      <4>1. gen[p] \in Gens /\ N = 1
        BY <3>2, BoundsAssumption DEF FormSolo, Generate, TypeOK, Gens
      <4>2. NewParams(p, {}) \in Params /\ NewParams(p, {}).nth \in Gens
        BY <4>1 DEF NewParams, Params
      <4>3. Once(SoloKey(p), {p})
        BY <4>2, PublicOnce DEF SoloKey
      <4>4. {p} = Pos
        BY <4>1 DEF Pos
      <4>5. r.key = SoloKey(p)
        BY <3>2 DEF Row
      <4> QED
        BY <4>3, <4>4, <4>5
    <3>3. CASE FormFinish(p) /\ r = Row(cur[p].n, Multi(p), InUse)
      BY <3>3, FormRing DEF RingInv, NumberInv, Row
    <3> QED
      BY <3>1, <3>2, <3>3, NewRows
  <2>6. RaisedOnce'
    BY <2>5 DEF RaisedOnce, Once
  <2> QED
    BY <2>1, <2>2, <2>4, <2>6 DEF RingInv
<1> QED
  BY <1>1, <1>2 DEF Next

LEMMA RingCorrect == Prompt => (Spec => []RingInv)
<1>1. Init => RingInv
  <2> SUFFICES ASSUME Init
               PROVE  RingInv
    OBVIOUS
  <2>1. InboxRing
    BY DEF Init, InboxRing, Elems
  <2>2. \A m \in Pos : LocalRing(m)
    BY OtherRing DEF Init, LocalRing, NoMsg, Kinds
  <2>3. RaisedOnce
    BY DEF Init, RaisedOnce, Rows
  <2> QED
    BY <2>1, <2>2, <2>3 DEF RingInv
<1>2. ASSUME Prompt PROVE Spec => []RingInv
  <2>1. TypeOK /\ NoEmptyParams /\ NumberInv /\ RingInv /\ [Next]_vars => RingInv'
    BY <1>2, RingStep
  <2>2. Spec => []NumberInv
    BY <1>2, NumbersCorrect
  <2> QED
    BY <1>1, <2>1, <2>2, TypeCorrect, ParamsPresent, PTL DEF Spec
<1> QED
  BY <1>2

(* Every stored key was raised exactly once to an exponent of every member,
   however many exchanges there are, overtake each other, lose messages or
   start again, if a message finds the worker done with the one before it.  *)
THEOREM EveryMemberOnce == Prompt => (Spec => []RaisedOnce)
<1>1. RingInv => RaisedOnce
  BY DEF RingInv
<1>2. ASSUME Prompt PROVE Spec => []RaisedOnce
  BY <1>1, <1>2, RingCorrect, PTL
<1> QED
  BY <1>2

-----------------------------------------------------------------------------
(* Everything that is under way to a member: in its inbox, in its mailbox and *)
(* not yet taken, or in the hands of its worker.                           *)

Numbers == 0 .. MaxKeyN

StepOf(m) == User(m) \/ Lifecycle(m) \/ Dispatch(m) \/ Worker(m) \/ Environment(m)

InHand(m) == [msg |-> cur[m], from |-> mail[m].from]
UnderWay(m, pk) ==
  \/ pk \in Elems(inbox[m])
  \/ fresh[m] /\ pk = mail[m]
  \/ pc[m] = "run" /\ pk = InHand(m)

LEMMA UnderWayType ==
  ASSUME TypeOK, NEW m \in Pos, NEW pk, UnderWay(m, pk)
  PROVE  /\ pk \in Packets /\ pk.msg \in Messages /\ pk.from \in Pos
         /\ pk.msg.n \in 0 .. MaxKeyN /\ pk.msg.last \in Pos /\ pk.msg.key \in Value
<1>1. inbox[m] \in Seq(Packets) /\ mail[m] \in Packets /\ cur[m] \in Messages /\ mail[m].from \in Pos
  BY DEF TypeOK, Packets
<1>2. InHand(m) \in Packets
  BY <1>1 DEF InHand, Packets
<1>3. pk \in Packets
  BY <1>1, <1>2 DEF UnderWay, Elems
<1> QED
  BY <1>3 DEF Packets, Messages

(* What a member sends, and when.                                          *)
Sends(m, msg) ==
  \/ msg = EndEncryptionMsg
  \/ InitRsa(m) /\ msg = Msg("rsaInit", Last(m) + 1, m, Base({}))
  \/ RsaPublish(m) /\ msg = Msg("rsaForm", cur[m].n, m, Base({}))
  \/ AesInitSend(m) /\ msg = Msg("aesInit", cur[m].n, m, Base({gen[m]}))
  \/ FormBegin(m) /\ msg = Msg("aesForm", cur[m].n, N - 1, Public(m, dh[m]))
  \/ FormFinish(m) /\ m # 0 /\ msg = Msg("aesForm", cur[m].n, m - 1, Public(m, dh[m]))
  \/ FormForward(m) /\ msg = Msg("aesForm", cur[m].n, cur[m].last, Multi(m))
  \/ EndKeyForming(m) /\ msg = Msg("endForming", cur[m].n, m, Base({}))

LEMMA SendsType ==
  ASSUME TypeOK, NEW m \in Pos, NEW msg, Sends(m, msg)
  PROVE  msg \in Messages
<1>1. /\ cur[m].n \in 0 .. MaxKeyN /\ cur[m].last \in Pos /\ cur[m].key \in Value
      /\ dh[m] \in Params
  BY DEF TypeOK, Messages
<1>2. Public(m, dh[m]) \in Value /\ Multi(m) \in Value /\ Base({}) \in Value
  BY <1>1, PublicType, RaiseType, BaseType DEF Multi
<1>3. {"rsaInit", "rsaForm", "aesInit", "aesForm", "endForming"} \subseteq Kinds
  BY DEF Kinds
<1>4. CASE InitRsa(m) /\ msg = Msg("rsaInit", Last(m) + 1, m, Base({}))
  <2>1. Last(m) + 1 \in 0 .. MaxKeyN
    BY <1>4, LastType, BoundsAssumption DEF InitRsa, Last, TypeOK
  <2> QED
    BY <1>2, <1>3, <1>4, <2>1, MsgType
<1>5. CASE AesInitSend(m) /\ msg = Msg("aesInit", cur[m].n, m, Base({gen[m]}))
  <2>1. gen[m] \in Gens
    BY <1>5, BoundsAssumption DEF AesInitSend, NewDh, Generate, TypeOK, Gens
  <2>2. Base({gen[m]}) \in Value
    BY <2>1, BaseType
  <2> QED
    BY <1>1, <1>3, <1>5, <2>2, MsgType
<1>6. CASE FormFinish(m) /\ m # 0 /\ msg = Msg("aesForm", cur[m].n, m - 1, Public(m, dh[m]))
  <2>1. m - 1 \in Pos
    BY <1>6, NAssumption DEF Pos
  <2> QED
    BY <1>1, <1>2, <1>3, <1>6, <2>1, MsgType
<1>7. N - 1 \in Pos
  BY NAssumption DEF Pos
<1> QED
  BY <1>1, <1>2, <1>3, <1>4, <1>5, <1>6, <1>7, MsgType, NoneType DEF Sends

(* The inboxes after a step: nothing came, and the member that took it may have
   lost or read something, or one message of that member came.             *)
Quieter(m) == /\ NothingNew
              /\ \A p \in Pos \ {m} : inbox'[p] = inbox[p]
              /\ \/ Resend(m) \/ inbox'[m] = inbox[m] \/ inbox'[m] = <<>>
                 \/ inbox[m] # <<>> /\ inbox'[m] = Tail(inbox[m])
Arrives(m) == Quieter(m) \/ \E msg \in Messages : /\ Sends(m, msg) /\ Broadcast(m, msg)
                                                  /\ OnlyNew([msg |-> msg, from |-> m])

LEMMA StepArrives ==
  ASSUME TypeOK, NEW m \in Pos, StepOf(m)
  PROVE  Arrives(m)
<1>1. ASSUME NEW msg, Sends(m, msg), Broadcast(m, msg)
      PROVE  Arrives(m)
  <2>1. msg \in Messages
    BY <1>1, SendsType
  <2>2. OnlyNew([msg |-> msg, from |-> m])
    BY <1>1, <2>1, BroadcastNew
  <2> QED
    BY <1>1, <2>1, <2>2 DEF Arrives
<1>2. ASSUME UNCHANGED inbox
      PROVE  Arrives(m)
  BY <1>2 DEF Arrives, NothingNew, Quieter
<1>3. CASE User(m) \/ Lifecycle(m)
  <2>1. Broadcast(m, EndEncryptionMsg) \/ UNCHANGED inbox
    BY <1>3 DEF User, Lifecycle, PressStart, PressStop, TimerStop, Joined, net
  <2> QED
    BY <1>1, <1>2, <2>1 DEF Sends
<1>4. CASE Dispatch(m)
  <2>1. Reads(m)
    BY <1>4 DEF Dispatch, DispatchForming, DispatchEnding, DispatchOther
  <2>2. /\ \A p \in Pos \ {m} : inbox'[p] = inbox[p]
        /\ inbox[m] # <<>> /\ inbox'[m] = Tail(inbox[m])
    BY <2>1 DEF Reads, TypeOK
  <2> QED
    BY <2>1, <2>2, ReadsNew DEF Arrives, Quieter
<1>5. CASE Environment(m)
  <2>1. CASE Resend(m)
    <3>1. \A p \in Pos \ {m} : inbox'[p] = inbox[p]
      BY <2>1 DEF Resend, TypeOK
    <3> QED
      BY <1>5, <2>1, <3>1, EnvironmentNew DEF Arrives, Quieter
  <2>2. CASE Lose(m)
    <3>1. /\ \A p \in Pos \ {m} : inbox'[p] = inbox[p]
          /\ inbox[m] # <<>> /\ inbox'[m] = Tail(inbox[m])
      BY <2>2 DEF Lose, TypeOK
    <3> QED
      BY <1>5, <3>1, EnvironmentNew DEF Arrives, Quieter
  <2>3. CASE Restart(m)
    <3>1. /\ \A p \in Pos \ {m} : inbox'[p] = inbox[p]
          /\ inbox'[m] = <<>>
      BY <2>3 DEF Restart, TypeOK
    <3> QED
      BY <1>5, <3>1, EnvironmentNew DEF Arrives, Quieter
  <2> QED
    BY <1>5, <2>1, <2>2, <2>3 DEF Environment
<1>6. CASE Take(m) \/ RsaListen(m) \/ AesInitReceive(m) \/ FormSolo(m) \/ FormIgnore(m)
  BY <1>2, <1>6 DEF Take, RsaListen, AesInitReceive, FormSolo, FormIgnore, net
<1>7. CASE InitRsa(m)
  <2>1. Broadcast(m, Msg("rsaInit", Last(m) + 1, m, Base({})))
    BY <1>7 DEF InitRsa
  <2> QED
    BY <1>1, <1>7, <2>1 DEF Sends
<1>8. CASE RsaPublish(m)
  <2>1. Broadcast(m, Msg("rsaForm", cur[m].n, m, Base({})))
    BY <1>8 DEF RsaPublish
  <2> QED
    BY <1>1, <1>8, <2>1 DEF Sends
<1>9. CASE AesInitSend(m)
  <2>1. Broadcast(m, Msg("aesInit", cur[m].n, m, Base({gen[m]})))
    BY <1>9 DEF AesInitSend
  <2> QED
    BY <1>1, <1>9, <2>1 DEF Sends
<1>10. CASE FormBegin(m)
  <2>1. Broadcast(m, Msg("aesForm", cur[m].n, N - 1, Public(m, dh[m])))
    BY <1>10 DEF FormBegin, Send
  <2> QED
    BY <1>1, <1>10, <2>1 DEF Sends
<1>11. CASE FormFinish(m)
  <2>1. UNCHANGED inbox \/ (m # 0 /\ Broadcast(m, Msg("aesForm", cur[m].n, m - 1, Public(m, dh[m]))))
    BY <1>11 DEF FormFinish, Send, KeyRoundEnds
  <2> QED
    BY <1>1, <1>2, <1>11, <2>1 DEF Sends
<1>12. CASE FormForward(m)
  <2>1. Broadcast(m, Msg("aesForm", cur[m].n, cur[m].last, Multi(m)))
    BY <1>12 DEF FormForward, Send
  <2> QED
    BY <1>1, <1>12, <2>1 DEF Sends
<1>13. CASE EndKeyForming(m)
  <2>1. Broadcast(m, Msg("endForming", cur[m].n, m, Base({})))
    BY <1>13 DEF EndKeyForming
  <2> QED
    BY <1>1, <1>13, <2>1 DEF Sends
<1> QED
  BY <1>3, <1>4, <1>5, <1>6, <1>7, <1>8, <1>9, <1>10, <1>11, <1>12, <1>13
  DEF StepOf, Worker, RsaStage, AesInitStage, FormStage

(* What is new in the hands of a member after a step of its own.           *)
LEMMA HandStep ==
  ASSUME Prompt, TypeOK, NEW m \in Pos, StepOf(m)
  PROVE  /\ fresh'[m] => \/ fresh[m] /\ mail'[m] = mail[m]
                         \/ mail'[m] = [msg |-> NoMsg, from |-> m]
                         \/ DispatchForming(m) /\ mail'[m] = Packet(m)
         /\ pc'[m] = "run" =>
              /\ mail'[m] = mail[m]
              /\ \/ pc[m] = "run" /\ cur'[m] = cur[m]
                 \/ fresh[m] /\ cur'[m] = mail[m].msg
                 \/ InitRsa(m) /\ cur'[m] = Msg("rsaInit", Last(m) + 1, m, Base({}))
                 \/ AesInitSend(m) /\ cur'[m] = Msg("aesInit", cur[m].n, m, Base({gen[m]}))
<1> DEFINE Fresh == \/ fresh[m] /\ mail'[m] = mail[m]
                    \/ mail'[m] = [msg |-> NoMsg, from |-> m]
                    \/ DispatchForming(m) /\ mail'[m] = Packet(m)
           Run == /\ mail'[m] = mail[m]
                  /\ \/ pc[m] = "run" /\ cur'[m] = cur[m]
                     \/ fresh[m] /\ cur'[m] = mail[m].msg
                     \/ InitRsa(m) /\ cur'[m] = Msg("rsaInit", Last(m) + 1, m, Base({}))
                     \/ AesInitSend(m) /\ cur'[m] = Msg("aesInit", cur[m].n, m, Base({gen[m]}))
           Goal == (fresh'[m] => Fresh) /\ (pc'[m] = "run" => Run)
<1>1. CASE UNCHANGED <<mail, fresh, cur>> /\ (pc'[m] = pc[m] \/ pc'[m] # "run")
  <2>1. fresh'[m] => Fresh
    BY <1>1
  <2>2. pc'[m] = "run" => Run
    BY <1>1
  <2> QED
    BY <2>1, <2>2
<1>2. ASSUME NEW st, StartWith(m, st, [msg |-> NoMsg, from |-> m])
      PROVE  Goal
  <2>1. mail'[m] = [msg |-> NoMsg, from |-> m] /\ pc'[m] = "wait"
    BY <1>2 DEF StartWith, TypeOK
  <2> QED
    BY <2>1
<1>3. CASE User(m) \/ Lifecycle(m)
  <2>1. \/ UNCHANGED <<mail, fresh, cur>> /\ (pc'[m] = pc[m] \/ pc'[m] # "run")
        \/ StartWith(m, "initRsa", [msg |-> NoMsg, from |-> m])
    BY <1>3 DEF User, Lifecycle, PressStart, PressStop, TimerStop, Joined, box, TypeOK
  <2> QED
    BY <1>1, <1>2, <2>1
<1>4. CASE DispatchForming(m)
  <2>1. pc[m] # "run"
    BY <1>4 DEF DispatchForming, Reads
  <2>2. mail'[m] = Packet(m) /\ pc'[m] # "run"
    BY <1>4, <2>1 DEF DispatchForming, AddInfo, StartWith, TypeOK
  <2> QED
    BY <1>4, <2>2
<1>5. CASE DispatchEnding(m) \/ DispatchOther(m)
  BY <1>1, <1>5 DEF DispatchEnding, DispatchOther, box
<1>6. CASE Take(m)
  <2>1. fresh[m] /\ cur'[m] = mail[m].msg /\ mail' = mail /\ fresh'[m] = FALSE
    BY <1>6 DEF Take, TypeOK
  <2> QED
    BY <2>1
<1>7. CASE InitRsa(m)
  <2>1. UNCHANGED <<mail, fresh>> /\ cur'[m] = Msg("rsaInit", Last(m) + 1, m, Base({}))
    BY <1>7 DEF InitRsa, box, TypeOK
  <2>2. (fresh'[m] => Fresh) /\ Run
    BY <1>7, <2>1
  <2> QED
    BY <2>2
<1>8. CASE AesInitSend(m)
  <2>1. UNCHANGED <<mail, fresh>> /\ cur'[m] = Msg("aesInit", cur[m].n, m, Base({gen[m]}))
    BY <1>8 DEF AesInitSend, box, TypeOK
  <2>2. (fresh'[m] => Fresh) /\ Run
    BY <1>8, <2>1
  <2> QED
    BY <2>2
<1>9. CASE RsaStage(m) \/ AesInitReceive(m) \/ FormStage(m) \/ EndKeyForming(m)
  <2>1. UNCHANGED <<mail, fresh, cur>> /\ (StayAt(m) \/ \E st : GoTo(m, st))
    BY <1>9 DEF RsaStage, RsaPublish, RsaListen, AesInitReceive, FormStage, FormSolo, FormBegin,
                FormFinish, FormForward, FormIgnore, EndKeyForming, box
  <2>2. pc'[m] = pc[m] \/ pc'[m] # "run"
    BY <2>1 DEF StayAt, GoTo, TypeOK
  <2> QED
    BY <1>1, <2>1, <2>2
<1>10. CASE Resend(m) \/ Lose(m)
  BY <1>1, <1>10 DEF Resend, Lose, box
<1>11. CASE Restart(m)
  <2>1. fresh'[m] = FALSE /\ pc'[m] = "off"
    BY <1>11 DEF Restart, TypeOK
  <2> QED
    BY <2>1
<1> QED
  BY <1>3, <1>4, <1>5, <1>6, <1>7, <1>8, <1>9, <1>10, <1>11
  DEF StepOf, Dispatch, Worker, AesInitStage, Environment

(* A packet that comes under way is an empty start, or what the member that
   took the step sent.                                                     *)
NewPacket(m, pk) == \/ pk.msg = NoMsg
                    \/ Sends(m, pk.msg) /\ (pk.msg.kind = "aesForm" => pk.from = m)

LEMMA PacketStep ==
  ASSUME Prompt, TypeOK, NEW m \in Pos, StepOf(m), OthersUntouched(m), NEW p \in Pos, NEW pk,
         UnderWay(p, pk)'
  PROVE  UnderWay(p, pk) \/ NewPacket(m, pk)
<1>1. CASE pk \in Elems(inbox'[p])
  <2>1. CASE pk \in Elems(inbox[p])
    BY <2>1 DEF UnderWay
  <2>2. CASE pk \notin Elems(inbox[p])
    <3>1. PICK msg \in Messages : Sends(m, msg) /\ OnlyNew([msg |-> msg, from |-> m])
      BY <1>1, <2>2, StepArrives DEF Arrives, Quieter, NothingNew
    <3>2. pk = [msg |-> msg, from |-> m]
      BY <1>1, <2>2, <3>1 DEF OnlyNew
    <3> QED
      BY <3>1, <3>2 DEF NewPacket
  <2> QED
    BY <2>1, <2>2
<1>2. CASE fresh'[p] /\ pk = mail'[p]
  <2>1. CASE p # m
    BY <1>2, <2>1 DEF OthersUntouched, UnderWay
  <2>2. CASE p = m
    <3>1. CASE fresh[m] /\ mail'[m] = mail[m]
      BY <1>2, <2>2, <3>1 DEF UnderWay
    <3>2. CASE mail'[m] = [msg |-> NoMsg, from |-> m]
      BY <1>2, <2>2, <3>2 DEF NewPacket
    <3>3. CASE DispatchForming(m) /\ mail'[m] = Packet(m)
      BY <1>2, <2>2, <3>3, ReadsNew DEF UnderWay, DispatchForming
    <3> QED
      BY <1>2, <2>2, <3>1, <3>2, <3>3, HandStep
  <2> QED
    BY <2>1, <2>2
<1>3. CASE pc'[p] = "run" /\ pk = [msg |-> cur'[p], from |-> mail'[p].from]
  <2>1. CASE p # m
    BY <1>3, <2>1 DEF OthersUntouched, UnderWay, InHand
  <2>2. CASE p = m
    <3>0. mail'[m] = mail[m] /\ pk = [msg |-> cur'[m], from |-> mail[m].from]
      BY <1>3, <2>2, HandStep
    <3>1. CASE pc[m] = "run" /\ cur'[m] = cur[m]
      BY <2>2, <3>0, <3>1 DEF UnderWay, InHand
    <3>2. CASE fresh[m] /\ cur'[m] = mail[m].msg
      <4>1. mail[m] = [msg |-> mail[m].msg, from |-> mail[m].from]
        BY DEF TypeOK, Packets
      <4> QED
        BY <2>2, <3>0, <3>2, <4>1 DEF UnderWay
    <3>3. CASE InitRsa(m) /\ cur'[m] = Msg("rsaInit", Last(m) + 1, m, Base({}))
      BY <3>0, <3>3 DEF NewPacket, Sends, Msg
    <3>4. CASE AesInitSend(m) /\ cur'[m] = Msg("aesInit", cur[m].n, m, Base({gen[m]}))
      BY <3>0, <3>4 DEF NewPacket, Sends, Msg
    <3> QED
      BY <1>3, <2>2, <3>1, <3>2, <3>3, <3>4, HandStep
  <2> QED
    BY <2>1, <2>2
<1> QED
  BY <1>1, <1>2, <1>3 DEF UnderWay, InHand

(* The largest number of a table only grows, and only by storing a key.    *)
LEMMA LastStep ==
  ASSUME TypeOK, TypeOK', NoEmptyParams, [Next]_vars, NEW m \in Pos
  PROVE  /\ Last(m) \in Numbers /\ Last(m)' \in Numbers /\ Last(m) <= Last(m)'
         /\ Last(m)' = Last(m) \/ ((FormSolo(m) \/ FormFinish(m)) /\ Last(m)' = cur[m].n)
         /\ FormFinish(m) => cur[m].n <= Last(m)'
<1>1. aes[m] \in Seq(KeyRows) /\ aes'[m] \in Seq(KeyRows)
  BY DEF TypeOK
<1>2. LastKeyN(aes[m]) \in 0 .. MaxKeyN /\ LastKeyN(aes'[m]) \in 0 .. MaxKeyN
  BY <1>1, LastType
<1>3. LastKeyN(aes[m]) <= LastKeyN(aes'[m])
  <2>1. CASE aes[m] = <<>>
    BY <1>2, <2>1 DEF LastKeyN
  <2>2. CASE aes[m] # <<>>
    <3>1. PICK i \in DOMAIN aes[m] : aes[m][i].n = LastKeyN(aes[m])
      BY <1>1, <2>2, LastIsLargest DEF KeyNumbers
    <3>2. i \in DOMAIN aes'[m] /\ aes'[m][i].n = aes[m][i].n
      <4>1. CASE aes'[m][i] = aes[m][i]
        BY <4>1, StepOnRows
      <4>2. CASE aes'[m][i] = Row(aes[m][i].n, aes[m][i].key, Outdated)
        BY <4>2, StepOnRows DEF Row
      <4> QED
        BY <4>1, <4>2, StepOnRows
    <3>3. aes'[m][i].n <= LastKeyN(aes'[m])
      BY <1>1, <3>2, LastIsLargest
    <3> QED
      BY <3>1, <3>2, <3>3
  <2> QED
    BY <2>1, <2>2
<1>4. ASSUME LastKeyN(aes'[m]) # LastKeyN(aes[m])
      PROVE  (FormSolo(m) \/ FormFinish(m)) /\ LastKeyN(aes'[m]) = cur[m].n
  <2>1. aes'[m] # <<>>
    BY <1>2, <1>3, <1>4 DEF LastKeyN
  <2>2. PICK i \in DOMAIN aes'[m] : aes'[m][i].n = LastKeyN(aes'[m])
    BY <1>1, <2>1, LastIsLargest DEF KeyNumbers
  <2>3. aes'[m][i] \in Rows(m)'
    BY DEF Rows
  <2>4. ASSUME NEW q \in Rows(m), q.n = aes'[m][i].n
        PROVE  FALSE
    <3>1. q.n <= LastKeyN(aes[m])
      BY <1>1, LastIsLargest DEF Rows
    <3> QED
      BY <1>2, <1>3, <1>4, <2>2, <2>4, <3>1
  <2>5. \/ FormSolo(m) /\ aes'[m][i] = Row(cur[m].n, SoloKey(m), InUse)
        \/ FormFinish(m) /\ aes'[m][i] = Row(cur[m].n, Multi(m), InUse)
    BY <2>3, <2>4, NewRows
  <2> QED
    BY <2>2, <2>5 DEF Row
<1>5. ASSUME FormFinish(m)
      PROVE  cur[m].n <= LastKeyN(aes'[m])
  <2>1. cur[m].n \in 0 .. MaxKeyN /\ Multi(m) \in Value
    BY RaiseType DEF TypeOK, Messages, Multi
  <2>2. aes'[m] = AddAesKey(aes[m], cur[m].n, Multi(m))
    BY <1>5 DEF FormFinish, Store, TypeOK
  <2> DEFINE t == aes[m]
             n == cur[m].n
             key == Multi(m)
  <2>3. /\ Len(t) + 1 \in DOMAIN AddAesKey(t, n, key)
        /\ AddAesKey(t, n, key)[Len(t) + 1] = Row(n, key, InUse)
    <3> HIDE DEF t, n, key
    <3>1. t \in Seq(KeyRows) /\ n \in 0 .. MaxKeyN /\ key \in Value
      BY <1>1, <2>1 DEF t, n, key
    <3> QED
      BY <3>1, TableKept
  <2>4. aes'[m][Len(t) + 1].n = cur[m].n
    BY <2>2, <2>3 DEF Row
  <2> QED
    BY <1>1, <2>2, <2>3, <2>4, LastIsLargest
<1> QED
  BY <1>2, <1>3, <1>4, <1>5 DEF Last, Numbers

-----------------------------------------------------------------------------
(* The last member leads: no number under way is more than one above what it *)
(* holds, and a key reaches the member before it only after it, and no other. *)

Follows(pk) ==
  /\ pk.msg.n <= Last(N - 1) + 1
  /\ pk.msg.kind = "aesForm" =>
       \/ pk.msg.last = N - 1
       \/ /\ pk.msg.n <= Last(N - 1)
          /\ pk.msg.last = N - 2 \/ (pk.msg.last = N - 3 /\ pk.from = N - 2)

LeadInv ==
  /\ \A p \in Pos : \A pk \in Packets : UnderWay(p, pk) => Follows(pk)
  /\ \A p \in Pos : Last(p) <= Last(N - 1)
  /\ \A p \in Pos : p < N - 2 => aes[p] = <<>>

(* A member that finishes a key is one of the last two.                    *)
LEMMA FinishIsLate ==
  ASSUME N > 1, Prompt, TypeOK, LeadInv, NEW m \in Pos, NumberFresh(m), LocalRing(m),
         FormFinish(m)
  PROVE  /\ m \in {N - 1, N - 2} /\ cur[m].n > Last(m) /\ cur[m].n <= Last(N - 1) + 1
         /\ m = N - 2 => cur[m].n <= Last(N - 1)
<1>1. At(m, "aesForm") /\ cur[m].last = m
  BY DEF FormFinish
<1>2. PICK snd \in SendersSeen(m) : MyTurn(m, snd)
  BY DEF FormFinish
<1>3. snd \in Pos /\ snd = mail[m].from /\ m = (snd + 1) % N /\ cur[m].kind = "aesForm"
  BY <1>1, <1>2, TurnHasValue DEF MyTurn
<1>4. UnderWay(m, InHand(m)) /\ InHand(m) \in Packets
  BY <1>1, UnderWayType DEF UnderWay, At
<1>5. Follows([msg |-> cur[m], from |-> mail[m].from])
  BY <1>4 DEF LeadInv, InHand
<1>6. /\ cur[m].n <= Last(N - 1) + 1
      /\ m = N - 1 \/ (cur[m].n <= Last(N - 1) /\ (m = N - 2 \/ (m = N - 3 /\ snd = N - 2)))
  BY <1>1, <1>3, <1>5 DEF Follows
<1>7. ~(m = N - 3 /\ snd = N - 2)
  BY <1>3, NAssumption, SuccIs DEF Succ, Pos
<1>8. cur[m].n > Last(m)
  BY <1>1 DEF NumberFresh, At
<1>9. m = N - 2 => m # N - 1
  BY NAssumption
<1> QED
  BY <1>6, <1>7, <1>8, <1>9

(* What a member sends follows what the last one holds after the step.     *)
LEMMA SendsFollow ==
  ASSUME N > 1, Prompt, TypeOK, TypeOK', NoEmptyParams, LeadInv, [Next]_vars,
         NEW m \in Pos, NumberFresh(m), LocalRing(m), NEW msg, Sends(m, msg)
  PROVE  Follows([msg |-> msg, from |-> m])'
<1> DEFINE held == Last(N - 1)
<1>0. N - 1 \in Pos
  BY NAssumption DEF Pos
<1>1. /\ held \in Numbers /\ held' \in Numbers /\ held <= held'
      /\ FormFinish(N - 1) => cur[N - 1].n <= held'
  BY <1>0, LastStep
<1>2. Last(m) \in Numbers /\ Last(m) <= held
  BY LastStep DEF LeadInv
<1>3. cur[m].n \in Numbers /\ cur[m].last \in Pos
  BY DEF TypeOK, Messages, Numbers
<1>4. ASSUME pc[m] = "run"
      PROVE  Follows([msg |-> cur[m], from |-> mail[m].from])
  <2>1. UnderWay(m, InHand(m)) /\ InHand(m) \in Packets
    BY <1>4, UnderWayType DEF UnderWay
  <2> QED
    BY <2>1 DEF LeadInv, InHand
<1>5. pc[m] = "run" => cur[m].n <= held + 1
  BY <1>4 DEF Follows
<1>6. ASSUME msg.kind # "aesForm", msg.n \in Numbers, msg.n <= held + 1
      PROVE  Follows([msg |-> msg, from |-> m])'
  <2>1. msg.n <= held' + 1
    BY <1>1, <1>6 DEF Numbers
  <2> QED
    BY <1>6, <2>1 DEF Follows
<1>7. CASE msg = EndEncryptionMsg
  <2>1. msg.kind # "aesForm" /\ msg.n = 0
    BY <1>7 DEF EndEncryptionMsg, Msg
  <2> QED
    BY <1>1, <1>6, <2>1, BoundsAssumption DEF Numbers
<1>8. CASE InitRsa(m) /\ msg = Msg("rsaInit", Last(m) + 1, m, Base({}))
  <2>1. msg.kind # "aesForm" /\ msg.n = Last(m) + 1 /\ Last(m) < MaxKeyN
    BY <1>8 DEF Msg, InitRsa
  <2>2. msg.n \in Numbers /\ msg.n <= held + 1
    BY <1>1, <1>2, <2>1, BoundsAssumption DEF Numbers
  <2> QED
    BY <1>6, <2>1, <2>2
<1>9. CASE \/ RsaPublish(m) /\ msg = Msg("rsaForm", cur[m].n, m, Base({}))
           \/ AesInitSend(m) /\ msg = Msg("aesInit", cur[m].n, m, Base({gen[m]}))
           \/ EndKeyForming(m) /\ msg = Msg("endForming", cur[m].n, m, Base({}))
  <2>1. msg.kind # "aesForm" /\ msg.n = cur[m].n /\ pc[m] = "run"
    BY <1>9 DEF Msg, RsaPublish, AesInitSend, EndKeyForming, At
  <2> QED
    BY <1>3, <1>5, <1>6, <2>1
<1>10. CASE FormBegin(m) /\ msg = Msg("aesForm", cur[m].n, N - 1, Public(m, dh[m]))
  <2>1. msg.last = N - 1 /\ msg.n = cur[m].n /\ pc[m] = "run"
    BY <1>10 DEF Msg, FormBegin, At
  <2>2. msg.n <= held' + 1
    BY <1>1, <1>3, <1>5, <2>1 DEF Numbers
  <2> QED
    BY <2>1, <2>2 DEF Follows
<1>11. CASE FormFinish(m) /\ m # 0 /\ msg = Msg("aesForm", cur[m].n, m - 1, Public(m, dh[m]))
  <2>1. m \in {N - 1, N - 2} /\ (m = N - 2 => cur[m].n <= held)
    BY <1>11, FinishIsLate
  <2>2. msg.n = cur[m].n /\ msg.last = m - 1
    BY <1>11 DEF Msg
  <2>3. msg.n <= held'
    BY <1>1, <1>3, <1>11, <2>1, <2>2 DEF Numbers
  <2>4. msg.n <= held' + 1
    BY <1>1, <1>3, <2>2, <2>3 DEF Numbers
  <2>5. msg.last = N - 2 \/ (msg.last = N - 3 /\ m = N - 2)
    BY <2>1, <2>2, NAssumption
  <2> QED
    BY <2>3, <2>4, <2>5 DEF Follows
<1>12. CASE FormForward(m) /\ msg = Msg("aesForm", cur[m].n, cur[m].last, Multi(m))
  <2>1. At(m, "aesForm") /\ cur[m].last # m /\ pc[m] = "run"
    BY <1>12 DEF FormForward, At
  <2>2. PICK snd \in SendersSeen(m) : MyTurn(m, snd)
    BY <1>12 DEF FormForward
  <2>3. snd \in Pos /\ snd = mail[m].from /\ m = (snd + 1) % N /\ cur[m].kind = "aesForm"
    BY <2>1, <2>2, TurnHasValue DEF MyTurn
  <2>4. cur[m].n > Last(m)
    BY <2>1 DEF NumberFresh, At
  <2>5. ~(cur[m].n <= held /\ cur[m].last = N - 3 /\ snd = N - 2)
    <3> SUFFICES ASSUME cur[m].n <= held, snd = N - 2
                 PROVE  FALSE
      OBVIOUS
    <3>1. m = N - 1
      <4>1. N - 2 # N - 1 /\ N - 2 + 1 = N - 1
        BY NAssumption
      <4>2. m = IF snd = N - 1 THEN 0 ELSE snd + 1
        BY <2>3, SuccIs
      <4> QED
        BY <4>1, <4>2
    <3> QED
      BY <1>1, <1>3, <2>4, <3>1 DEF Numbers
  <2>6. \/ cur[m].last = N - 1
        \/ cur[m].n <= held /\ cur[m].last = N - 2
    BY <1>4, <2>1, <2>3, <2>5 DEF Follows
  <2>7. msg.n = cur[m].n /\ msg.last = cur[m].last
    BY <1>12 DEF Msg
  <2>8. msg.n <= held' + 1 /\ (msg.n <= held => msg.n <= held')
    BY <1>1, <1>3, <1>5, <2>1, <2>7 DEF Numbers
  <2> QED
    BY <2>6, <2>7, <2>8 DEF Follows
<1> QED
  BY <1>7, <1>8, <1>9, <1>10, <1>11, <1>12 DEF Sends

(* The last member leads through every step.                               *)
LEMMA LeadStep ==
  ASSUME N > 1, Prompt, TypeOK, TypeOK', NoEmptyParams, NumberInv, RingInv, LeadInv, [Next]_vars
  PROVE  LeadInv'
<1> DEFINE held == Last(N - 1)
<1>0. N - 1 \in Pos
  BY NAssumption DEF Pos
<1>1. held \in Numbers /\ held' \in Numbers /\ held <= held'
  BY <1>0, LastStep
<1>2. CASE UNCHANGED vars
  <2>1. \A p \in Pos : \A pk \in Packets : UnderWay(p, pk)' => UnderWay(p, pk)
    BY <1>2 DEF vars, UnderWay, InHand
  <2>2. \A pk \in Packets : Follows(pk) => Follows(pk)'
    BY <1>2 DEF vars, Follows, Last
  <2> QED
    BY <1>2, <2>1, <2>2 DEF LeadInv, vars, Last
<1>3. ASSUME NEW m \in Pos, StepOf(m)
      PROVE  LeadInv'
  <2>0. NumberFresh(m) /\ LocalRing(m)
    BY DEF NumberInv, RingInv
  <2>1. OthersUntouched(m)
    BY <1>3, UserNumbers, DispatchNumbers, WorkerNumbers, EnvironmentNumbers DEF NumberInv, StepOf
  <2>2. ASSUME NEW pk \in Packets, Follows(pk)
        PROVE  Follows(pk)'
    <3>1. pk.msg.n \in Numbers
      BY DEF Packets, Messages, Numbers
    <3>2. pk.msg.n <= held' + 1 /\ (pk.msg.n <= held => pk.msg.n <= held')
      BY <1>1, <2>2, <3>1 DEF Numbers, Follows
    <3> QED
      BY <2>2, <3>2 DEF Follows
  <2>3. ASSUME NEW p \in Pos, NEW pk \in Packets, UnderWay(p, pk)'
        PROVE  Follows(pk)'
    <3>1. CASE UnderWay(p, pk)
      BY <2>2, <3>1 DEF LeadInv
    <3>2. CASE pk.msg = NoMsg
      <4>1. pk.msg.n = 0 /\ pk.msg.kind # "aesForm"
        BY <3>2 DEF NoMsg, Msg
      <4>2. pk.msg.n <= held' + 1
        BY <1>1, <4>1 DEF Numbers
      <4> QED
        BY <4>1, <4>2 DEF Follows
    <3>3. CASE Sends(m, pk.msg) /\ (pk.msg.kind = "aesForm" => pk.from = m)
      <4>1. Follows([msg |-> pk.msg, from |-> m])'
        BY <2>0, <3>3, SendsFollow
      <4> QED
        BY <3>3, <4>1 DEF Follows
    <3> QED
      BY <1>3, <2>1, <2>3, <3>1, <3>2, <3>3, PacketStep DEF NewPacket
  <2>4. ASSUME NEW p \in Pos
        PROVE  Last(p)' <= Last(N - 1)' /\ (p < N - 2 => aes'[p] = <<>>)
    <3>1. /\ Last(p) \in Numbers /\ Last(p)' \in Numbers /\ Last(p) <= held
          /\ Last(p)' = Last(p) \/ (FormFinish(p) /\ Last(p)' = cur[p].n)
          /\ FormFinish(p) => cur[p].n <= Last(p)'
      BY LastStep DEF LeadInv, FormSolo
    <3>2. FormFinish(p) => /\ p \in {N - 1, N - 2}
                           /\ p = N - 2 => cur[p].n <= held
      BY FinishIsLate DEF NumberInv, RingInv
    <3>3. Last(p)' <= Last(N - 1)'
      <4>1. CASE Last(p)' = Last(p)
        BY <1>1, <3>1, <4>1 DEF Numbers
      <4>2. CASE p = N - 1
        BY <1>1, <4>2 DEF Numbers
      <4>3. CASE p = N - 2 /\ FormFinish(p) /\ Last(p)' = cur[p].n
        BY <1>1, <3>1, <3>2, <4>3 DEF Numbers
      <4> QED
        BY <3>1, <3>2, <4>1, <4>2, <4>3
    <3>4. ASSUME p < N - 2, aes'[p] # <<>>
          PROVE  FALSE
      <4>1. aes'[p] \in Seq(KeyRows) /\ aes[p] = <<>>
        BY <3>4 DEF TypeOK, LeadInv
      <4>2. 1 \in DOMAIN aes'[p]
        BY <3>4, <4>1
      <4>3. aes'[p][1] \in Rows(p)' /\ Rows(p) = {}
        BY <4>1, <4>2 DEF Rows
      <4>4. FormFinish(p)
        BY <4>3, NewRows DEF FormSolo
      <4> QED
        BY <3>2, <3>4, <4>4, NAssumption DEF Pos
    <3> QED
      BY <3>3, <3>4
  <2> QED
    BY <2>3, <2>4 DEF LeadInv, Last
<1> QED
  BY <1>2, <1>3 DEF Next, StepOf

LEMMA LeadCorrect == Prompt /\ N > 1 => (Spec => []LeadInv)
<1>1. Init => LeadInv
  <2> SUFFICES ASSUME Init
               PROVE  LeadInv
    OBVIOUS
  <2>1. \A p \in Pos : aes[p] = <<>> /\ Last(p) = 0
    BY DEF Init, Last, LastKeyN
  <2>2. \A p \in Pos : \A pk : ~UnderWay(p, pk)
    BY DEF Init, UnderWay, Elems
  <2>3. N - 1 \in Pos
    BY NAssumption DEF Pos
  <2> QED
    BY <2>1, <2>2, <2>3 DEF LeadInv
<1>2. ASSUME Prompt, N > 1 PROVE Spec => []LeadInv
  <2>1. TypeOK /\ TypeOK' /\ NoEmptyParams /\ NumberInv /\ RingInv /\ LeadInv /\ [Next]_vars
          => LeadInv'
    BY <1>2, LeadStep
  <2>2. Spec => []NumberInv /\ []RingInv
    BY <1>2, NumbersCorrect, RingCorrect
  <2> QED
    BY <1>1, <2>1, <2>2, TypeCorrect, ParamsPresent, PTL DEF Spec
<1> QED
  BY <1>2

(* Only the last two members of a chat ever store a key: the round that
   aes_form_session_key describes ends before it reaches the others.       *)
THEOREM OnlyTheLastTwo ==
  Prompt => (Spec => [](\A p \in Pos : p < N - 2 => aes[p] = <<>>))
<1>1. LeadInv => \A p \in Pos : p < N - 2 => aes[p] = <<>>
  BY DEF LeadInv
<1>2. CASE N > 1
  BY <1>1, <1>2, LeadCorrect, PTL
<1>3. CASE ~(N > 1)
  <2>1. \A p \in Pos : p < N - 2 => aes[p] = <<>>
    BY <1>3, NAssumption DEF Pos
  <2> QED
    BY <2>1, PTL
<1> QED
  BY <1>2, <1>3

-----------------------------------------------------------------------------
(* The exponents a step generates, and the parameters they go to.          *)

LEMMA SecretStep ==
  ASSUME TypeOK, NEW m \in Pos, StepOf(m)
  PROVE  /\ \A p \in Pos \ {m} : dh'[p] = dh[p] /\ gen'[p] = gen[p]
         /\ gen[m] <= gen'[m]
         /\ stage'[m] = "aesForm" =>
              \/ stage[m] = "aesForm" /\ dh'[m] = dh[m]
              \/ stage[m] = "aesInit" /\ dh'[m].nth = gen[m] /\ gen'[m] = gen[m] + 1
         /\ gen'[m] # gen[m] => gen'[m] = gen[m] + 1 /\ stage[m] \in {"aesInit", "aesForm"}
<1> DEFINE Others == \A p \in Pos \ {m} : dh'[p] = dh[p] /\ gen'[p] = gen[p]
           Form == \/ stage[m] = "aesForm" /\ dh'[m] = dh[m]
                   \/ stage[m] = "aesInit" /\ dh'[m].nth = gen[m] /\ gen'[m] = gen[m] + 1
           Goal == /\ Others /\ gen[m] <= gen'[m] /\ (stage'[m] = "aesForm" => Form)
                   /\ gen'[m] # gen[m] => gen'[m] = gen[m] + 1 /\ stage[m] \in {"aesInit", "aesForm"}
<1>0. gen[m] \in 0 .. MaxGen /\ MaxGen \in Nat
  BY BoundsAssumption DEF TypeOK
<1>1. CASE UNCHANGED <<dh, gen>> /\ (stage' = stage \/ stage'[m] # "aesForm")
  BY <1>0, <1>1
<1>2. ASSUME NEW st \in {"initRsa", "rsa"}, NEW packet, StartWith(m, st, packet), UNCHANGED gen
      PROVE  Goal
  <2>1. stage'[m] # "aesForm" /\ \A p \in Pos \ {m} : dh'[p] = dh[p]
    BY <1>2 DEF StartWith, TypeOK
  <2> QED
    BY <1>0, <1>2, <2>1
<1>3. CASE User(m) \/ Lifecycle(m) \/ Dispatch(m)
  <2>1. \/ UNCHANGED <<dh, gen, stage>>
        \/ UNCHANGED gen /\ \E st \in {"initRsa", "rsa"} : \E packet : StartWith(m, st, packet)
    BY <1>3
    DEF User, Lifecycle, Dispatch, PressStart, PressStop, TimerStop, Joined, DispatchForming,
        DispatchEnding, DispatchOther, secrets
  <2> QED
    BY <1>1, <1>2, <2>1
<1>4. CASE Take(m) \/ InitRsa(m) \/ RsaStage(m)
  <2>1. UNCHANGED <<dh, gen>>
    BY <1>4 DEF Take, InitRsa, RsaStage, RsaPublish, RsaListen, secrets
  <2>2. \/ UNCHANGED stage
        \/ stage' = [stage EXCEPT ![m] = "rsa"]
        \/ stage' = [stage EXCEPT ![m] = "aesInit"]
    BY <1>4 DEF Take, InitRsa, RsaStage, RsaPublish, RsaListen, StayAt, GoTo
  <2>3. stage' = stage \/ stage'[m] # "aesForm"
    BY <2>2 DEF TypeOK
  <2> QED
    BY <1>1, <2>1, <2>3
<1>5. CASE AesInitStage(m)
  <2>1. CASE UNCHANGED <<stage, dh, gen>>
    BY <1>1, <2>1
  <2>2. CASE \E mod : NewDh(m, mod)
    <3>1. PICK mod : NewDh(m, mod)
      BY <2>2
    <3>2. /\ dh' = [dh EXCEPT ![m] = [mod |-> mod, nth |-> gen[m]]]
          /\ gen' = [gen EXCEPT ![m] = gen[m] + 1]
      BY <3>1 DEF NewDh, Generate, NewParams
    <3>3. /\ dh'[m].nth = gen[m] /\ gen'[m] = gen[m] + 1
          /\ \A p \in Pos \ {m} : dh'[p] = dh[p] /\ gen'[p] = gen[p]
      BY <3>2 DEF TypeOK
    <3>4. stage[m] = "aesInit"
      BY <1>5 DEF AesInitStage, AesInitSend, AesInitReceive, At
    <3> QED
      BY <1>0, <3>3, <3>4
  <2> QED
    BY <1>5, <2>1, <2>2 DEF AesInitStage, AesInitSend, AesInitReceive, StayAt
<1>6. CASE FormSolo(m)
  <2>1. UNCHANGED dh /\ gen' = [gen EXCEPT ![m] = gen[m] + 1] /\ stage[m] = "aesForm"
    BY <1>6 DEF FormSolo, Generate, At
  <2>2. gen'[m] = gen[m] + 1 /\ \A p \in Pos \ {m} : gen'[p] = gen[p]
    BY <2>1 DEF TypeOK
  <2> QED
    BY <1>0, <2>1, <2>2
<1>7. CASE FormBegin(m) \/ FormFinish(m) \/ FormForward(m) \/ FormIgnore(m) \/ EndKeyForming(m)
  <2>1. UNCHANGED <<dh, gen>>
    BY <1>7 DEF FormBegin, FormFinish, FormForward, FormIgnore, EndKeyForming, secrets
  <2>2. UNCHANGED stage \/ stage' = [stage EXCEPT ![m] = "end"]
    BY <1>7 DEF FormBegin, FormFinish, FormForward, FormIgnore, EndKeyForming, StayAt, GoTo
  <2>3. stage' = stage \/ stage'[m] # "aesForm"
    BY <2>2 DEF TypeOK
  <2> QED
    BY <1>1, <2>1, <2>3
<1>8. CASE Resend(m) \/ Lose(m)
  BY <1>1, <1>8 DEF Resend, Lose, secrets
<1>9. CASE Restart(m)
  <2>1. UNCHANGED gen /\ stage'[m] # "aesForm" /\ \A p \in Pos \ {m} : dh'[p] = dh[p]
    BY <1>9 DEF Restart, TypeOK
  <2> QED
    BY <1>0, <2>1
<1>10. Goal
  BY <1>3, <1>4, <1>5, <1>6, <1>7, <1>8, <1>9
  DEF StepOf, Worker, FormStage, Environment
<1> QED
  BY <1>10

(* The first member goes on to AES_INIT when all have published.           *)
LEMMA OpenStep ==
  ASSUME Prompt, TypeOK, N > 1, NEW m \in Pos, StepOf(m), OthersUntouched(m),
         stage[0] = "aesInit" => pc[0] = "run", stage'[0] = "aesInit"
  PROVE  /\ pc[0] = "run" /\ pc'[0] = "run" /\ cur'[0] = cur[0]
         /\ stage[0] = "aesInit" \/ (stage[0] = "rsa" /\ cur[0].kind # "rsaInit" /\ cur[0].last = N - 1)
<1>0. 0 \in Pos
  BY NAssumption DEF Pos
<1>1. CASE m # 0
  BY <1>0, <1>1 DEF OthersUntouched
<1>2. CASE m = 0 /\ stage[0] = "aesInit"
  <2>1. pc[0] = "run"
    BY <1>2
  <2>2. User(m) \/ Lifecycle(m) => pc'[0] = "run" /\ cur' = cur
    BY <1>2, <2>1 DEF User, Lifecycle, PressStart, PressStop, TimerStop, Joined
  <2>3. Dispatch(m) => pc'[0] = "run" /\ cur' = cur
    BY <1>2, <2>1 DEF Dispatch, DispatchForming, DispatchEnding, DispatchOther, Reads
  <2>4. ~Worker(m)
    BY <1>2, <2>1
    DEF Worker, Take, InitRsa, RsaStage, RsaPublish, RsaListen, AesInitStage, AesInitSend,
        AesInitReceive, GoTo, FormStage, FormSolo, FormBegin, FormFinish, FormForward, FormIgnore,
        EndKeyForming, At, TypeOK
  <2>5. Environment(m) => pc'[0] = "run" /\ cur' = cur
    BY <1>2, <2>1 DEF Environment, Resend, Lose, Restart, TypeOK
  <2> QED
    BY <1>2, <2>1, <2>2, <2>3, <2>4, <2>5 DEF StepOf
<1>3. CASE m = 0 /\ stage[0] # "aesInit"
  <2>1. ASSUME NEW st \in {"initRsa", "rsa"}, NEW packet, StartWith(m, st, packet)
        PROVE  FALSE
    BY <1>3, <2>1 DEF StartWith, TypeOK
  <2>2. ~User(m) /\ ~Lifecycle(m) /\ ~Dispatch(m)
    BY <1>3, <2>1
    DEF User, Lifecycle, Dispatch, PressStart, PressStop, TimerStop, Joined, DispatchForming,
        DispatchEnding, DispatchOther
  <2>3. ~Environment(m)
    BY <1>3 DEF Environment, Resend, Lose, Restart, TypeOK
  <2>4. ~Take(m) /\ ~InitRsa(m) /\ ~AesInitStage(m) /\ ~FormStage(m) /\ ~EndKeyForming(m)
    BY <1>3
    DEF Take, InitRsa, AesInitStage, AesInitSend, AesInitReceive, GoTo, StayAt, FormStage, FormSolo,
        FormBegin, FormFinish, FormForward, FormIgnore, EndKeyForming, At, TypeOK
  <2>5. ~RsaPublish(m)
    BY <1>3, NAssumption DEF RsaPublish, StayAt, At
  <2>6. RsaListen(m)
    BY <2>2, <2>3, <2>4, <2>5 DEF StepOf, Worker, RsaStage
  <2>7. /\ AllPublished(0) /\ pc' = pc /\ cur' = cur /\ pc[0] = "run" /\ stage[0] = "rsa"
    BY <1>3, <2>6 DEF RsaListen, StayAt, GoTo, At
  <2>8. cur[0].kind # "rsaInit" /\ cur[0].last = N - 1
    BY <2>7 DEF AllPublished, Heard
  <2> QED
    BY <2>7, <2>8
<1> QED
  BY <1>1, <1>2, <1>3

(* What a worker handles is a step of an exchange, or an empty start.      *)
Handled(msg) == msg.kind \in Forming \/ msg.n = 0
KindsInv == \A m \in Pos : /\ fresh[m] => Handled(mail[m].msg)
                           /\ pc[m] = "run" => Handled(cur[m])

LEMMA KindsStep ==
  ASSUME Prompt, TypeOK, NoEmptyParams, NumberInv, KindsInv, [Next]_vars
  PROVE  KindsInv'
<1>1. CASE UNCHANGED vars
  BY <1>1 DEF vars, KindsInv
<1>2. ASSUME NEW m \in Pos, StepOf(m)
      PROVE  KindsInv'
  <2>1. OthersUntouched(m)
    BY <1>2, UserNumbers, DispatchNumbers, WorkerNumbers, EnvironmentNumbers DEF NumberInv, StepOf
  <2>2. \A p \in Pos \ {m} : /\ fresh'[p] => Handled(mail'[p].msg)
                             /\ pc'[p] = "run" => Handled(cur'[p])
    BY <2>1 DEF OthersUntouched, KindsInv
  <2>3. fresh'[m] => Handled(mail'[m].msg)
    <3>1. Handled(NoMsg)
      BY DEF Handled, NoMsg, Msg
    <3>2. ASSUME DispatchForming(m)
          PROVE  Handled(Packet(m).msg)
      <4>1. Packet(m).msg.kind \in Forming
        BY <3>2 DEF DispatchForming
      <4> QED
        BY <4>1 DEF Handled
    <3> SUFFICES ASSUME fresh'[m]
                 PROVE  Handled(mail'[m].msg)
      OBVIOUS
    <3>3. \/ fresh[m] /\ mail'[m] = mail[m]
          \/ mail'[m] = [msg |-> NoMsg, from |-> m]
          \/ DispatchForming(m) /\ mail'[m] = Packet(m)
      BY <1>2, HandStep
    <3>4. fresh[m] => Handled(mail[m].msg)
      BY DEF KindsInv
    <3>5. [msg |-> NoMsg, from |-> m].msg = NoMsg
      OBVIOUS
    <3> QED
      BY <3>1, <3>2, <3>3, <3>4, <3>5
  <2>4. pc'[m] = "run" => Handled(cur'[m])
    <3>1. /\ Handled(Msg("rsaInit", Last(m) + 1, m, Base({})))
          /\ Handled(Msg("aesInit", cur[m].n, m, Base({gen[m]})))
      BY DEF Handled, Msg, Forming
    <3> QED
      BY <1>2, <3>1, HandStep DEF KindsInv
  <2> QED
    BY <2>2, <2>3, <2>4 DEF KindsInv
<1> QED
  BY <1>1, <1>2 DEF Next, StepOf

LEMMA KindsCorrect == Prompt => (Spec => []KindsInv)
<1>1. Init => KindsInv
  BY DEF Init, KindsInv
<1>2. ASSUME Prompt PROVE Spec => []KindsInv
  <2>1. TypeOK /\ NoEmptyParams /\ NumberInv /\ KindsInv /\ [Next]_vars => KindsInv'
    BY <1>2, KindsStep
  <2>2. Spec => []NumberInv
    BY <1>2, NumbersCorrect
  <2> QED
    BY <1>1, <2>1, <2>2, TypeCorrect, ParamsPresent, PTL DEF Spec
<1> QED
  BY <1>2

-----------------------------------------------------------------------------
(* Keys of different numbers.  bar[k][p] is how many exponents p had generated *)
(* when it first published an RSA key for the number k; it is above MaxGen  *)
(* before that.  The exponents of a key with the number k are at least       *)
(* bar[k], those of a key with a smaller number are below it.               *)

Bars == [Numbers -> [Pos -> Nat]]
Marked(bar, k, p) == bar[k][p] <= MaxGen
AllMarked(bar, k) == \A p \in Pos : Marked(bar, k, p)
Above(v, bar, k) == \A x \in Pos : \A i \in Uses(v, x) : bar[k][x] <= i
Beneath(v, bar, k) == \A x \in Pos : \A i \in Uses(v, x) : i < bar[k][x]
Spent(v) == \A x \in Pos : \A i \in Uses(v, x) : i < gen[x]

MarksFit(bar) == \A k \in Numbers, p \in Pos : Marked(bar, k, p) =>
  /\ bar[k][p] <= gen[p] /\ k <= Last(N - 1) + 1
  /\ \A q \in Pos : q < p => Marked(bar, k, q)

MsgFits(bar, msg) ==
  /\ msg.kind = "rsaForm" => Marked(bar, msg.n, msg.last)
  /\ msg.kind \in {"aesInit", "aesForm"} => AllMarked(bar, msg.n)
  /\ msg.kind = "aesForm" => Above(msg.key, bar, msg.n) /\ Spent(msg.key)
MessagesFit(bar) == \A p \in Pos : \A pk \in Packets : UnderWay(p, pk) => MsgFits(bar, pk.msg)
OpeningFits(bar) == stage[0] = "aesInit" => pc[0] = "run" /\ AllMarked(bar, cur[0].n)
ParamsFit(bar) == \A p \in Pos : stage[p] = "aesForm" =>
  dh[p].nth < gen[p] /\ \A k \in Numbers : Marked(bar, k, p) => bar[k][p] <= dh[p].nth
RowFits(bar, r) == /\ AllMarked(bar, r.n) /\ Above(r.key, bar, r.n) /\ Spent(r.key)
                   /\ \A k \in Numbers : k > r.n => Beneath(r.key, bar, k)
RowsFit(bar) == \A m \in Pos : \A r \in Rows(m) : RowFits(bar, r)

(* A value that is going to be the key of the member before the last.      *)
Due(x, pk) == /\ pk.msg.kind = "aesForm" /\ pk.msg.last = N - 2 /\ x = Succ(pk.from)
              /\ pk.msg.n > Last(N - 2)
DueFits(bar, x, pk) == \A k \in Numbers : k > pk.msg.n =>
  ~Marked(bar, k, x) /\ Beneath(pk.msg.key, bar, k)
DuesFit(bar) == \A x \in Pos : \A pk \in Packets :
  UnderWay(x, pk) /\ Due(x, pk) => DueFits(bar, x, pk)

(* A message at which x publishes its RSA key does not overtake such a value
   of a smaller number.                                                    *)
Trigger(x, msg) == msg.kind \in Forming /\ IF msg.kind = "rsaInit" THEN x = 0 ELSE x = msg.last + 1
Overtakes(x, msg, pk) == Trigger(x, msg) /\ Due(x, pk) /\ msg.n > pk.msg.n
InOrder(x) == \A pk, ahead \in Packets : Overtakes(x, ahead.msg, pk) =>
  /\ \A i, j \in DOMAIN inbox[x] : inbox[x][i] = pk /\ inbox[x][j] = ahead => i < j
  /\ pk \in Elems(inbox[x]) => /\ fresh[x] => ahead # mail[x]
                               /\ pc[x] = "run" => ahead # InHand(x)

Apart(bar) == /\ MarksFit(bar) /\ MessagesFit(bar) /\ OpeningFits(bar) /\ ParamsFit(bar)
              /\ RowsFit(bar) /\ DuesFit(bar)
ApartInv == used["resent"] = 0 => (\A x \in Pos : InOrder(x)) /\ \E bar \in Bars : Apart(bar)

-----------------------------------------------------------------------------
(* The exponents of a value that was raised.                               *)

LEMMA RaisedUses ==
  ASSUME NEW v \in Value, NEW m \in Pos, NEW params \in Params, params.nth \in Gens,
         NEW x \in Pos, NEW i \in Uses(Raise(v, m, params), x)
  PROVE  i \in Gens /\ (i \in Uses(v, x) \/ (x = m /\ i = params.nth))
<1>1. v.exp \in [Pos -> [Gens -> Nat]]
  BY DEF Value
<1>2. i \in Gens /\ Raise(v, m, params).exp[x][i] # 0
  BY DEF Uses
<1>3. Raise(v, m, params).exp = [v.exp EXCEPT ![m][params.nth] = @ + 1]
  BY DEF Raise
<1>4. ~(x = m /\ i = params.nth) => Raise(v, m, params).exp[x][i] = v.exp[x][i]
  BY <1>1, <1>2, <1>3
<1> QED
  BY <1>2, <1>4 DEF Uses

LEMMA BaseUses == ASSUME NEW mod, NEW x \in Pos PROVE Uses(Base(mod), x) = {}
  BY DEF Uses, Base

LEMMA UsesGens == ASSUME NEW v, NEW x PROVE Uses(v, x) \subseteq Gens
  BY DEF Uses

LEMMA PublicUses ==
  ASSUME NEW m \in Pos, NEW params \in Params, params.nth \in Gens,
         NEW x \in Pos, NEW i \in Uses(Public(m, params), x)
  PROVE  x = m /\ i = params.nth
<1>1. Base(params.mod) \in Value
  BY BaseType DEF Params
<1>2. i \in Uses(Raise(Base(params.mod), m, params), x)
  BY DEF Public
<1>3. i \in Uses(Base(params.mod), x) \/ (x = m /\ i = params.nth)
  BY <1>1, <1>2, RaisedUses
<1> QED
  BY <1>3, BaseUses

(* No exponent reaches the bar of a member that has not published.         *)
LEMMA NotMarked ==
  ASSUME NEW bar \in Bars, NEW k \in Numbers, NEW x \in Pos, ~Marked(bar, k, x), NEW i \in Gens
  PROVE  i < bar[k][x]
<1>1. bar[k][x] \in Nat /\ bar[k][x] > MaxGen /\ i < MaxGen /\ i \in Nat /\ MaxGen \in Nat
  BY BoundsAssumption DEF Bars, Marked, Gens
<1> QED
  BY <1>1

-----------------------------------------------------------------------------
(* The bars after a step: who publishes an RSA key marks it.               *)

Marks(m, bar, new) ==
  /\ new \in Bars
  /\ RsaPublish(m) => Marked(new, cur[m].n, m)
  /\ \A k \in Numbers, p \in Pos :
       \/ new[k][p] = bar[k][p]
       \/ /\ ~Marked(bar, k, p) /\ p = m /\ k = cur[m].n /\ RsaPublish(m)
          /\ new[k][p] = gen[m]

LEMMA MarksExist ==
  ASSUME TypeOK, NEW m \in Pos, NEW bar \in Bars
  PROVE  \E new \in Bars : Marks(m, bar, new)
<1>0. gen[m] \in Nat /\ gen[m] <= MaxGen /\ cur[m].n \in Numbers
  BY BoundsAssumption DEF TypeOK, Messages, Numbers
<1>1. CASE RsaPublish(m) /\ ~Marked(bar, cur[m].n, m)
  <2> DEFINE new == [k \in Numbers |-> [p \in Pos |-> IF k = cur[m].n /\ p = m THEN gen[m] ELSE bar[k][p]]]
  <2>1. new \in Bars
    BY <1>0 DEF Bars
  <2>2. \A k \in Numbers, p \in Pos :
          new[k][p] = IF k = cur[m].n /\ p = m THEN gen[m] ELSE bar[k][p]
    OBVIOUS
  <2> HIDE DEF new
  <2>3. Marked(new, cur[m].n, m)
    BY <1>0, <2>2 DEF Marked
  <2>4. Marks(m, bar, new)
    BY <1>1, <2>1, <2>2, <2>3 DEF Marks
  <2> QED
    BY <2>1, <2>4
<1>2. CASE ~(RsaPublish(m) /\ ~Marked(bar, cur[m].n, m))
  BY <1>2 DEF Marks
<1> QED
  BY <1>1, <1>2

(* What was marked stays marked, and what was below or above a bar stays so. *)
LEMMA MarksKeep ==
  ASSUME TypeOK, NEW m \in Pos, NEW bar \in Bars, NEW new \in Bars, Marks(m, bar, new),
         NEW k \in Numbers
  PROVE  /\ \A p \in Pos : Marked(bar, k, p) => Marked(new, k, p) /\ new[k][p] = bar[k][p]
         /\ AllMarked(bar, k) => AllMarked(new, k)
         /\ \A v : AllMarked(bar, k) /\ Above(v, bar, k) => Above(v, new, k)
         /\ \A v : Spent(v) /\ Beneath(v, bar, k) => Beneath(v, new, k)
<1>1. \A p \in Pos : Marked(bar, k, p) => Marked(new, k, p) /\ new[k][p] = bar[k][p]
  BY DEF Marks, Marked
<1>2. AllMarked(bar, k) => AllMarked(new, k)
  BY <1>1 DEF AllMarked
<1>3. ASSUME NEW v, AllMarked(bar, k), Above(v, bar, k)
      PROVE  Above(v, new, k)
  BY <1>1, <1>3 DEF AllMarked, Above
<1>4. ASSUME NEW v, Spent(v), Beneath(v, bar, k)
      PROVE  Beneath(v, new, k)
  BY <1>4 DEF Marks, Spent, Beneath
<1> QED
  BY <1>1, <1>2, <1>3, <1>4

-----------------------------------------------------------------------------
(* What the worker has in hand, and the values it makes of it.             *)

LEMMA GenStep ==
  ASSUME TypeOK, TypeOK', NEW m \in Pos, StepOf(m), NEW x \in Pos
  PROVE  gen[x] \in Nat /\ gen'[x] \in Nat /\ gen[x] <= gen'[x]
<1>1. gen[x] \in Nat /\ gen'[x] \in Nat
  BY DEF TypeOK
<1>2. CASE x = m
  BY <1>1, <1>2, SecretStep
<1>3. CASE x # m
  <2>1. gen'[x] = gen[x]
    BY <1>3, SecretStep
  <2> QED
    BY <1>1, <2>1
<1> QED
  BY <1>2, <1>3

LEMMA SpentStays ==
  ASSUME TypeOK, TypeOK', NEW m \in Pos, StepOf(m), NEW v, Spent(v)
  PROVE  Spent(v)'
<1> SUFFICES ASSUME NEW x \in Pos, NEW i \in Uses(v, x)
             PROVE  i < gen'[x]
  BY DEF Spent
<1>1. i \in Nat /\ i < gen[x]
  BY UsesGens DEF Spent, Gens
<1>2. gen[x] \in Nat /\ gen'[x] \in Nat /\ gen[x] <= gen'[x]
  BY GenStep
<1> QED
  BY <1>1, <1>2

LEMMA HandIsUnderWay ==
  ASSUME TypeOK, NEW m \in Pos, pc[m] = "run"
  PROVE  /\ InHand(m) \in Packets /\ UnderWay(m, InHand(m))
         /\ InHand(m).msg = cur[m] /\ InHand(m).from = mail[m].from
         /\ cur[m].n \in Numbers /\ cur[m].key \in Value /\ cur[m].last \in Pos
<1>1. UnderWay(m, InHand(m))
  BY DEF UnderWay
<1>2. InHand(m) \in Packets
  BY <1>1, UnderWayType
<1> QED
  BY <1>1, <1>2 DEF InHand, TypeOK, Messages, Numbers

LEMMA FormValues ==
  ASSUME TypeOK, NoEmptyParams, NEW bar \in Bars, NEW m \in Pos, MessagesFit(bar), ParamsFit(bar),
         At(m, "aesForm"), cur[m].kind \in {"aesInit", "aesForm"}
  PROVE  /\ AllMarked(bar, cur[m].n)
         /\ Above(Public(m, dh[m]), bar, cur[m].n) /\ Spent(Public(m, dh[m]))
         /\ cur[m].kind = "aesForm" => Above(Multi(m), bar, cur[m].n) /\ Spent(Multi(m))
<1>1. InHand(m) \in Packets /\ UnderWay(m, InHand(m)) /\ InHand(m).msg = cur[m]
  BY HandIsUnderWay DEF At
<1>2. MsgFits(bar, cur[m])
  BY <1>1 DEF MessagesFit
<1>3. cur[m].n \in Numbers /\ cur[m].key \in Value /\ dh[m] \in Params /\ dh[m].nth \in Gens
  BY DEF TypeOK, Messages, Numbers, NoEmptyParams, At
<1>4. AllMarked(bar, cur[m].n)
  BY <1>2 DEF MsgFits
<1>5. dh[m].nth < gen[m] /\ bar[cur[m].n][m] <= dh[m].nth
  BY <1>3, <1>4 DEF ParamsFit, At, AllMarked
<1>6. Above(Public(m, dh[m]), bar, cur[m].n) /\ Spent(Public(m, dh[m]))
  <2>1. ASSUME NEW x \in Pos, NEW i \in Uses(Public(m, dh[m]), x)
        PROVE  bar[cur[m].n][x] <= i /\ i < gen[x]
    <3>1. x = m /\ i = dh[m].nth
      BY <1>3, <2>1, PublicUses
    <3> QED
      BY <1>5, <3>1
  <2> QED
    BY <2>1 DEF Above, Spent
<1>7. ASSUME cur[m].kind = "aesForm"
      PROVE  Above(Multi(m), bar, cur[m].n) /\ Spent(Multi(m))
  <2>1. Above(cur[m].key, bar, cur[m].n) /\ Spent(cur[m].key)
    BY <1>2, <1>7 DEF MsgFits
  <2>2. ASSUME NEW x \in Pos, NEW i \in Uses(Multi(m), x)
        PROVE  bar[cur[m].n][x] <= i /\ i < gen[x]
    <3>1. i \in Uses(cur[m].key, x) \/ (x = m /\ i = dh[m].nth)
      BY <1>3, <2>2, RaisedUses DEF Multi
    <3> QED
      BY <1>5, <2>1, <3>1 DEF Above, Spent
  <2> QED
    BY <2>2 DEF Above, Spent
<1> QED
  BY <1>4, <1>6, <1>7

(* Raising a value with an exponent of a member that has not published.    *)
LEMMA BeneathRaise ==
  ASSUME NEW bar \in Bars, NEW k \in Numbers, NEW m \in Pos, NEW v \in Value, NEW params \in Params,
         params.nth \in Gens, ~Marked(bar, k, m), Beneath(v, bar, k)
  PROVE  Beneath(Raise(v, m, params), bar, k)
<1> SUFFICES ASSUME NEW x \in Pos, NEW i \in Uses(Raise(v, m, params), x)
             PROVE  i < bar[k][x]
  BY DEF Beneath
<1>1. i \in Gens /\ (i \in Uses(v, x) \/ x = m)
  BY RaisedUses
<1>2. CASE i \in Uses(v, x)
  BY <1>2 DEF Beneath
<1>3. CASE x = m
  BY <1>1, <1>3, NotMarked
<1> QED
  BY <1>1, <1>2, <1>3

(* While the key round is at a member, no bar is set.                      *)
LEMMA FormMarksNone ==
  ASSUME NEW m \in Pos, NEW bar \in Bars, NEW new \in Bars, Marks(m, bar, new), At(m, "aesForm")
  PROVE  new = bar
<1>1. ~RsaPublish(m)
  BY DEF RsaPublish, At
<1>2. \A k \in Numbers, p \in Pos : new[k][p] = bar[k][p]
  BY <1>1 DEF Marks
<1> QED
  BY <1>2 DEF Bars

-----------------------------------------------------------------------------
(* The messages of a step.                                                 *)

LEMMA SendsFit ==
  ASSUME N > 1, Prompt, TypeOK, TypeOK', NoEmptyParams, NEW bar \in Bars, NEW new \in Bars,
         NEW m \in Pos, StepOf(m), Marks(m, bar, new),
         MessagesFit(bar), OpeningFits(bar), ParamsFit(bar), NEW msg, Sends(m, msg)
  PROVE  MsgFits(new, msg)'
<1>1. ASSUME msg.kind \notin {"rsaForm", "aesInit", "aesForm"}
      PROVE  MsgFits(new, msg)'
  BY <1>1 DEF MsgFits
<1>2. CASE \/ msg = EndEncryptionMsg
           \/ InitRsa(m) /\ msg = Msg("rsaInit", Last(m) + 1, m, Base({}))
           \/ EndKeyForming(m) /\ msg = Msg("endForming", cur[m].n, m, Base({}))
  BY <1>1, <1>2 DEF EndEncryptionMsg, Msg
<1>3. CASE RsaPublish(m) /\ msg = Msg("rsaForm", cur[m].n, m, Base({}))
  <2>1. msg.kind = "rsaForm" /\ msg.n = cur[m].n /\ msg.last = m /\ Marked(new, cur[m].n, m)
    BY <1>3 DEF Msg, Marks
  <2> QED
    BY <2>1 DEF MsgFits
<1>4. CASE AesInitSend(m) /\ msg = Msg("aesInit", cur[m].n, m, Base({gen[m]}))
  <2>1. msg.kind = "aesInit" /\ msg.n = cur[m].n
    BY <1>4 DEF Msg
  <2>2. AllMarked(bar, cur[m].n) /\ cur[m].n \in Numbers
    BY <1>4 DEF AesInitSend, At, OpeningFits, TypeOK, Messages, Numbers
  <2>3. AllMarked(new, cur[m].n)
    BY <2>2, MarksKeep
  <2> QED
    BY <2>1, <2>3 DEF MsgFits
<1>5. ASSUME NEW last, NEW v, msg = Msg("aesForm", cur[m].n, last, v), At(m, "aesForm"),
             AllMarked(bar, cur[m].n), Above(v, bar, cur[m].n), Spent(v)
      PROVE  MsgFits(new, msg)'
  <2>1. msg.kind = "aesForm" /\ msg.n = cur[m].n /\ msg.key = v
    BY <1>5 DEF Msg
  <2>2. new = bar
    BY <1>5, FormMarksNone
  <2>3. Spent(v)'
    BY <1>5, SpentStays
  <2>4. AllMarked(new, msg.n) /\ Above(msg.key, new, msg.n)
    BY <1>5, <2>1, <2>2
  <2> QED
    BY <2>1, <2>3, <2>4 DEF MsgFits, Spent
<1>6. CASE FormBegin(m) /\ msg = Msg("aesForm", cur[m].n, N - 1, Public(m, dh[m]))
  <2>1. At(m, "aesForm") /\ cur[m].kind = "aesInit"
    BY <1>6 DEF FormBegin, Begins
  <2> QED
    BY <1>5, <1>6, <2>1, FormValues
<1>7. CASE FormFinish(m) /\ m # 0 /\ msg = Msg("aesForm", cur[m].n, m - 1, Public(m, dh[m]))
  <2>1. At(m, "aesForm") /\ cur[m].kind = "aesForm"
    BY <1>7 DEF FormFinish, MyTurn
  <2> QED
    BY <1>5, <1>7, <2>1, FormValues
<1>8. CASE FormForward(m) /\ msg = Msg("aesForm", cur[m].n, cur[m].last, Multi(m))
  <2>1. At(m, "aesForm") /\ cur[m].kind = "aesForm"
    BY <1>8 DEF FormForward, MyTurn
  <2> QED
    BY <1>5, <1>8, <2>1, FormValues
<1> QED
  BY <1>2, <1>3, <1>4, <1>6, <1>7, <1>8 DEF Sends

LEMMA MessagesFitStep ==
  ASSUME N > 1, Prompt, TypeOK, TypeOK', NoEmptyParams, NEW bar \in Bars, NEW new \in Bars,
         NEW m \in Pos, StepOf(m), OthersUntouched(m), Marks(m, bar, new),
         MessagesFit(bar), OpeningFits(bar), ParamsFit(bar)
  PROVE  MessagesFit(new)'
<1> SUFFICES ASSUME NEW p \in Pos, NEW pk \in Packets, UnderWay(p, pk)'
             PROVE  MsgFits(new, pk.msg)'
  BY DEF MessagesFit
<1>1. pk.msg.n \in Numbers /\ pk.msg.last \in Pos
  BY DEF Packets, Messages, Numbers
<1>2. CASE UnderWay(p, pk)
  <2>1. MsgFits(bar, pk.msg)
    BY <1>2 DEF MessagesFit
  <2>2. /\ Marked(bar, pk.msg.n, pk.msg.last) => Marked(new, pk.msg.n, pk.msg.last)
        /\ AllMarked(bar, pk.msg.n) => AllMarked(new, pk.msg.n)
        /\ AllMarked(bar, pk.msg.n) /\ Above(pk.msg.key, bar, pk.msg.n) => Above(pk.msg.key, new, pk.msg.n)
    BY <1>1, MarksKeep
  <2>3. Spent(pk.msg.key) => Spent(pk.msg.key)'
    BY SpentStays
  <2> QED
    BY <2>1, <2>2, <2>3 DEF MsgFits, Spent
<1>3. CASE pk.msg = NoMsg
  <2>1. pk.msg.kind = "none"
    BY <1>3 DEF NoMsg, Msg
  <2> QED
    BY <2>1 DEF MsgFits
<1>4. CASE Sends(m, pk.msg)
  BY <1>4, SendsFit
<1> QED
  BY <1>2, <1>3, <1>4, PacketStep DEF NewPacket

-----------------------------------------------------------------------------
(* The bars, and the parameters of the members, after a step.              *)

(* At its turn a member handles a message of the member before it.         *)
LEMMA TurnIsTrigger ==
  ASSUME TypeOK, NEW m \in Pos, NumberInv, KindsInv, RsaPublish(m)
  PROVE  /\ cur[m].kind \in Forming /\ Trigger(m, cur[m]) /\ pc[m] = "run" /\ stage[m] = "rsa"
         /\ m # 0 => cur[m].kind # "rsaInit" /\ cur[m].last = m - 1
<1>1. At(m, "rsa") /\ RsaTurn(m)
  BY DEF RsaPublish
<1>2. cur[m].n > Last(m) /\ Last(m) \in Nat
  <2>1. Last(m) \in Nat
    BY LastType DEF TypeOK, Last
  <2> QED
    BY <1>1, <2>1 DEF NumberInv, NumberFresh, At
<1>3. cur[m].kind \in Forming
  BY <1>1, <1>2 DEF KindsInv, Handled, At
<1>4. cur[m].last \in Int
  BY DEF TypeOK, Messages, Pos
<1> QED
  BY <1>1, <1>3, <1>4 DEF RsaTurn, Trigger, At, Pos

LEMMA MarksStep ==
  ASSUME N > 1, TypeOK, TypeOK', NoEmptyParams, [Next]_vars, NEW bar \in Bars, NEW new \in Bars,
         NEW m \in Pos, StepOf(m), Marks(m, bar, new), NumberInv, KindsInv, LeadInv,
         MarksFit(bar), MessagesFit(bar)
  PROVE  MarksFit(new)'
<1> DEFINE held == Last(N - 1)
<1>0. N - 1 \in Pos
  BY NAssumption DEF Pos
<1>1. held \in Numbers /\ held' \in Numbers /\ held <= held'
  BY <1>0, LastStep
<1>2. gen[m] \in Nat /\ gen'[m] \in Nat /\ gen[m] <= gen'[m]
  BY GenStep
<1> SUFFICES ASSUME NEW k \in Numbers, NEW p \in Pos, Marked(new, k, p)
             PROVE  /\ new[k][p] <= gen'[p] /\ k <= held' + 1
                    /\ \A q \in Pos : q < p => Marked(new, k, q)
  BY DEF MarksFit
<1>3. \A q \in Pos : Marked(bar, k, q) => Marked(new, k, q) /\ new[k][q] = bar[k][q]
  BY MarksKeep
<1>4. CASE Marked(bar, k, p)
  <2>1. /\ bar[k][p] <= gen[p] /\ k <= held + 1
        /\ \A q \in Pos : q < p => Marked(bar, k, q)
    BY <1>4 DEF MarksFit
  <2>2. gen[p] \in Nat /\ gen'[p] \in Nat /\ gen[p] <= gen'[p]
    BY GenStep
  <2>3. bar[k][p] \in Nat
    BY DEF Bars
  <2>4. new[k][p] <= gen'[p]
    <3>1. new[k][p] = bar[k][p] /\ bar[k][p] <= gen[p]
      BY <1>3, <1>4, <2>1
    <3> QED
      BY ONLY <2>2, <2>3, <3>1
  <2>5. k <= held' + 1
    BY <1>1, <2>1 DEF Numbers
  <2> QED
    BY <1>3, <2>1, <2>4, <2>5
<1>5. CASE ~Marked(bar, k, p)
  <2>1. p = m /\ k = cur[m].n /\ RsaPublish(m) /\ new[k][p] = gen[m]
    BY <1>5 DEF Marks, Marked
  <2>2. /\ cur[m].kind \in Forming /\ pc[m] = "run"
        /\ m # 0 => cur[m].kind # "rsaInit" /\ cur[m].last = m - 1
    BY <2>1, TurnIsTrigger
  <2>3. InHand(m) \in Packets /\ UnderWay(m, InHand(m)) /\ InHand(m).msg = cur[m]
    BY <2>2, HandIsUnderWay
  <2>4. MsgFits(bar, cur[m])
    BY <2>3 DEF MessagesFit
  <2>5. Follows(InHand(m))
    BY <2>3 DEF LeadInv
  <2>6. k <= held + 1
    BY <2>1, <2>3, <2>5 DEF Follows
  <2>7. k <= held' + 1
    BY <1>1, <2>6 DEF Numbers
  <2>8. ASSUME NEW q \in Pos, q < p
        PROVE  Marked(bar, k, q)
    <3>1. m # 0 /\ q <= m - 1 /\ m - 1 \in Pos
      <4>1. p = m /\ m \in 0 .. N - 1 /\ q \in 0 .. N - 1 /\ N \in Nat
        BY <2>1, NAssumption DEF Pos
      <4> QED
        BY ONLY <2>8, <4>1 DEF Pos
    <3>2. cur[m].kind \in {"rsaForm", "aesInit", "aesForm"} /\ cur[m].last = m - 1
      BY <2>2, <3>1 DEF Forming
    <3>3. Marked(bar, k, m - 1)
      BY <2>1, <2>4, <3>1, <3>2 DEF MsgFits, AllMarked
    <3>4. q < m - 1 => Marked(bar, k, q)
      BY <3>1, <3>3 DEF MarksFit
    <3>5. q < m - 1 \/ q = m - 1
      BY <3>1 DEF Pos
    <3> QED
      BY <3>3, <3>4, <3>5
  <2> QED
    BY <1>2, <1>3, <2>1, <2>7, <2>8
<1> QED
  BY <1>4, <1>5

LEMMA OpeningStep ==
  ASSUME N > 1, Prompt, TypeOK, NEW bar \in Bars, NEW new \in Bars,
         NEW m \in Pos, StepOf(m), OthersUntouched(m), Marks(m, bar, new), NumberInv, KindsInv,
         MarksFit(bar), MessagesFit(bar), OpeningFits(bar)
  PROVE  OpeningFits(new)'
<1> SUFFICES ASSUME stage'[0] = "aesInit"
             PROVE  pc'[0] = "run" /\ AllMarked(new, cur'[0].n)
  BY DEF OpeningFits
<1>0. 0 \in Pos /\ N - 1 \in Pos
  BY NAssumption DEF Pos
<1>1. /\ pc[0] = "run" /\ pc'[0] = "run" /\ cur'[0] = cur[0]
      /\ stage[0] = "aesInit" \/ (stage[0] = "rsa" /\ cur[0].kind # "rsaInit" /\ cur[0].last = N - 1)
  BY OpenStep DEF OpeningFits
<1>2. cur[0].n \in Numbers
  BY <1>0 DEF TypeOK, Messages, Numbers
<1>3. ASSUME stage[0] = "rsa", cur[0].kind # "rsaInit", cur[0].last = N - 1
      PROVE  AllMarked(bar, cur[0].n)
  <2>0. InHand(0) \in Packets /\ UnderWay(0, InHand(0)) /\ InHand(0).msg = cur[0]
    BY <1>0, <1>1, HandIsUnderWay
  <2>1. MsgFits(bar, cur[0])
    BY <1>0, <2>0 DEF MessagesFit
  <2>2. cur[0].n > Last(0) /\ Last(0) \in Nat
    <3>1. Last(0) \in Nat
      BY <1>0, LastType DEF TypeOK, Last
    <3> QED
      BY <1>0, <1>1, <1>3, <3>1 DEF NumberInv, NumberFresh
  <2>3. cur[0].kind \in Forming
    BY <1>0, <1>1, <2>2 DEF KindsInv, Handled
  <2>4. CASE cur[0].kind = "rsaForm"
    <3>1. Marked(bar, cur[0].n, N - 1)
      BY <1>3, <2>1, <2>4 DEF MsgFits
    <3>2. \A q \in Pos : q < N - 1 => Marked(bar, cur[0].n, q)
      BY <1>0, <1>2, <3>1 DEF MarksFit
    <3>3. \A q \in Pos : q < N - 1 \/ q = N - 1
      BY NAssumption DEF Pos
    <3> QED
      BY <3>1, <3>2, <3>3 DEF AllMarked
  <2>5. CASE cur[0].kind \in {"aesInit", "aesForm"}
    BY <2>1, <2>5 DEF MsgFits
  <2> QED
    BY <1>3, <2>3, <2>4, <2>5 DEF Forming
<1>4. AllMarked(bar, cur[0].n)
  BY <1>1, <1>3 DEF OpeningFits
<1> QED
  BY <1>1, <1>2, <1>4, MarksKeep

LEMMA ParamsFitStep ==
  ASSUME TypeOK, TypeOK', NoEmptyParams, NEW bar \in Bars, NEW new \in Bars,
         NEW m \in Pos, StepOf(m), OthersUntouched(m), Marks(m, bar, new),
         MarksFit(bar), ParamsFit(bar)
  PROVE  ParamsFit(new)'
<1> SUFFICES ASSUME NEW p \in Pos, stage'[p] = "aesForm"
             PROVE  /\ dh'[p].nth < gen'[p]
                    /\ \A k \in Numbers : Marked(new, k, p) => new[k][p] <= dh'[p].nth
  BY DEF ParamsFit
<1>1. CASE p # m
  <2>1. stage[p] = "aesForm" /\ dh'[p] = dh[p] /\ gen'[p] = gen[p]
    BY <1>1, SecretStep DEF OthersUntouched
  <2>2. \A k \in Numbers : new[k][p] = bar[k][p]
    BY <1>1 DEF Marks
  <2> QED
    BY <2>1, <2>2 DEF ParamsFit, Marked
<1>2. CASE p = m
  <2>0. gen[m] \in Nat /\ gen'[m] \in Nat /\ gen[m] <= gen'[m]
    BY GenStep
  <2>1. stage[m] # "rsa"
    BY <1>2, SecretStep
  <2>2. \A k \in Numbers : new[k][m] = bar[k][m]
    BY <2>1 DEF Marks, RsaPublish, At
  <2>3. CASE stage[m] = "aesForm" /\ dh'[m] = dh[m]
    <3>1. dh[m].nth \in Gens /\ dh[m].nth < gen[m]
      BY <2>3 DEF NoEmptyParams, ParamsFit
    <3>2. dh[m].nth < gen'[m]
      BY <2>0, <3>1 DEF Gens
    <3> QED
      BY <1>2, <2>2, <2>3, <3>2 DEF ParamsFit, Marked
  <2>4. CASE dh'[m].nth = gen[m] /\ gen'[m] = gen[m] + 1
    <3>0. \A k \in Numbers : Marked(bar, k, m) => bar[k][m] <= gen[m]
      BY DEF MarksFit
    <3>1. \A k \in Numbers : Marked(new, k, m) => new[k][m] <= gen[m]
      BY <2>2, <3>0 DEF Marked
    <3> QED
      BY <1>2, <2>0, <2>4, <3>1
  <2> QED
    BY <1>2, <2>3, <2>4, SecretStep
<1> QED
  BY <1>1, <1>2

-----------------------------------------------------------------------------
(* The rows after a step.                                                  *)

(* A value in the hands of a member at its turn comes from the one before. *)
LEMMA TurnIs ==
  ASSUME TypeOK, NEW m \in Pos, NumberFresh(m), LocalRing(m), At(m, "aesForm"),
         \E snd \in SendersSeen(m) : MyTurn(m, snd)
  PROVE  /\ cur[m].kind = "aesForm" /\ m = Succ(mail[m].from) /\ cur[m].n > Last(m)
         /\ UnderWay(m, InHand(m)) /\ InHand(m) \in Packets
         /\ InHand(m).msg = cur[m] /\ InHand(m).from = mail[m].from
<1>1. PICK snd \in SendersSeen(m) : MyTurn(m, snd)
  OBVIOUS
<1>2. snd = mail[m].from /\ m = (snd + 1) % N /\ cur[m].kind = "aesForm"
  BY <1>1, TurnHasValue DEF MyTurn
<1>3. cur[m].n > Last(m)
  BY DEF NumberFresh, At
<1>4. /\ InHand(m) \in Packets /\ UnderWay(m, InHand(m))
      /\ InHand(m).msg = cur[m] /\ InHand(m).from = mail[m].from
  BY HandIsUnderWay DEF At
<1> QED
  BY <1>2, <1>3, <1>4 DEF Succ

(* No bar is set for a number above the one the last member forms.         *)
LEMMA LastMarks ==
  ASSUME N > 1, TypeOK, NEW bar \in Bars, MarksFit(bar), NEW n \in Numbers, n > Last(N - 1),
         NEW k \in Numbers, k > n
  PROVE  /\ \A x \in Pos : ~Marked(bar, k, x)
         /\ \A v : Beneath(v, bar, k)
<1>0. N - 1 \in Pos
  BY NAssumption DEF Pos
<1>1. Last(N - 1) \in Int /\ n \in Int /\ k \in Int
  BY <1>0, LastType DEF TypeOK, Last, Numbers
<1>2. ASSUME NEW x \in Pos, Marked(bar, k, x)
      PROVE  FALSE
  <2>1. k <= Last(N - 1) + 1
    BY <1>2 DEF MarksFit
  <2> QED
    BY <1>1, <2>1
<1>3. ASSUME NEW v, NEW x \in Pos, NEW i \in Uses(v, x)
      PROVE  i < bar[k][x]
  BY <1>2, NotMarked, UsesGens
<1> QED
  BY <1>2, <1>3 DEF Beneath

LEMMA StoredFits ==
  ASSUME N > 1, Prompt, TypeOK, NoEmptyParams, NEW bar \in Bars, NEW m \in Pos,
         NumberFresh(m), LocalRing(m), LeadInv, MarksFit(bar), MessagesFit(bar), ParamsFit(bar),
         DuesFit(bar), FormFinish(m), NEW k \in Numbers, k > cur[m].n
  PROVE  Beneath(Multi(m), bar, k)
<1>1. At(m, "aesForm") /\ cur[m].last = m /\ \E snd \in SendersSeen(m) : MyTurn(m, snd)
  BY DEF FormFinish
<1>2. /\ cur[m].kind = "aesForm" /\ m = Succ(mail[m].from) /\ cur[m].n > Last(m)
      /\ UnderWay(m, InHand(m)) /\ InHand(m) \in Packets
      /\ InHand(m).msg = cur[m] /\ InHand(m).from = mail[m].from
  BY <1>1, TurnIs
<1>3. cur[m].n \in Numbers /\ cur[m].key \in Value /\ dh[m] \in Params /\ dh[m].nth \in Gens
  BY <1>1 DEF TypeOK, Messages, Numbers, NoEmptyParams, At
<1>4. m \in {N - 1, N - 2}
  BY FinishIsLate
<1>5. CASE m = N - 1
  BY <1>2, <1>3, <1>5, LastMarks
<1>6. CASE m = N - 2
  <2>1. Due(m, InHand(m))
    BY <1>1, <1>2, <1>6 DEF Due
  <2>2. ~Marked(bar, k, m) /\ Beneath(cur[m].key, bar, k)
    BY <1>2, <2>1 DEF DuesFit, DueFits
  <2> QED
    BY <1>3, <2>2, BeneathRaise DEF Multi
<1> QED
  BY <1>4, <1>5, <1>6

LEMMA RowsFitStep ==
  ASSUME N > 1, Prompt, TypeOK, TypeOK', NoEmptyParams, [Next]_vars, NEW bar \in Bars,
         NEW new \in Bars, NEW m \in Pos, StepOf(m), OthersUntouched(m), Marks(m, bar, new),
         NumberFresh(m), LocalRing(m), LeadInv, MarksFit(bar), MessagesFit(bar), ParamsFit(bar),
         DuesFit(bar), RowsFit(bar)
  PROVE  RowsFit(new)'
<1> SUFFICES ASSUME NEW p \in Pos, NEW r \in Rows(p)'
             PROVE  RowFits(new, r)'
  BY DEF RowsFit
<1>1. ASSUME NEW q \in Rows(p), q.n = r.n, q.key = r.key
      PROVE  RowFits(new, r)'
  <2>1. RowFits(bar, q) /\ q.n \in Numbers
    BY RowType DEF RowsFit, Rows, TypeOK, Numbers
  <2>2. AllMarked(new, r.n) /\ Above(r.key, new, r.n)
    BY <1>1, <2>1, MarksKeep DEF RowFits
  <2>3. Spent(r.key)'
    BY <1>1, <2>1, SpentStays DEF RowFits
  <2>4. \A k \in Numbers : k > r.n => Beneath(r.key, new, k)
    BY <1>1, <2>1, MarksKeep DEF RowFits
  <2> QED
    BY <2>2, <2>3, <2>4 DEF RowFits, Spent
<1>2. CASE p # m
  <2>1. r \in Rows(p)
    BY <1>2 DEF OthersUntouched, Rows
  <2> QED
    BY <1>1, <2>1
<1>3. CASE p = m /\ FormFinish(m) /\ r = Row(cur[m].n, Multi(m), InUse)
  <2>1. r.n = cur[m].n /\ r.key = Multi(m)
    BY <1>3 DEF Row
  <2>2. At(m, "aesForm") /\ cur[m].kind = "aesForm"
    BY <1>3 DEF FormFinish, MyTurn
  <2>3. new = bar
    BY <2>2, FormMarksNone
  <2>4. AllMarked(bar, r.n) /\ Above(r.key, bar, r.n) /\ Spent(r.key)
    BY <2>1, <2>2, FormValues
  <2>5. Spent(r.key)'
    BY <2>4, SpentStays
  <2>6. \A k \in Numbers : k > r.n => Beneath(r.key, bar, k)
    BY <1>3, <2>1, StoredFits
  <2> QED
    BY <2>3, <2>4, <2>5, <2>6 DEF RowFits, Spent
<1> QED
  BY <1>1, <1>2, <1>3, NewRows DEF FormSolo

-----------------------------------------------------------------------------
(* Values that are due at the member before the last.                      *)

LEMMA DueStays ==
  ASSUME N > 1, TypeOK, TypeOK', NoEmptyParams, [Next]_vars, NEW x, NEW pk \in Packets, Due(x, pk)'
  PROVE  Due(x, pk)
<1>1. N - 2 \in Pos
  BY NAssumption DEF Pos
<1>2. Last(N - 2) \in Numbers /\ Last(N - 2)' \in Numbers /\ Last(N - 2) <= Last(N - 2)'
  BY <1>1, LastStep
<1>3. pk.msg.n \in Numbers /\ pk.msg.n > Last(N - 2)'
  BY DEF Packets, Messages, Numbers, Due
<1>4. pk.msg.n > Last(N - 2)
  BY <1>2, <1>3 DEF Numbers
<1> QED
  BY <1>4 DEF Due

(* When such a value is sent to a member, it has published for no larger
   number, and nothing on the way to it makes it do so.                    *)
LEMMA DueSent ==
  ASSUME N > 1, Prompt, TypeOK, NoEmptyParams, NEW bar \in Bars, NEW m \in Pos,
         NumberFresh(m), LocalRing(m), LeadInv, MarksFit(bar), MessagesFit(bar), ParamsFit(bar),
         DuesFit(bar), NEW msg, Sends(m, msg), NEW x \in Pos, Due(x, [msg |-> msg, from |-> m])
  PROVE  /\ DueFits(bar, x, [msg |-> msg, from |-> m]) /\ At(m, "aesForm")
         /\ \A pk \in Packets : UnderWay(x, pk) /\ Trigger(x, pk.msg) => ~(pk.msg.n > msg.n)
<1> DEFINE due == [msg |-> msg, from |-> m]
<1>0. msg.kind = "aesForm" /\ msg.last = N - 2 /\ x = Succ(m)
  BY DEF Due
<1>1. cur[m].n \in Numbers /\ cur[m].key \in Value /\ dh[m] \in Params
  BY DEF TypeOK, Messages, Numbers
<1>2. \/ FormFinish(m) /\ m # 0 /\ msg = Msg("aesForm", cur[m].n, m - 1, Public(m, dh[m]))
      \/ FormForward(m) /\ msg = Msg("aesForm", cur[m].n, cur[m].last, Multi(m))
  <2>1. msg.kind # "aesForm" \/ msg.last # N - 2
        \/ (FormFinish(m) /\ m # 0 /\ msg = Msg("aesForm", cur[m].n, m - 1, Public(m, dh[m])))
        \/ (FormForward(m) /\ msg = Msg("aesForm", cur[m].n, cur[m].last, Multi(m)))
    BY NAssumption DEF Sends, EndEncryptionMsg, Msg
  <2> QED
    BY <1>0, <2>1
<1>3. At(m, "aesForm") /\ (\E snd \in SendersSeen(m) : MyTurn(m, snd)) /\ msg.n = cur[m].n
  BY <1>2 DEF FormFinish, FormForward, Msg
<1>4. /\ cur[m].kind = "aesForm" /\ m = Succ(mail[m].from) /\ cur[m].n > Last(m)
      /\ UnderWay(m, InHand(m)) /\ InHand(m) \in Packets
      /\ InHand(m).msg = cur[m] /\ InHand(m).from = mail[m].from
  BY <1>3, TurnIs
<1>5. CASE FormFinish(m) /\ m # 0 /\ msg = Msg("aesForm", cur[m].n, m - 1, Public(m, dh[m]))
  <2>1. m = N - 1
    BY <1>0, <1>5, NAssumption DEF Msg, Pos
  <2>2. cur[m].n > Last(N - 1)
    BY <1>4, <2>1
  <2>3. \A k \in Numbers : k > msg.n => (\A y \in Pos : ~Marked(bar, k, y)) /\ \A v : Beneath(v, bar, k)
    BY <1>1, <1>3, <2>2, LastMarks
  <2>4. ASSUME NEW pk \in Packets, UnderWay(x, pk), pk.msg.n > msg.n
        PROVE  FALSE
    <3>1. pk.msg.n <= Last(N - 1) + 1 /\ pk.msg.n \in Numbers
      BY <2>4 DEF LeadInv, Follows, Packets, Messages, Numbers
    <3>2. Last(N - 1) \in Int
      BY <2>1, LastType DEF TypeOK, Last
    <3> QED
      BY <1>1, <1>3, <2>2, <2>4, <3>1, <3>2 DEF Numbers
  <2> QED
    BY <1>3, <2>3, <2>4 DEF DueFits
<1>6. CASE FormForward(m) /\ msg = Msg("aesForm", cur[m].n, cur[m].last, Multi(m))
  <2>1. msg.key = Multi(m) /\ cur[m].last = N - 2
    BY <1>0, <1>6 DEF Msg
  <2>2. Due(m, InHand(m))
    <3>1. cur[m].n > Last(N - 2)
      BY <1>3 DEF Due
    <3> QED
      BY <1>4, <2>1, <3>1 DEF Due
  <2>3. \A k \in Numbers : k > cur[m].n => ~Marked(bar, k, m) /\ Beneath(cur[m].key, bar, k)
    BY <1>4, <2>2 DEF DuesFit, DueFits
  <2>4. m # N - 1
    <3>1. Follows(InHand(m))
      BY <1>4 DEF LeadInv
    <3>2. cur[m].n <= Last(N - 1)
      BY <1>4, <2>1, <3>1, NAssumption DEF Follows
    <3>3. m = N - 1 => Last(N - 1) \in Int
      BY LastType DEF TypeOK, Last
    <3> QED
      BY <1>1, <1>4, <3>2, <3>3 DEF Numbers
  <2>5. x = m + 1 /\ x > m /\ x # 0
    BY <1>0, <2>4, SuccIs DEF Succ, Pos
  <2>6. ASSUME NEW k \in Numbers, k > msg.n
        PROVE  ~Marked(bar, k, x) /\ Beneath(msg.key, bar, k)
    <3>1. ~Marked(bar, k, m) /\ Beneath(cur[m].key, bar, k)
      BY <1>3, <2>3, <2>6
    <3>2. ~Marked(bar, k, x)
      BY <2>5, <3>1 DEF MarksFit
    <3>3. dh[m].nth \in Gens
      BY <1>3 DEF At, NoEmptyParams
    <3>4. Beneath(Multi(m), bar, k)
      BY <1>1, <3>1, <3>3, BeneathRaise DEF Multi
    <3> QED
      BY <2>1, <3>2, <3>4
  <2>7. ASSUME NEW pk \in Packets, UnderWay(x, pk), Trigger(x, pk.msg), pk.msg.n > msg.n
        PROVE  FALSE
    <3>1. MsgFits(bar, pk.msg) /\ pk.msg.n \in Numbers /\ pk.msg.last \in Pos
      BY <2>7 DEF MessagesFit, Packets, Messages, Numbers
    <3>2. pk.msg.kind \in {"rsaForm", "aesInit", "aesForm"} /\ x = pk.msg.last + 1
      BY <2>5, <2>7 DEF Trigger, Forming
    <3>3. pk.msg.last = m
      BY <2>5, <3>1, <3>2 DEF Pos
    <3>4. Marked(bar, pk.msg.n, m)
      BY <3>1, <3>2, <3>3 DEF MsgFits, AllMarked
    <3> QED
      BY <1>3, <2>3, <2>7, <3>1, <3>4
  <2> QED
    BY <1>3, <2>6, <2>7 DEF DueFits
<1> QED
  BY <1>2, <1>5, <1>6

LEMMA DuesFitStep ==
  ASSUME N > 1, Prompt, TypeOK, TypeOK', NoEmptyParams, [Next]_vars, NEW bar \in Bars,
         NEW new \in Bars, NEW m \in Pos, StepOf(m), OthersUntouched(m), Marks(m, bar, new),
         NumberInv, KindsInv, LocalRing(m), LeadInv, MarksFit(bar), MessagesFit(bar),
         ParamsFit(bar), DuesFit(bar), InOrder(m)
  PROVE  DuesFit(new)'
<1> SUFFICES ASSUME NEW x \in Pos, NEW pk \in Packets, UnderWay(x, pk)', Due(x, pk)'
             PROVE  DueFits(new, x, pk)
  BY DEF DuesFit, DueFits
<1>0. Due(x, pk) /\ pk.msg.n \in Numbers /\ NumberFresh(m)
  BY DueStays DEF Packets, Messages, Numbers, NumberInv
<1>1. CASE UnderWay(x, pk)
  <2>1. DueFits(bar, x, pk)
    BY <1>0, <1>1 DEF DuesFit
  <2>2. Spent(pk.msg.key)
    BY <1>0, <1>1 DEF MessagesFit, MsgFits, Due
  <2>3. ASSUME NEW k \in Numbers, k > pk.msg.n, Marked(new, k, x)
        PROVE  FALSE
    <3>1. x = m /\ k = cur[m].n /\ RsaPublish(m)
      BY <2>1, <2>3 DEF Marks, Marked, DueFits
    <3>2. Trigger(m, cur[m]) /\ pc[m] = "run"
      BY <3>1, TurnIsTrigger
    <3>3. Overtakes(m, cur[m], pk)
      BY <1>0, <2>3, <3>1, <3>2 DEF Overtakes
    <3>4. pk \notin Elems(inbox[m])
      <4>1. InHand(m) \in Packets /\ InHand(m).msg = cur[m]
        BY <3>2, HandIsUnderWay
      <4> QED
        BY <3>2, <3>3, <4>1 DEF InOrder
    <3>5. ~fresh[m]
      BY <1>0, <3>2 DEF NumberFresh
    <3>6. pk = InHand(m)
      BY <1>1, <3>1, <3>4, <3>5 DEF UnderWay
    <3>7. pk.msg = cur[m]
      BY <3>6 DEF InHand
    <3> QED
      BY <1>0, <2>3, <3>1, <3>7 DEF Numbers
  <2>4. \A k \in Numbers : k > pk.msg.n => Beneath(pk.msg.key, new, k)
    BY <2>1, <2>2, MarksKeep DEF DueFits
  <2> QED
    BY <2>3, <2>4 DEF DueFits
<1>2. CASE pk.msg = NoMsg
  BY <1>0, <1>2 DEF Due, NoMsg, Msg
<1>3. CASE Sends(m, pk.msg) /\ pk.from = m
  <2>1. pk = [msg |-> pk.msg, from |-> m]
    BY <1>3 DEF Packets
  <2> DEFINE msg == pk.msg
  <2> HIDE DEF msg
  <2>2. Sends(m, msg) /\ Due(x, [msg |-> msg, from |-> m]) /\ pk = [msg |-> msg, from |-> m]
    BY <1>0, <1>3, <2>1 DEF msg
  <2>3. DueFits(bar, x, [msg |-> msg, from |-> m]) /\ At(m, "aesForm")
    BY <1>0, <2>2, DueSent
  <2>4. new = bar
    BY <2>3, FormMarksNone
  <2> QED
    BY <2>2, <2>3, <2>4
<1> QED
  BY <1>0, <1>1, <1>2, <1>3, PacketStep DEF NewPacket, Due

(* The order of the messages on the way to a member after a step.          *)
LEMMA OrderStep ==
  ASSUME N > 1, Prompt, TypeOK, TypeOK', NoEmptyParams, [Next]_vars, NEW bar \in Bars,
         NEW m \in Pos, StepOf(m), ~Resend(m), OthersUntouched(m), NumberInv, LocalRing(m), LeadInv,
         MarksFit(bar), MessagesFit(bar), ParamsFit(bar), DuesFit(bar), NEW x \in Pos, InOrder(x)
  PROVE  InOrder(x)'
<1> SUFFICES ASSUME NEW pk \in Packets, NEW ahead \in Packets, Overtakes(x, ahead.msg, pk)'
             PROVE  /\ \A i, j \in DOMAIN inbox'[x] :
                         inbox'[x][i] = pk /\ inbox'[x][j] = ahead => i < j
                    /\ pk \in Elems(inbox'[x]) =>
                         /\ fresh'[x] => ahead # mail'[x]
                         /\ pc'[x] = "run" => ahead # [msg |-> cur'[x], from |-> mail'[x].from]
  BY DEF InOrder, InHand
<1>1. Overtakes(x, ahead.msg, pk)
  BY DueStays DEF Overtakes
<1>2. /\ \A i, j \in DOMAIN inbox[x] : inbox[x][i] = pk /\ inbox[x][j] = ahead => i < j
      /\ pk \in Elems(inbox[x]) => /\ fresh[x] => ahead # mail[x]
                                   /\ pc[x] = "run" => ahead # InHand(x)
  BY <1>1 DEF InOrder
<1>3. inbox[x] \in Seq(Packets)
  BY DEF TypeOK
<1>4. /\ Trigger(x, ahead.msg) /\ Due(x, pk) /\ ahead.msg.n > pk.msg.n
      /\ ahead.msg.n \in Int /\ pk.msg.n \in Int
  BY <1>1 DEF Overtakes, Packets, Messages
<1>5. CASE x = m
  <2>1. \/ inbox'[m] = inbox[m] \/ inbox'[m] = <<>>
        \/ inbox[m] # <<>> /\ inbox'[m] = Tail(inbox[m])
    BY StepArrives DEF Arrives, Quieter, Broadcast
  <2>2. \A i, j \in DOMAIN inbox'[m] : inbox'[m][i] = pk /\ inbox'[m][j] = ahead => i < j
    <3>1. CASE inbox'[m] = inbox[m] \/ inbox'[m] = <<>>
      BY <1>2, <1>5, <3>1
    <3>2. CASE inbox[m] # <<>> /\ inbox'[m] = Tail(inbox[m])
      <4>1. \A i \in DOMAIN inbox'[m] : /\ i \in Nat /\ i + 1 \in DOMAIN inbox[m]
                                        /\ inbox'[m][i] = inbox[m][i + 1]
        BY <1>3, <1>5, <3>2
      <4>2. ASSUME NEW i \in DOMAIN inbox'[m], NEW j \in DOMAIN inbox'[m],
                   inbox'[m][i] = pk, inbox'[m][j] = ahead
            PROVE  i < j
        <5>1. i + 1 < j + 1
          BY <1>2, <1>5, <4>1, <4>2
        <5> QED
          BY <4>1, <5>1
      <4> QED
        BY <4>2
    <3> QED
      BY <2>1, <3>1, <3>2
  <2>3. ASSUME pk \in Elems(inbox'[m])
        PROVE  /\ fresh'[m] => ahead # mail'[m]
               /\ pc'[m] = "run" => ahead # [msg |-> cur'[m], from |-> mail'[m].from]
    <3>1. pk \in Elems(inbox[m])
      <4>1. inbox[m] # <<>> => Elems(Tail(inbox[m])) \subseteq Elems(inbox[m])
        BY <1>3, <1>5, TailElems
      <4>2. inbox'[m] # <<>>
        BY <2>3 DEF Elems
      <4> QED
        BY <2>1, <2>3, <4>1, <4>2
    <3>2. /\ fresh[m] => ahead # mail[m]
          /\ pc[m] = "run" => ahead # InHand(m)
      BY <1>2, <1>5, <3>1
    <3>3. ASSUME fresh'[m], ahead = mail'[m]
          PROVE  FALSE
      <4>1. CASE fresh[m] /\ mail'[m] = mail[m]
        BY <3>2, <3>3, <4>1
      <4>2. CASE mail'[m] = [msg |-> NoMsg, from |-> m]
        <5>1. ahead.msg.kind = "none"
          BY <3>3, <4>2 DEF NoMsg, Msg
        <5> QED
          BY <1>4, <5>1 DEF Trigger, Forming
      <4>3. CASE DispatchForming(m) /\ mail'[m] = Packet(m)
        <5>1. inbox[m] # <<>> /\ inbox'[m] = Tail(inbox[m])
          BY <4>3 DEF DispatchForming, Reads, TypeOK
        <5>2. ahead = inbox[m][1] /\ 1 \in DOMAIN inbox[m]
          BY <1>3, <1>5, <3>3, <4>3, <5>1 DEF Packet
        <5>3. PICK i \in DOMAIN inbox'[m] : inbox'[m][i] = pk
          BY <2>3 DEF Elems
        <5>4. i \in Nat /\ i >= 1 /\ i + 1 \in DOMAIN inbox[m] /\ inbox[m][i + 1] = pk
          BY <1>3, <1>5, <5>1, <5>3
        <5>5. i + 1 < 1
          BY <1>2, <1>5, <5>2, <5>4
        <5> QED
          BY <5>4, <5>5
      <4> QED
        BY <3>3, <4>1, <4>2, <4>3, HandStep
    <3>4. ASSUME pc'[m] = "run", ahead = [msg |-> cur'[m], from |-> mail'[m].from]
          PROVE  FALSE
      <4>0. mail'[m] = mail[m] /\ ahead.msg = cur'[m] /\ ahead.from = mail[m].from
        BY <3>4, HandStep
      <4>1. CASE pc[m] = "run" /\ cur'[m] = cur[m]
        BY <3>2, <3>4, <4>0, <4>1 DEF InHand
      <4>2. CASE fresh[m] /\ cur'[m] = mail[m].msg
        <5>1. mail[m] = [msg |-> mail[m].msg, from |-> mail[m].from]
          BY DEF TypeOK, Packets
        <5> QED
          BY <3>2, <3>4, <4>0, <4>2, <5>1
      <4>3. CASE InitRsa(m) /\ cur'[m] = Msg("rsaInit", Last(m) + 1, m, Base({}))
        <5>1. ahead.msg.kind = "rsaInit" /\ ahead.msg.n = Last(m) + 1
          BY <4>0, <4>3 DEF Msg
        <5>2. m = 0
          BY <1>4, <1>5, <5>1 DEF Trigger
        <5>3. pk.msg.n > Last(N - 2)
          BY <1>4 DEF Due
        <5>4. Last(m) \in Nat /\ N - 2 \in Pos /\ Last(N - 2) \in Nat
          <6>1. N - 2 \in Pos
            BY NAssumption DEF Pos
          <6> QED
            BY <6>1, LastType DEF TypeOK, Last
        <5>5. Last(m) <= Last(N - 2)
          <6>1. CASE m = N - 2
            BY <5>4, <6>1
          <6>2. CASE m # N - 2
            <7>1. aes[m] = <<>>
              BY <5>2, <6>2, NAssumption DEF LeadInv
            <7>2. Last(m) = 0
              BY <7>1 DEF Last, LastKeyN
            <7> QED
              BY <5>4, <7>2
          <6> QED
            BY <6>1, <6>2
        <5> QED
          BY <1>4, <5>1, <5>3, <5>4, <5>5
      <4>4. CASE AesInitSend(m) /\ cur'[m] = Msg("aesInit", cur[m].n, m, Base({gen[m]}))
        <5>1. ahead.msg.kind = "aesInit" /\ ahead.msg.last = m /\ m = 0
          BY <4>0, <4>4 DEF Msg, AesInitSend
        <5> QED
          BY <1>4, <1>5, <5>1 DEF Trigger
      <4> QED
        BY <3>4, <4>1, <4>2, <4>3, <4>4, HandStep
    <3> QED
      BY <3>3, <3>4
  <2> QED
    BY <1>5, <2>2, <2>3
<1>6. CASE x # m
  <2>1. fresh'[x] = fresh[x] /\ mail'[x] = mail[x] /\ pc'[x] = pc[x] /\ cur'[x] = cur[x]
    BY <1>6 DEF OthersUntouched
  <2>2. CASE inbox'[x] = inbox[x]
    BY <1>2, <2>1, <2>2 DEF InHand
  <2>3. ASSUME NEW msg \in Messages, Sends(m, msg),
               inbox'[x] = Append(inbox[x], [msg |-> msg, from |-> m])
        PROVE  /\ \A i, j \in DOMAIN inbox'[x] :
                    inbox'[x][i] = pk /\ inbox'[x][j] = ahead => i < j
               /\ pk \in Elems(inbox'[x]) =>
                    /\ fresh'[x] => ahead # mail'[x]
                    /\ pc'[x] = "run" => ahead # [msg |-> cur'[x], from |-> mail'[x].from]
    <3> DEFINE new == [msg |-> msg, from |-> m]
               last == Len(inbox[x]) + 1
    <3>0. new \in Packets
      BY DEF Packets
    <3>1. /\ DOMAIN inbox'[x] = DOMAIN inbox[x] \cup {last} /\ inbox'[x][last] = new
          /\ \A i \in DOMAIN inbox[x] : inbox'[x][i] = inbox[x][i] /\ i < last
      <4> HIDE DEF new
      <4> QED
        BY <1>3, <2>3, <3>0 DEF new
    <3>2. ASSUME pk = new, UnderWay(x, ahead)
          PROVE  FALSE
      <4>1. Due(x, [msg |-> msg, from |-> m]) /\ NumberFresh(m)
        BY <1>4, <3>2 DEF NumberInv
      <4>2. ~(ahead.msg.n > msg.n)
        BY <1>4, <2>3, <3>2, <4>1, DueSent
      <4> QED
        BY <1>4, <3>2, <4>2
    <3>3. ASSUME NEW i \in DOMAIN inbox'[x], NEW j \in DOMAIN inbox'[x],
                 inbox'[x][i] = pk, inbox'[x][j] = ahead
          PROVE  i < j
      <4> HIDE DEF new, last
      <4>1. CASE i \in DOMAIN inbox[x] /\ j \in DOMAIN inbox[x]
        BY <1>2, <3>1, <3>3, <4>1
      <4>2. CASE i \in DOMAIN inbox[x] /\ j = last
        BY <3>1, <4>2
      <4>3. CASE i = last /\ j \in DOMAIN inbox[x]
        <5>1. pk = new /\ ahead \in Elems(inbox[x])
          BY <3>1, <3>3, <4>3 DEF Elems
        <5> QED
          BY <3>2, <5>1 DEF UnderWay
      <4>4. CASE i = last /\ j = last
        <5>1. pk = ahead
          BY <3>3, <4>4
        <5> QED
          BY <1>4, <5>1
      <4> QED
        BY <3>1, <3>3, <4>1, <4>2, <4>3, <4>4
    <3>4. ASSUME pk \in Elems(inbox'[x])
          PROVE  /\ fresh[x] => ahead # mail[x]
                 /\ pc[x] = "run" => ahead # InHand(x)
      <4>1. pk \in Elems(inbox[x]) \/ pk = new
        BY <3>1, <3>4 DEF Elems
      <4>2. CASE pk \in Elems(inbox[x])
        BY <1>2, <4>2
      <4>3. CASE pk = new
        BY <3>2, <4>3 DEF UnderWay
      <4> QED
        BY <4>1, <4>2, <4>3
    <3> QED
      BY <2>1, <3>3, <3>4 DEF InHand
  <2>4. inbox'[x] = inbox[x] \/ \E msg \in Messages :
          Sends(m, msg) /\ inbox'[x] = Append(inbox[x], [msg |-> msg, from |-> m])
    BY <1>6, StepArrives DEF Arrives, Quieter, Broadcast
  <2> QED
    BY <2>2, <2>3, <2>4
<1> QED
  BY <1>5, <1>6

(* After a step the old bars still do, or those with one more bar set.      *)
LEMMA ApartStep ==
  ASSUME N > 1, Prompt, TypeOK, TypeOK', NoEmptyParams, NumberInv, RingInv, LeadInv, KindsInv,
         ApartInv, [Next]_vars
  PROVE  ApartInv'
<1> SUFFICES ASSUME used'["resent"] = 0
             PROVE  (\A x \in Pos : InOrder(x)') /\ \E bar \in Bars : Apart(bar)'
  BY DEF ApartInv
<1>1. CASE UNCHANGED vars
  <2>1. used["resent"] = 0
    BY <1>1 DEF vars
  <2>2. PICK bar \in Bars : Apart(bar)
    BY <2>1 DEF ApartInv
  <2>3. Apart(bar)'
    BY <1>1, <2>2
    DEF vars, Apart, MarksFit, MessagesFit, OpeningFits, ParamsFit, RowsFit, DuesFit, MsgFits,
        Spent, RowFits, Due, UnderWay, InHand, Last, Rows
  <2>4. ASSUME NEW x \in Pos
        PROVE  InOrder(x)'
    BY <1>1, <2>1 DEF vars, ApartInv, InOrder, Overtakes, Due, InHand, Last
  <2> QED
    BY <2>3, <2>4
<1>2. ASSUME NEW m \in Pos, StepOf(m)
      PROVE  (\A x \in Pos : InOrder(x)') /\ \E bar \in Bars : Apart(bar)'
  <2>1. used["resent"] = 0 /\ ~Resend(m)
    <3>1. used["resent"] \in Nat
      BY DEF TypeOK, Events
    <3>2. used' = used \/ \E e \in Events : Use(e)
      BY <1>2
      DEF StepOf, User, PressStart, PressStop, Lifecycle, TimerStop, Joined, Dispatch,
          DispatchForming, DispatchEnding, DispatchOther, Worker, Take, InitRsa, RsaStage,
          RsaPublish, RsaListen, AesInitStage, AesInitSend, AesInitReceive, FormStage, FormSolo,
          FormBegin, FormFinish, FormForward, FormIgnore, EndKeyForming, Environment, Resend, Lose,
          Restart, Events
    <3>3. ASSUME NEW e \in Events, Use(e)
          PROVE  used'["resent"] = IF e = "resent" THEN used["resent"] + 1 ELSE used["resent"]
      BY <3>3 DEF Use, TypeOK, Events
    <3>4. used["resent"] = 0
      BY <3>1, <3>2, <3>3
    <3>5. Resend(m) => Use("resent") /\ "resent" \in Events
      BY DEF Resend, Events
    <3>6. ~Resend(m)
      BY <3>3, <3>4, <3>5
    <3> QED
      BY <3>4, <3>6
  <2>2. OthersUntouched(m) /\ NumberFresh(m) /\ LocalRing(m)
    BY <1>2, UserNumbers, DispatchNumbers, WorkerNumbers, EnvironmentNumbers
    DEF NumberInv, RingInv, StepOf
  <2>3. PICK bar \in Bars : Apart(bar)
    BY <2>1 DEF ApartInv
  <2>4. /\ MarksFit(bar) /\ MessagesFit(bar) /\ OpeningFits(bar) /\ ParamsFit(bar)
        /\ RowsFit(bar) /\ DuesFit(bar) /\ \A x \in Pos : InOrder(x)
    BY <2>1, <2>3 DEF Apart, ApartInv
  <2>5. PICK new \in Bars : Marks(m, bar, new)
    BY MarksExist
  <2>6. MarksFit(new)'
    BY <1>2, <2>4, <2>5, MarksStep
  <2>7. MessagesFit(new)'
    BY <1>2, <2>2, <2>4, <2>5, MessagesFitStep
  <2>8. OpeningFits(new)'
    BY <1>2, <2>2, <2>4, <2>5, OpeningStep
  <2>9. ParamsFit(new)'
    BY <1>2, <2>2, <2>4, <2>5, ParamsFitStep
  <2>10. RowsFit(new)'
    BY <1>2, <2>2, <2>4, <2>5, RowsFitStep
  <2>11. DuesFit(new)'
    BY <1>2, <2>2, <2>4, <2>5, DuesFitStep
  <2>12. ASSUME NEW x \in Pos
         PROVE  InOrder(x)'
    BY <1>2, <2>1, <2>2, <2>4, OrderStep
  <2>13. Apart(new)'
    BY <2>6, <2>7, <2>8, <2>9, <2>10, <2>11 DEF Apart
  <2> QED
    BY <2>12, <2>13
<1> QED
  BY <1>1, <1>2 DEF Next, StepOf

(* Bars that keep the exchanges apart exist in every reachable state.       *)
LEMMA ApartCorrect == Prompt /\ N > 1 => (Spec => []ApartInv)
<1>1. ASSUME N > 1 PROVE Init => ApartInv
  <2> SUFFICES ASSUME Init
               PROVE  ApartInv
    OBVIOUS
  <2> DEFINE bar == [k \in Numbers |-> [p \in Pos |-> MaxGen + 1]]
  <2>1. bar \in Bars /\ \A k \in Numbers, p \in Pos : ~Marked(bar, k, p)
    BY BoundsAssumption DEF Bars, Marked
  <2> HIDE DEF bar
  <2>2. \A p \in Pos : /\ inbox[p] = <<>> /\ ~fresh[p] /\ pc[p] = "off" /\ aes[p] = <<>>
                       /\ stage[p] = "initRsa"
    BY DEF Init
  <2>3. \A p \in Pos : Elems(inbox[p]) = {} /\ Rows(p) = {}
    BY <2>2 DEF Elems, Rows
  <2>4. \A p \in Pos : \A pk : ~UnderWay(p, pk)
    BY <2>2, <2>3 DEF UnderWay
  <2>5. 0 \in Pos
    BY NAssumption DEF Pos
  <2>6. Apart(bar)
    BY <2>1, <2>2, <2>3, <2>4, <2>5
    DEF Apart, MarksFit, MessagesFit, OpeningFits, ParamsFit, RowsFit, DuesFit
  <2>7. \A x \in Pos : InOrder(x)
    BY <2>2, <2>3 DEF InOrder
  <2> QED
    BY <2>1, <2>6, <2>7 DEF ApartInv
<1>2. ASSUME Prompt, N > 1 PROVE Spec => []ApartInv
  <2>1. TypeOK /\ TypeOK' /\ NoEmptyParams /\ NumberInv /\ RingInv /\ LeadInv /\ KindsInv
          /\ ApartInv /\ [Next]_vars => ApartInv'
    BY <1>2, ApartStep
  <2>2. Spec => []NumberInv /\ []RingInv /\ []KindsInv
    BY <1>2, NumbersCorrect, RingCorrect, KindsCorrect
  <2>3. Spec => []LeadInv
    BY <1>2, LeadCorrect
  <2> QED
    BY <1>1, <1>2, <2>1, <2>2, <2>3, TypeCorrect, ParamsPresent, PTL DEF Spec
<1> QED
  BY <1>2

(* In a chat with oneself every key is an exponent of its own.             *)
Unshared(r, q) == r.n # q.n => \A x \in Pos : Uses(r.key, x) \cap Uses(q.key, x) = {}
SoloInv == \A m, p \in Pos : \A r \in Rows(m), q \in Rows(p) : Spent(r.key) /\ Unshared(r, q)

LEMMA SoloStep ==
  ASSUME N = 1, TypeOK, TypeOK', NoEmptyParams, SoloInv, [Next]_vars
  PROVE  SoloInv'
<1>0. Pos = {0}
  BY NAssumption DEF Pos
<1>1. CASE UNCHANGED vars
  <2>1. aes' = aes /\ gen' = gen
    BY <1>1 DEF vars
  <2>2. \A m \in Pos : Rows(m)' = Rows(m)
    BY <2>1 DEF Rows
  <2>3. ASSUME NEW v, Spent(v)
        PROVE  Spent(v)'
    BY <2>1, <2>3 DEF Spent
  <2>4. ASSUME NEW m \in Pos, NEW p \in Pos, NEW r \in Rows(m)', NEW q \in Rows(p)'
        PROVE  Spent(r.key)' /\ Unshared(r, q)
    <3>1. r \in Rows(m) /\ q \in Rows(p)
      BY <2>2, <2>4
    <3>2. Spent(r.key) /\ Unshared(r, q)
      BY <3>1 DEF SoloInv
    <3> QED
      BY <2>3, <3>2
  <2> QED
    BY <2>4 DEF SoloInv
<1>2. ASSUME NEW m \in Pos, StepOf(m)
      PROVE  SoloInv'
  <2>0. m = 0
    BY <1>0
  <2> DEFINE Old(r) == \E q \in Rows(m) : q.n = r.n /\ q.key = r.key
             Fresh(r) == FormSolo(m) /\ r = Row(cur[m].n, SoloKey(m), InUse)
  <2>1. \A r \in Rows(m)' : Old(r) \/ Fresh(r)
    BY NewRows DEF FormFinish
  <2>2. ASSUME NEW r, Old(r)
        PROVE  Spent(r.key) /\ Spent(r.key)'
    <3>1. Spent(r.key)
      BY <2>2 DEF SoloInv
    <3> QED
      BY <1>2, <3>1, SpentStays
  <2>3. ASSUME NEW r, Fresh(r)
        PROVE  /\ r.n = cur[m].n /\ Spent(r.key)'
               /\ \A x \in Pos : Uses(r.key, x) \subseteq {gen[m]}
    <3>1. gen[m] \in Gens /\ gen'[m] = gen[m] + 1
      BY <2>3, BoundsAssumption DEF FormSolo, Generate, TypeOK, Gens
    <3>2. NewParams(m, {}) \in Params /\ NewParams(m, {}).nth = gen[m]
      BY <3>1 DEF NewParams, Params
    <3>3. r.n = cur[m].n /\ r.key = Public(m, NewParams(m, {}))
      BY <2>3 DEF Row, SoloKey
    <3>4. \A x \in Pos : \A i \in Uses(r.key, x) : x = m /\ i = gen[m]
      BY <3>1, <3>2, <3>3, PublicUses
    <3>5. gen[m] < gen'[m]
      BY <3>1 DEF Gens
    <3>6. Spent(r.key)'
      BY <3>4, <3>5 DEF Spent
    <3> QED
      BY <3>3, <3>4, <3>6
  <2>4. ASSUME NEW r, NEW q, Old(r), Fresh(q)
        PROVE  Unshared(r, q) /\ Unshared(q, r)
    <3>1. \A x \in Pos : \A i \in Uses(r.key, x) : i < gen[m] /\ i \in Nat
      BY <1>0, <2>0, <2>2, <2>4, UsesGens DEF Spent, Gens
    <3>2. \A x \in Pos : Uses(q.key, x) \subseteq {gen[m]}
      BY <2>3, <2>4
    <3>3. \A x \in Pos : Uses(r.key, x) \cap Uses(q.key, x) = {}
      BY <3>1, <3>2
    <3> QED
      BY <3>3 DEF Unshared
  <2>5. ASSUME NEW r, NEW q, Old(r), Old(q)
        PROVE  Unshared(r, q)
    <3>1. PICK r0 \in Rows(m) : r0.n = r.n /\ r0.key = r.key
      BY <2>5
    <3>2. PICK q0 \in Rows(m) : q0.n = q.n /\ q0.key = q.key
      BY <2>5
    <3>3. Unshared(r0, q0)
      BY DEF SoloInv
    <3> QED
      BY <3>1, <3>2, <3>3 DEF Unshared
  <2>6. ASSUME NEW r, NEW q, Fresh(r), Fresh(q)
        PROVE  Unshared(r, q)
    BY <2>3, <2>6 DEF Unshared
  <2>7. ASSUME NEW r \in Rows(m)', NEW q \in Rows(m)'
        PROVE  Spent(r.key)' /\ Unshared(r, q)
    <3>1. (Old(r) \/ Fresh(r)) /\ (Old(q) \/ Fresh(q))
      BY <2>1
    <3>2. Spent(r.key)'
      BY <2>2, <2>3, <3>1
    <3> HIDE DEF Old, Fresh
    <3>3. Unshared(r, q)
      BY <2>4, <2>5, <2>6, <3>1
    <3> QED
      BY <3>2, <3>3
  <2>8. \A p \in Pos : p = m
    BY <1>0
  <2> QED
    BY <2>7, <2>8 DEF SoloInv
<1> QED
  BY <1>1, <1>2 DEF Next, StepOf

(* Keys of different numbers have no private exponent in common, however many
   exchanges there are, overtake each other, lose messages, are stopped or
   start again, unless the server repeats a message: a worker that was never
   stopped does not raise a value of a later exchange to an exponent it has
   already used for an earlier one.                                        *)
THEOREM RefreshedKeysIndependent == Prompt => (Spec => []KeysIndependent)
<1>1. ASSUME N > 1
      PROVE  TypeOK /\ ApartInv => KeysIndependent
  <2> SUFFICES ASSUME TypeOK, ApartInv, used["resent"] = 0, NEW m \in Pos, NEW p \in Pos,
                      NEW r \in Rows(m), NEW q \in Rows(p), r.n # q.n, NEW x \in Pos
               PROVE  Uses(r.key, x) \cap Uses(q.key, x) = {}
    BY DEF KeysIndependent
  <2>1. PICK bar \in Bars : Apart(bar)
    BY DEF ApartInv
  <2>2. RowFits(bar, r) /\ RowFits(bar, q)
    BY <2>1 DEF Apart, RowsFit
  <2>3. r.n \in Numbers /\ q.n \in Numbers
    BY RowType DEF Rows, TypeOK, Numbers
  <2>4. ASSUME NEW a, NEW b, RowFits(bar, a), RowFits(bar, b), a.n < b.n, b.n \in Numbers
        PROVE  Uses(a.key, x) \cap Uses(b.key, x) = {}
    <3>1. \A i \in Uses(a.key, x) : i < bar[b.n][x]
      BY <2>4 DEF RowFits, Beneath
    <3>2. \A i \in Uses(b.key, x) : bar[b.n][x] <= i
      BY <2>4 DEF RowFits, Above
    <3>3. bar[b.n][x] \in Nat /\ Uses(a.key, x) \subseteq Nat
      BY <2>4, UsesGens DEF Bars, Gens
    <3> QED
      BY <3>1, <3>2, <3>3
  <2>5. r.n < q.n \/ q.n < r.n
    BY <2>3 DEF Numbers
  <2> QED
    BY <2>2, <2>3, <2>4, <2>5
<1>2. ASSUME Prompt, N > 1 PROVE Spec => []KeysIndependent
  <2>1. Spec => []ApartInv
    BY <1>2, ApartCorrect
  <2>2. TypeOK /\ ApartInv => KeysIndependent
    BY <1>1, <1>2
  <2> QED
    BY <2>1, <2>2, TypeCorrect, PTL
<1>3. ASSUME N = 1 PROVE Spec => []KeysIndependent
  <2>1. Init => SoloInv
    BY DEF Init, SoloInv, Rows
  <2>2. TypeOK /\ TypeOK' /\ NoEmptyParams /\ SoloInv /\ [Next]_vars => SoloInv'
    BY <1>3, SoloStep
  <2>3. SoloInv => KeysIndependent
    BY DEF SoloInv, KeysIndependent, Unshared
  <2> QED
    BY <2>1, <2>2, <2>3, TypeCorrect, ParamsPresent, PTL DEF Spec
<1>4. N > 1 \/ N = 1
  BY NAssumption
<1> QED
  BY <1>2, <1>3, <1>4

-----------------------------------------------------------------------------
(* Exchanges one after the other: users click only when they see nothing   *)
(* going on, and no client restarts; messages may be lost and repeated.    *)

Orderly == Prompt /\ MaxRestarts = 0 /\ (Patient \/ (MaxStarts <= 1 /\ MaxStops = 0))

(* The value that the members of S have raised, each to its exponent of f,
   modulo the p of the first member.                                       *)
Part(f, S) ==
  [mod |-> {f[0]},
   exp |-> [p \in Pos |-> [i \in Gens |-> IF i = f[p] /\ p \in S THEN 1 ELSE 0]]]
Own(f, p) == [mod |-> {f[0]}, nth |-> f[p]]

(* The exchange that is going on: the number of its key, the exponents its
   members take, how many of them have published an RSA key, one after the
   other, and whether the first has sent the parameters.                   *)
Rounds == [n : Numbers, f : [Pos -> 0 .. MaxGen], pub : 0 .. N, open : BOOLEAN]

Held(e, p) == Last(p) >= e.n
AllHold(e) == \A p \in Pos : Held(e, p)

(* A message of the exchange e.  The parameters and the values exist only when
   it is open, a value meant for t only when all members after t have stored
   the key, and an end only when all have; a value is exactly what the members
   it has passed make of it.                                               *)
PacketOK(e, pk) ==
  /\ pk.msg.n = IF pk.msg.kind \in {"none", "endEncryption"} THEN 0 ELSE e.n
  /\ pk.msg.kind = "rsaForm" => pk.msg.last < e.pub
  /\ pk.msg.kind = "aesInit" => e.open /\ pk.msg.key.mod = {e.f[0]}
  /\ pk.msg.kind = "aesForm" =>
       /\ e.open /\ \A p \in Pos : p > pk.msg.last => Held(e, p)
       /\ pk.from # pk.msg.last /\ pk.msg.key = Part(e.f, Arc(pk.msg.last, pk.from))
  /\ pk.msg.kind = "endForming" => AllHold(e)

PacketsOK(e) == \A p \in Pos : \A pk \in Packets : UnderWay(p, pk) => PacketOK(e, pk)

(* Before the parameters are sent nobody who has published has left, stopped or
   stored; what other members have left from earlier exchanges is not used. *)
ClosedOK(e, m) ==
  /\ m < e.pub => stage[m] \in {"rsa", "aesInit"} /\ pc[m] # "off" /\ ~Held(e, m)
  /\ stage[m] = "end" => pc[m] = "off"

(* Then the stages are passed once, in their order, and a key with the number
   of the exchange is that of everybody.                                   *)
OpenOK(e, m) ==
  /\ e.pub = N
  /\ stage[m] \notin {"aesForm", "end"} => m # 0 /\ gen[m] = e.f[m] /\ ~Held(e, m)
  /\ stage[m] = "aesForm" => dh[m] = Own(e.f, m)
  /\ stage[m] = "end" =>
       /\ m = 0 /\ AllHold(e)
       /\ pc[m] = "wait" => (timers[m] > 0 \/ join[m] # NoJoin)
  /\ pc[m] = "off" => stage[m] = "end"
  /\ \A r \in Rows(m) : r.n = e.n => r.key = Part(e.f, Pos)

MemberOK(e, m) ==
  /\ fresh[m] => mail[m].msg.kind \in Forming
  /\ pc[m] = "run" => cur[m].kind \in Forming
  /\ pc[m] # "off" => stage[m] # "initRsa"
  /\ m = 0 /\ stage[m] = "aesInit" => pc[m] = "run" /\ e.pub = N /\ ~e.open
  /\ (timers[m] > 0 \/ join[m] # NoJoin) => e.open /\ stage[m] = "end"
  /\ join[m] # NoJoin => join[m] = Join("timer", "return")
  /\ IF e.open THEN OpenOK(e, m) ELSE ClosedOK(e, m)

RoundOK(e) == PacketsOK(e) /\ \A m \in Pos : MemberOK(e, m)

(* Between two exchanges: nothing is going on, but that m has been clicked on
   and stops its worker first, or is about to begin.                       *)
Resting(m) == ~fresh[m] /\ timers[m] = 0 /\ pc[m] # "run" /\ join[m] = NoJoin
Settled(m) == /\ pc[m] # "off" => stage[m] \notin {"initRsa", "end"}
              /\ m = 0 => stage[m] # "aesInit"
Stopping(m) == /\ ~fresh[m] /\ pc[m] # "run" /\ Settled(m)
               /\ join[m] \in {NoJoin, Join("ui", "init"), Join("ui", "notify")}
Asking(m) == /\ join[m] = NoJoin /\ stage[m] = "initRsa"
             /\ IF fresh[m] THEN pc[m] = "wait" ELSE pc[m] = "run"
Calm(m) ==
  /\ \A p \in Pos : inbox[p] = <<>>
  /\ \A p \in Pos \ {m} : Resting(p) /\ Settled(p)
  /\ timers[m] = 0
  /\ Stopping(m) \/ Asking(m)

(* Before the only click of impatient users nothing can happen.            *)
Idle == \A m \in Pos : pc[m] = "off" /\ inbox[m] = <<>> /\ Resting(m)

OrderInv ==
  /\ ~Patient /\ used["start"] = 0 => Idle
  /\ (\E m \in Pos : Calm(m)) \/ \E e \in Rounds : RoundOK(e)

LEMMA PartType ==
  ASSUME NEW e \in Rounds, e.f[0] \in Gens
  PROVE  \A S : Part(e.f, S) \in Value
BY DEF Part, Value

LEMMA RaisePart ==
  ASSUME NEW f \in [Pos -> 0 .. MaxGen], NEW S \in SUBSET Pos, NEW m \in Pos \ S,
         f[m] \in Gens
  PROVE  Raise(Part(f, S), m, Own(f, m)) = Part(f, S \cup {m})
<1> DEFINE w == Raise(Part(f, S), m, Own(f, m))
           k == f[m]
           e(T) == [p \in Pos |-> [i \in Gens |-> IF i = f[p] /\ p \in T THEN 1 ELSE 0]]
<1>1. /\ Part(f, S).exp = e(S) /\ Part(f, S).mod = {f[0]}
      /\ Part(f, S \cup {m}) = [mod |-> {f[0]}, exp |-> e(S \cup {m})]
  BY DEF Part
<1>2. w = [mod |-> {f[0]}, exp |-> [e(S) EXCEPT ![m] = [e(S)[m] EXCEPT ![k] = @ + 1]]]
  BY <1>1 DEF Raise, Own
<1>3. [e(S)[m] EXCEPT ![k] = @ + 1] = e(S \cup {m})[m]
  <2>1. e(S)[m] = [i \in Gens |-> 0]
    OBVIOUS
  <2>2. e(S \cup {m})[m] = [i \in Gens |-> IF i = k THEN 1 ELSE 0]
    OBVIOUS
  <2>3. k \in Gens
    OBVIOUS
  <2> HIDE DEF e, k
  <2> QED
    BY <2>1, <2>2, <2>3
<1>4. \A p \in Pos \ {m} : e(S)[p] = e(S \cup {m})[p]
  OBVIOUS
<1>5. [e(S) EXCEPT ![m] = e(S \cup {m})[m]] = e(S \cup {m})
  BY <1>4
<1> QED
  BY <1>1, <1>2, <1>3, <1>5

LEMMA PublicPart ==
  ASSUME NEW f \in [Pos -> 0 .. MaxGen], NEW m \in Pos, f[m] \in Gens
  PROVE  Public(m, Own(f, m)) = Part(f, {m})
<1>1. Base(Own(f, m).mod) = Part(f, {})
  BY DEF Base, Part, Own
<1>2. Raise(Part(f, {}), m, Own(f, m)) = Part(f, {} \cup {m})
  BY RaisePart
<1> QED
  BY <1>1, <1>2 DEF Public

(* What a step of a member leaves alone of the others.                     *)
OthersAlone(m) == \A p \in Pos \ {m} :
  /\ pc'[p] = pc[p] /\ stage'[p] = stage[p] /\ mail'[p] = mail[p] /\ fresh'[p] = fresh[p]
  /\ cur'[p] = cur[p] /\ join'[p] = join[p] /\ timers'[p] = timers[p]
  /\ dh'[p] = dh[p] /\ gen'[p] = gen[p] /\ aes'[p] = aes[p]

LEMMA StepAlone ==
  ASSUME TypeOK, NEW m \in Pos, StepOf(m)
  PROVE  OthersAlone(m)
<1>1. CASE User(m) \/ Lifecycle(m)
  BY <1>1
  DEF User, Lifecycle, PressStart, PressStop, TimerStop, Joined, StartWith, secrets, box,
      TypeOK, OthersAlone, RequestStop
<1>2. CASE Dispatch(m)
  BY <1>2
  DEF Dispatch, DispatchForming, DispatchEnding, DispatchOther, AddInfo, StartWith, RequestStop,
      secrets, box, TypeOK, OthersAlone
<1>3. CASE Take(m) \/ InitRsa(m) \/ RsaStage(m) \/ AesInitStage(m) \/ EndKeyForming(m)
  BY <1>3
  DEF Take, InitRsa, RsaStage, RsaPublish, RsaListen, AesInitStage, AesInitSend,
      AesInitReceive, EndKeyForming, StayAt, GoTo, NewDh, Generate, secrets, box,
      TypeOK, OthersAlone
<1>4. CASE FormStage(m)
  BY <1>4
  DEF FormStage, FormSolo, FormBegin, FormFinish, FormForward, FormIgnore, StayAt, GoTo,
      Store, Generate, secrets, box, TypeOK, OthersAlone
<1>5. CASE Environment(m)
  BY <1>5 DEF Environment, Resend, Lose, Restart, box, secrets, TypeOK, OthersAlone
<1> QED
  BY <1>1, <1>2, <1>3, <1>4, <1>5 DEF StepOf, Worker

(* What is held stays held.                                                *)
HoldsOn(e) == \A p \in Pos : Held(e, p) => Held(e, p)'

LEMMA HeldStays ==
  ASSUME TypeOK, TypeOK', NoEmptyParams, [Next]_vars, NEW e \in Rounds
  PROVE  HoldsOn(e)
<1>1. ASSUME NEW p \in Pos, Held(e, p)
      PROVE  Held(e, p)'
  <2>1. Last(p) \in Numbers /\ Last(p)' \in Numbers /\ Last(p) <= Last(p)'
    BY LastStep
  <2>2. e.n \in Numbers
    BY DEF Rounds
  <2> QED
    BY <1>1, <2>1, <2>2 DEF Held, Numbers
<1> QED
  BY <1>1 DEF HoldsOn

(* A member whose variables stay.                                          *)
LEMMA SameMember ==
  ASSUME NEW e \in Rounds, HoldsOn(e), NEW q \in Pos, MemberOK(e, q),
         pc'[q] = pc[q], stage'[q] = stage[q], mail'[q] = mail[q], fresh'[q] = fresh[q],
         cur'[q] = cur[q], join'[q] = join[q], timers'[q] = timers[q],
         dh'[q] = dh[q], gen'[q] = gen[q], aes'[q] = aes[q]
  PROVE  MemberOK(e, q)'
<1>1. Held(e, q)' = Held(e, q) /\ Rows(q)' = Rows(q)
  BY DEF Held, Last, Rows
<1>2. AllHold(e) => AllHold(e)'
  BY DEF AllHold, HoldsOn
<1>3. ClosedOK(e, q) => ClosedOK(e, q)'
  BY <1>1 DEF ClosedOK
<1>4. OpenOK(e, q) => OpenOK(e, q)'
  BY <1>1, <1>2 DEF OpenOK
<1> QED
  BY <1>3, <1>4 DEF MemberOK

LEMMA OthersOK ==
  ASSUME NEW e \in Rounds, HoldsOn(e), NEW m \in Pos, OthersAlone(m), NEW q \in Pos \ {m},
         MemberOK(e, q)
  PROVE  MemberOK(e, q)'
<1>1. /\ pc'[q] = pc[q] /\ stage'[q] = stage[q] /\ mail'[q] = mail[q] /\ fresh'[q] = fresh[q]
      /\ cur'[q] = cur[q] /\ join'[q] = join[q] /\ timers'[q] = timers[q]
      /\ dh'[q] = dh[q] /\ gen'[q] = gen[q] /\ aes'[q] = aes[q]
  BY DEF OthersAlone
<1> QED
  BY <1>1, SameMember

(* A later state of the same exchange.                                     *)
Later(e, d) == /\ d.n = e.n /\ d.pub >= e.pub
               /\ e.open => d.open /\ d.f = e.f

(* Packets stay what they are, and a new one is what was sent.             *)
LEMMA PacketsStep ==
  ASSUME Prompt, TypeOK, TypeOK', NoEmptyParams, [Next]_vars,
         NEW e \in Rounds, NEW d \in Rounds, Later(e, d), HoldsOn(e),
         NEW m \in Pos, StepOf(m), OthersUntouched(m), PacketsOK(e),
         \A msg \in Messages : Sends(m, msg) /\ msg # EndEncryptionMsg =>
           \A s \in Pos : (msg.kind = "aesForm" => s = m) => PacketOK(d, [msg |-> msg, from |-> s])'
  PROVE  PacketsOK(d)'
<1> SUFFICES ASSUME NEW p \in Pos, NEW pk \in Packets, UnderWay(p, pk)'
             PROVE  PacketOK(d, pk)'
  BY DEF PacketsOK
<1>0. pk = [msg |-> pk.msg, from |-> pk.from] /\ pk.msg \in Messages /\ pk.from \in Pos
  BY DEF Packets
<1>1. CASE UnderWay(p, pk)
  <2>1. PacketOK(e, pk)
    BY <1>1 DEF PacketsOK
  <2>2. /\ pk.msg.last \in Int /\ e.pub \in Int /\ d.pub \in Int /\ e.n = d.n /\ d.pub >= e.pub
        /\ e.open => d.open /\ d.f = e.f
    BY <1>0 DEF Rounds, Messages, Pos, Later
  <2>3. \A x \in Pos : Held(e, x) => Held(d, x)'
    BY <2>2 DEF HoldsOn, Held
  <2>4. AllHold(e) => AllHold(d)'
    BY <2>3 DEF AllHold
  <2>5. pk.msg.kind = "rsaForm" => pk.msg.last < d.pub
    BY <2>1, <2>2 DEF PacketOK
  <2> QED
    BY <2>1, <2>2, <2>3, <2>4, <2>5 DEF PacketOK
<1>2. CASE NewPacket(m, pk)
  <2>1. CASE pk.msg = NoMsg \/ pk.msg = EndEncryptionMsg
    <3>1. pk.msg.n = 0 /\ pk.msg.kind \in {"none", "endEncryption"}
      BY <2>1 DEF NoMsg, EndEncryptionMsg, Msg
    <3> QED
      BY <3>1 DEF PacketOK
  <2>2. CASE Sends(m, pk.msg) /\ pk.msg # EndEncryptionMsg /\ (pk.msg.kind = "aesForm" => pk.from = m)
    BY <1>0, <2>2
  <2> QED
    BY <1>2, <2>1, <2>2 DEF NewPacket
<1> QED
  BY <1>1, <1>2, PacketStep

(* What a worker holds belongs to the exchange.                            *)
LEMMA CurRound ==
  ASSUME TypeOK, NEW e \in Rounds, RoundOK(e), NEW m \in Pos, pc[m] = "run"
  PROVE  /\ cur[m].kind \in Forming /\ cur[m].n = e.n
         /\ cur[m].kind = "rsaForm" => cur[m].last < e.pub
         /\ cur[m].kind = "aesInit" => e.open /\ cur[m].key.mod = {e.f[0]}
         /\ cur[m].kind = "aesForm" =>
              /\ e.open /\ \A p \in Pos : p > cur[m].last => Held(e, p)
              /\ mail[m].from # cur[m].last
              /\ cur[m].key = Part(e.f, Arc(cur[m].last, mail[m].from))
<1>1. UnderWay(m, InHand(m))
  BY DEF UnderWay
<1>2. InHand(m) \in Packets
  BY <1>1, UnderWayType
<1>3. PacketOK(e, InHand(m)) /\ MemberOK(e, m)
  BY <1>1, <1>2 DEF RoundOK, PacketsOK
<1>4. InHand(m).msg = cur[m] /\ InHand(m).from = mail[m].from
  BY DEF InHand
<1>5. cur[m].kind \in Forming
  BY <1>3 DEF MemberOK
<1>6. cur[m].n = e.n
  BY <1>3, <1>4, <1>5 DEF PacketOK, Forming
<1> QED
  BY <1>3, <1>4, <1>5, <1>6 DEF PacketOK

(* The value that comes to a member is what the members before it on the ring
   made of it, and what it makes of it goes on.                            *)
LEMMA TurnHasPart ==
  ASSUME TypeOK, NoEmptyParams, NEW e \in Rounds, RoundOK(e), NEW m \in Pos, NumberFresh(m),
         LocalRing(m), At(m, "aesForm"), N > 1, NEW snd \in SendersSeen(m), MyTurn(m, snd)
  PROVE  /\ e.open /\ \A p \in Pos : p > cur[m].last => Held(e, p)
         /\ cur[m].last = m => Multi(m) = Part(e.f, Pos)
         /\ cur[m].last # m => Multi(m) = Part(e.f, Arc(cur[m].last, m))
<1>1. /\ snd \in Pos /\ snd = mail[m].from /\ m = (snd + 1) % N
      /\ cur[m].last \in Pos /\ cur[m].last # snd
  BY TurnHasValue
<1>2. pc[m] = "run" /\ stage[m] = "aesForm" /\ cur[m].kind = "aesForm"
  BY DEF At, MyTurn
<1>3. /\ e.open /\ \A p \in Pos : p > cur[m].last => Held(e, p)
      /\ cur[m].key = Part(e.f, Arc(cur[m].last, snd))
  BY <1>1, <1>2, CurRound
<1>4. dh[m] = Own(e.f, m)
  BY <1>2, <1>3 DEF RoundOK, MemberOK, OpenOK
<1>5. e.f[m] \in Gens /\ e.f \in [Pos -> 0 .. MaxGen]
  BY <1>2, <1>4 DEF NoEmptyParams, Own, Rounds
<1>6. Multi(m) = Raise(Part(e.f, Arc(cur[m].last, snd)), m, Own(e.f, m))
  BY <1>3, <1>4 DEF Multi
<1>7. ASSUME cur[m].last = m
      PROVE  Multi(m) = Part(e.f, Pos)
  <2>1. Arc(cur[m].last, snd) = Pos \ {m}
    BY <1>1, <1>7, ArcFinish
  <2>2. Multi(m) = Part(e.f, (Pos \ {m}) \cup {m})
    BY <1>5, <1>6, <2>1, RaisePart
  <2>3. (Pos \ {m}) \cup {m} = Pos
    OBVIOUS
  <2> QED
    BY <2>2, <2>3
<1>8. ASSUME cur[m].last # m
      PROVE  Multi(m) = Part(e.f, Arc(cur[m].last, m))
  <2>1. /\ Arc(cur[m].last, snd) \in SUBSET Pos /\ m \notin Arc(cur[m].last, snd)
        /\ Arc(cur[m].last, m) = Arc(cur[m].last, snd) \cup {m}
    BY <1>1, <1>8, ArcForward
  <2> QED
    BY <1>5, <1>6, <2>1, RaisePart
<1> QED
  BY <1>3, <1>7, <1>8

(* What a member sends is a message of the exchange.                       *)
LEMMA SendsRound ==
  ASSUME N > 1, TypeOK, TypeOK', NoEmptyParams, NumberInv, RingInv, [Next]_vars,
         NEW e \in Rounds, NEW d \in Rounds, Later(e, d), HoldsOn(e), RoundOK(e), NEW m \in Pos,
         RsaPublish(m) => m < d.pub,
         AesInitSend(m) => d.open /\ d.f[0] = gen[m],
         NEW msg \in Messages, Sends(m, msg), msg # EndEncryptionMsg,
         NEW s \in Pos, msg.kind = "aesForm" => s = m
  PROVE  PacketOK(d, [msg |-> msg, from |-> s])'
<1> DEFINE pk == [msg |-> msg, from |-> s]
<1>0. pk.msg = msg /\ pk.from = s /\ d.n = e.n /\ NumberFresh(m) /\ LocalRing(m) /\ MemberOK(e, m)
  BY DEF Later, NumberInv, RingInv, RoundOK
<1> SUFFICES PacketOK(d, pk)'
  OBVIOUS
<1> HIDE DEF pk
<1>1. \A p \in Pos : Held(e, p) => Held(d, p)'
  BY <1>0 DEF HoldsOn, Held
<1>2. pc[m] = "run" => cur[m].n = e.n
  BY CurRound
<1>3. ~InitRsa(m)
  BY <1>0 DEF InitRsa, At, MemberOK
<1>4. CASE RsaPublish(m) /\ msg = Msg("rsaForm", cur[m].n, m, Base({}))
  <2>1. pc[m] = "run"
    BY <1>4 DEF RsaPublish, At
  <2>2. msg.kind = "rsaForm" /\ msg.n = e.n /\ msg.last = m
    BY <1>2, <1>4, <2>1 DEF Msg
  <2> QED
    BY <1>0, <1>4, <2>2 DEF PacketOK
<1>5. CASE AesInitSend(m) /\ msg = Msg("aesInit", cur[m].n, m, Base({gen[m]}))
  <2>1. pc[m] = "run"
    BY <1>5 DEF AesInitSend, At
  <2>2. msg.kind = "aesInit" /\ msg.n = e.n /\ msg.key.mod = {gen[m]}
    BY <1>2, <1>5, <2>1 DEF Msg, Base
  <2> QED
    BY <1>0, <1>5, <2>2 DEF PacketOK
<1>6. ASSUME NEW last \in Pos, NEW key, msg = Msg("aesForm", cur[m].n, last, key), pc[m] = "run",
             e.open, last # m, key = Part(e.f, Arc(last, m)), \A p \in Pos : p > last => Held(d, p)'
      PROVE  PacketOK(d, pk)'
  <2>1. msg.kind = "aesForm" /\ msg.n = e.n /\ msg.last = last /\ msg.key = key /\ pk.from = m
    BY <1>0, <1>2, <1>6 DEF Msg
  <2>2. d.open /\ d.f = e.f
    BY <1>6 DEF Later
  <2> QED
    BY <1>0, <1>6, <2>1, <2>2 DEF PacketOK
<1>7. ASSUME At(m, "aesForm"), e.open
      PROVE  Public(m, dh[m]) = Part(e.f, {m})
  <2>1. dh[m] = Own(e.f, m)
    BY <1>0, <1>7 DEF At, MemberOK, OpenOK
  <2>2. e.f[m] \in Gens /\ e.f \in [Pos -> 0 .. MaxGen]
    BY <1>7, <2>1 DEF NoEmptyParams, Own, Rounds, At
  <2> QED
    BY <2>1, <2>2, PublicPart
<1>8. CASE FormBegin(m) /\ msg = Msg("aesForm", cur[m].n, N - 1, Public(m, dh[m]))
  <2>1. At(m, "aesForm") /\ pc[m] = "run" /\ m = 0 /\ cur[m].kind = "aesInit"
    BY <1>8 DEF FormBegin, Begins, At
  <2>2. e.open
    BY <2>1, CurRound
  <2>3. N - 1 \in Pos /\ N - 1 # m /\ \A p \in Pos : ~(p > N - 1)
    BY <2>1, NAssumption DEF Pos
  <2>4. Arc(N - 1, m) = {m}
    BY <2>1, ArcBegin
  <2> QED
    BY <1>6, <1>7, <1>8, <2>1, <2>2, <2>3, <2>4
<1>9. CASE FormFinish(m) /\ m # 0 /\ msg = Msg("aesForm", cur[m].n, m - 1, Public(m, dh[m]))
  <2>1. At(m, "aesForm") /\ pc[m] = "run" /\ cur[m].last = m
    BY <1>9 DEF FormFinish, At
  <2>2. PICK snd \in SendersSeen(m) : MyTurn(m, snd)
    BY <1>9 DEF FormFinish
  <2>3. e.open /\ \A p \in Pos : p > m => Held(e, p)
    BY <1>0, <2>1, <2>2, TurnHasPart
  <2>4. Held(d, m)'
    <3>1. Last(m)' \in Numbers /\ cur[m].n <= Last(m)'
      BY <1>9, LastStep
    <3>2. cur[m].n = d.n /\ d.n \in Numbers
      BY <1>0, <1>2, <2>1 DEF Rounds
    <3> QED
      BY <3>1, <3>2 DEF Held, Numbers
  <2>5. m - 1 \in Pos /\ m - 1 # m /\ Arc(m - 1, m) = {m}
    BY <1>9, ArcAgain DEF Pos
  <2>6. \A p \in Pos : p > m - 1 => Held(d, p)'
    BY <1>1, <2>3, <2>4 DEF Pos
  <2> QED
    BY <1>6, <1>7, <1>9, <2>1, <2>3, <2>5, <2>6
<1>10. CASE FormForward(m) /\ msg = Msg("aesForm", cur[m].n, cur[m].last, Multi(m))
  <2>1. At(m, "aesForm") /\ pc[m] = "run" /\ cur[m].last # m /\ cur[m].last \in Pos
    BY <1>10 DEF FormForward, At, TypeOK, Messages
  <2>2. PICK snd \in SendersSeen(m) : MyTurn(m, snd)
    BY <1>10 DEF FormForward
  <2>3. /\ e.open /\ \A p \in Pos : p > cur[m].last => Held(e, p)
        /\ Multi(m) = Part(e.f, Arc(cur[m].last, m))
    BY <1>0, <2>1, <2>2, TurnHasPart
  <2>4. \A p \in Pos : p > cur[m].last => Held(d, p)'
    BY <1>1, <2>3
  <2> QED
    BY <1>6, <1>10, <2>1, <2>3, <2>4
<1>11. CASE EndKeyForming(m) /\ msg = Msg("endForming", cur[m].n, m, Base({}))
  <2>1. pc[m] = "run" /\ stage[m] = "end"
    BY <1>11 DEF EndKeyForming, At
  <2>2. AllHold(e)
    BY <1>0, <2>1 DEF MemberOK, OpenOK, ClosedOK
  <2>3. AllHold(d)'
    BY <1>1, <2>2 DEF AllHold
  <2>4. msg.kind = "endForming" /\ msg.n = e.n
    BY <1>2, <1>11, <2>1 DEF Msg
  <2> QED
    BY <1>0, <2>3, <2>4 DEF PacketOK
<1> QED
  BY <1>3, <1>4, <1>5, <1>8, <1>9, <1>10, <1>11 DEF Sends

(* The threads that stop the worker of the first member.                   *)
LEMMA OwnLife ==
  ASSUME TypeOK, NEW e \in Rounds, HoldsOn(e), NEW m \in Pos, MemberOK(e, m), Lifecycle(m)
  PROVE  MemberOK(e, m)'
<1>0. AllHold(e) => AllHold(e)'
  BY DEF AllHold, HoldsOn
<1>1. CASE TimerStop(m)
  <2>1. e.open /\ stage[m] = "end" /\ OpenOK(e, m) /\ join[m] = NoJoin
    BY <1>1 DEF TimerStop, MemberOK
  <2>2. /\ UNCHANGED <<pc, stage, mail, fresh, cur, dh, gen, aes>>
        /\ \/ pc[m] = "off" /\ join'[m] = join[m]
           \/ join'[m] = Join("timer", "return")
    BY <1>1 DEF TimerStop, RequestStop, box, secrets, TypeOK
  <2>3. Held(e, m)' = Held(e, m) /\ Rows(m)' = Rows(m)
    BY <2>2 DEF Held, Last, Rows
  <2>4. Join("timer", "return") # NoJoin
    BY DEF Join, NoJoin
  <2>5. OpenOK(e, m)'
    BY <1>0, <2>1, <2>2, <2>3, <2>4 DEF OpenOK
  <2> QED
    BY <2>1, <2>2, <2>5 DEF MemberOK
<1>2. CASE Joined(m)
  <2>1. /\ join[m] = Join("timer", "return") /\ e.open /\ stage[m] = "end" /\ OpenOK(e, m)
    BY <1>2 DEF Joined, MemberOK
  <2>2. join[m].then = "return"
    BY <2>1 DEF Join
  <2>3. /\ UNCHANGED <<stage, mail, fresh, cur, dh, gen, aes, timers>>
        /\ pc'[m] = "off" /\ join'[m] = NoJoin
    BY <1>2, <2>2 DEF Joined, box, TypeOK
  <2>4. Held(e, m)' = Held(e, m) /\ Rows(m)' = Rows(m)
    BY <2>3 DEF Held, Last, Rows
  <2>5. OpenOK(e, m)'
    BY <1>0, <2>1, <2>3, <2>4 DEF OpenOK
  <2> QED
    BY <1>2, <2>1, <2>3, <2>5 DEF MemberOK, Joined
<1> QED
  BY <1>1, <1>2 DEF Lifecycle

(* What is read: a step of the exchange, as long as its key is not held.  An end
   is never heard, as its number is then held, and that of the encryption has
   none.                                                                   *)
LEMMA OwnDispatch ==
  ASSUME Prompt, TypeOK, JoinHasThread, NEW e \in Rounds, HoldsOn(e), NEW m \in Pos, RoundOK(e),
         Dispatch(m)
  PROVE  MemberOK(e, m)' /\ UNCHANGED aes
<1>0. MemberOK(e, m) /\ Reads(m)
  BY DEF RoundOK, Dispatch, DispatchForming, DispatchEnding, DispatchOther
<1>1. PacketOK(e, Packet(m))
  <2>1. Packet(m) \in Elems(inbox[m])
    BY <1>0, ReadsNew
  <2>2. UnderWay(m, Packet(m))
    BY <2>1 DEF UnderWay
  <2>3. Packet(m) \in Packets
    BY <2>2, UnderWayType
  <2> QED
    BY <2>2, <2>3 DEF RoundOK, PacketsOK
<1>2. Last(m) \in Nat /\ e.n \in Nat
  BY LastType DEF TypeOK, Last, Rounds, Numbers
<1>3. Packet(m).msg.kind \in Forming \cup {"endForming"} => Packet(m).msg.n = e.n
  BY <1>1 DEF PacketOK, Forming
<1>4. ~DispatchEnding(m)
  <2>1. ASSUME Packet(m).msg.kind = "endForming"
        PROVE  ~Newer(m, Packet(m).msg)
    BY <1>1, <1>2, <1>3, <2>1 DEF PacketOK, AllHold, Held, Newer
  <2>2. ASSUME Packet(m).msg.kind = "endEncryption"
        PROVE  ~Newer(m, Packet(m).msg)
    BY <1>1, <1>2, <2>2 DEF PacketOK, Newer
  <2> QED
    BY <2>1, <2>2 DEF DispatchEnding, Ending
<1>5. CASE DispatchForming(m)
  <2>1. Packet(m).msg.kind \in Forming /\ ~Held(e, m)
    BY <1>2, <1>3, <1>5 DEF DispatchForming, Newer, Held
  <2>2. /\ mail'[m] = Packet(m) /\ UNCHANGED <<cur, join, timers, gen, aes>>
        /\ pc[m] # "run" /\ pc'[m] # "run"
    BY <1>5 DEF DispatchForming, AddInfo, StartWith, Reads, TypeOK
  <2>3. Held(e, m)' = Held(e, m) /\ Rows(m)' = Rows(m) /\ (AllHold(e) => AllHold(e)')
    BY <2>2 DEF Held, Last, Rows, AllHold, HoldsOn
  <2>4. ~AllHold(e)
    BY <2>1 DEF AllHold
  <2>5. CASE started[m]
    <3>1. UNCHANGED <<pc, stage, dh>>
      BY <1>5, <2>5 DEF DispatchForming
    <3>2. ClosedOK(e, m) => ClosedOK(e, m)'
      BY <2>3, <3>1 DEF ClosedOK
    <3>3. OpenOK(e, m) => OpenOK(e, m)'
      BY <2>2, <2>3, <3>1 DEF OpenOK
    <3> QED
      BY <1>0, <2>1, <2>2, <3>1, <3>2, <3>3 DEF MemberOK
  <2>6. CASE ~started[m]
    <3>1. pc[m] = "off"
      BY <2>6 DEF JoinHasThread
    <3>2. ~e.open
      BY <1>0, <2>4, <3>1 DEF MemberOK, OpenOK
    <3>3. pc'[m] = "wait" /\ stage'[m] = "rsa"
      BY <1>5, <2>6 DEF DispatchForming, StartWith, TypeOK
    <3>4. ClosedOK(e, m)'
      BY <1>0, <3>1, <3>2, <3>3 DEF MemberOK, ClosedOK
    <3>5. timers[m] = timers'[m] /\ ~(timers[m] > 0) /\ join[m] = NoJoin
      BY <1>0, <2>2, <3>2 DEF MemberOK
    <3> QED
      BY <2>1, <2>2, <3>2, <3>3, <3>4, <3>5 DEF MemberOK
  <2> QED
    BY <2>2, <2>5, <2>6
<1>6. CASE DispatchOther(m)
  <2>1. UNCHANGED <<pc, stage, mail, fresh, cur, join, timers, dh, gen, aes>>
    BY <1>6 DEF DispatchOther, box, secrets
  <2> QED
    BY <1>0, <2>1, SameMember
<1> QED
  BY <1>4, <1>5, <1>6 DEF Dispatch

(* The network.                                                            *)
LEMMA OwnEnvironment ==
  ASSUME MaxRestarts = 0, TypeOK, NEW e \in Rounds, HoldsOn(e), NEW m \in Pos, MemberOK(e, m),
         Environment(m)
  PROVE  MemberOK(e, m)' /\ UNCHANGED aes
<1>1. ~Restart(m)
  BY DEF Restart, Has, TypeOK, Events
<1>2. UNCHANGED <<pc, stage, mail, fresh, cur, join, timers, dh, gen, aes>>
  BY <1>1 DEF Environment, Resend, Lose, box, secrets
<1> QED
  BY <1>2, SameMember

(* The stages of the worker that change nothing of the exchange.           *)
LEMMA OwnEarly ==
  ASSUME N > 1, TypeOK, NEW e \in Rounds, HoldsOn(e), NEW m \in Pos, RoundOK(e), NumberFresh(m),
         Take(m) \/ (RsaPublish(m) /\ m # e.pub) \/ RsaListen(m) \/ AesInitReceive(m)
           \/ EndKeyForming(m)
  PROVE  MemberOK(e, m)' /\ UNCHANGED aes
<1>0. MemberOK(e, m) /\ e.pub \in Nat /\ N \in Nat /\ m \in Nat /\ m <= N - 1
  BY NAssumption DEF RoundOK, Rounds, Pos
<1>1. UNCHANGED aes
  BY DEF Take, RsaPublish, RsaListen, AesInitReceive, EndKeyForming, secrets
<1>2. Held(e, m)' = Held(e, m) /\ Rows(m)' = Rows(m) /\ (AllHold(e) => AllHold(e)')
  BY <1>1 DEF Held, Last, Rows, AllHold, HoldsOn
<1>3. CASE Take(m)
  <2>1. /\ pc[m] = "wait" /\ pc'[m] = "run" /\ cur'[m] = mail[m].msg /\ fresh[m] /\ fresh'[m] = FALSE
        /\ UNCHANGED <<stage, mail, join, timers, dh, gen>>
    BY <1>3 DEF Take, secrets, TypeOK
  <2>2. ClosedOK(e, m) => ClosedOK(e, m)'
    BY <1>2, <2>1 DEF ClosedOK
  <2>3. OpenOK(e, m) => OpenOK(e, m)'
    BY <1>2, <2>1 DEF OpenOK
  <2> QED
    BY <1>0, <1>1, <2>1, <2>2, <2>3 DEF MemberOK
<1>4. CASE RsaPublish(m) /\ m # e.pub
  <2>1. /\ pc[m] = "run" /\ stage[m] = "rsa" /\ ~fresh[m] /\ RsaTurn(m)
        /\ UNCHANGED <<mail, fresh, cur, join, timers, dh, gen>>
        /\ \/ m # N - 1 /\ pc'[m] = "wait" /\ stage'[m] = "rsa"
           \/ m = N - 1 /\ pc'[m] = "run" /\ stage'[m] = "aesInit"
    BY <1>4 DEF RsaPublish, At, GoTo, StayAt, box, TypeOK, NumberFresh
  <2>2. ClosedOK(e, m) => ClosedOK(e, m)'
    BY <1>2, <2>1 DEF ClosedOK
  <2>3. OpenOK(e, m) => OpenOK(e, m)'
    BY <1>2, <2>1 DEF OpenOK
  <2>4. stage'[m] = "aesInit" => m # 0
    BY <2>1
  <2> QED
    BY <1>0, <1>1, <2>1, <2>2, <2>3, <2>4 DEF MemberOK
<1>5. CASE RsaListen(m)
  <2>1. /\ pc[m] = "run" /\ stage[m] = "rsa" /\ ~fresh[m]
        /\ UNCHANGED <<mail, fresh, cur, join, timers, dh, gen>>
        /\ \/ pc'[m] = "wait" /\ stage'[m] = "rsa"
           \/ AllPublished(m) /\ pc'[m] = "run" /\ stage'[m] = "aesInit"
    BY <1>5 DEF RsaListen, At, GoTo, StayAt, box, TypeOK, NumberFresh
  <2>2. ClosedOK(e, m) => ClosedOK(e, m)'
    BY <1>2, <2>1 DEF ClosedOK
  <2>3. OpenOK(e, m) => OpenOK(e, m)'
    BY <1>2, <2>1 DEF OpenOK
  <2>4. m = 0 /\ stage'[m] = "aesInit" => e.pub = N /\ ~e.open
    <3>1. SUFFICES ASSUME m = 0, stage'[m] = "aesInit"
                   PROVE  e.pub = N /\ ~e.open
      OBVIOUS
    <3>2. ~e.open
      BY <1>0, <2>1, <3>1 DEF MemberOK, OpenOK
    <3>3. cur[m].last = N - 1 /\ cur[m].kind # "rsaInit"
      BY <2>1, <3>1 DEF AllPublished, Heard
    <3>4. cur[m].kind = "rsaForm"
      BY <2>1, <3>2, <3>3, CurRound DEF Forming
    <3>5. cur[m].last < e.pub /\ e.pub \in 0 .. N
      BY <2>1, <3>4, CurRound DEF Rounds
    <3> QED
      BY <1>0, <3>2, <3>3, <3>5
  <2> QED
    BY <1>0, <1>1, <2>1, <2>2, <2>3, <2>4 DEF MemberOK
<1>6. CASE AesInitReceive(m)
  <2>1. /\ pc[m] = "run" /\ stage[m] = "aesInit" /\ ~fresh[m] /\ m # 0
        /\ UNCHANGED <<mail, fresh, cur, join, timers>>
    BY <1>6 DEF AesInitReceive, At, box, NumberFresh
  <2>2. CASE cur[m].kind = "aesInit"
    <3>1. e.open /\ cur[m].key.mod = {e.f[0]}
      BY <2>1, <2>2, CurRound
    <3>2. OpenOK(e, m) /\ gen[m] = e.f[m]
      BY <1>0, <2>1, <3>1 DEF MemberOK, OpenOK
    <3>3. pc'[m] = "run" /\ stage'[m] = "aesForm" /\ dh'[m] = Own(e.f, m)
      BY <1>6, <2>1, <2>2, <3>1, <3>2 DEF AesInitReceive, NewDh, NewParams, Own, GoTo, TypeOK
    <3>4. OpenOK(e, m)'
      BY <1>2, <2>1, <3>2, <3>3 DEF OpenOK
    <3> QED
      BY <1>0, <1>1, <2>1, <3>1, <3>3, <3>4 DEF MemberOK
  <2>3. CASE cur[m].kind # "aesInit"
    <3>1. pc'[m] = "wait" /\ UNCHANGED <<stage, dh, gen>>
      BY <1>6, <2>1, <2>3 DEF AesInitReceive, StayAt, TypeOK
    <3>2. ClosedOK(e, m) => ClosedOK(e, m)'
      BY <1>2, <2>1, <3>1 DEF ClosedOK
    <3>3. OpenOK(e, m) => OpenOK(e, m)'
      BY <1>2, <2>1, <3>1 DEF OpenOK
    <3> QED
      BY <1>0, <1>1, <2>1, <3>1, <3>2, <3>3 DEF MemberOK
  <2> QED
    BY <2>2, <2>3
<1>7. CASE EndKeyForming(m)
  <2>1. /\ pc[m] = "run" /\ stage[m] = "end" /\ pc'[m] = "wait" /\ timers'[m] = timers[m] + 1
        /\ UNCHANGED <<stage, mail, fresh, cur, join, dh, gen>>
    BY <1>7 DEF EndKeyForming, At, StayAt, box, secrets, TypeOK
  <2>2. e.open /\ OpenOK(e, m)
    BY <1>0, <2>1 DEF MemberOK, ClosedOK
  <2>3. timers'[m] > 0
    BY <2>1 DEF TypeOK
  <2>4. OpenOK(e, m)'
    BY <1>2, <2>1, <2>2, <2>3 DEF OpenOK
  <2> QED
    BY <1>0, <1>1, <2>1, <2>2, <2>4 DEF MemberOK
<1> QED
  BY <1>3, <1>4, <1>5, <1>6, <1>7

(* The key round.                                                          *)
LEMMA OwnForm ==
  ASSUME N > 1, TypeOK, TypeOK', NoEmptyParams, [Next]_vars, NEW e \in Rounds, HoldsOn(e),
         NEW m \in Pos, RoundOK(e), NumberFresh(m), LocalRing(m), FormStage(m)
  PROVE  MemberOK(e, m)'
<1>0. MemberOK(e, m)
  BY DEF RoundOK
<1>1. /\ pc[m] = "run" /\ stage[m] = "aesForm" /\ At(m, "aesForm") /\ ~fresh[m]
      /\ pc'[m] \in {"run", "wait"} /\ UNCHANGED <<mail, fresh, cur, join, timers, dh>>
  BY DEF FormStage, FormSolo, FormBegin, FormFinish, FormForward, FormIgnore, At, StayAt, GoTo,
         secrets, box, TypeOK, NumberFresh
<1>2. AllHold(e) => AllHold(e)'
  BY DEF AllHold, HoldsOn
<1>3. CASE FormBegin(m) \/ FormForward(m) \/ FormIgnore(m)
  <2>1. UNCHANGED <<stage, gen, aes>> /\ pc'[m] = "wait"
    BY <1>3 DEF FormBegin, FormForward, FormIgnore, StayAt, secrets, TypeOK
  <2>2. Held(e, m)' = Held(e, m) /\ Rows(m)' = Rows(m)
    BY <2>1 DEF Held, Last, Rows
  <2>3. ClosedOK(e, m) => ClosedOK(e, m)'
    BY <1>1, <2>1, <2>2 DEF ClosedOK
  <2>4. OpenOK(e, m) => OpenOK(e, m)'
    BY <1>1, <1>2, <2>1, <2>2 DEF OpenOK
  <2> QED
    BY <1>0, <1>1, <2>1, <2>3, <2>4 DEF MemberOK
<1>4. CASE FormFinish(m)
  <2>1. /\ cur[m].last = m
        /\ IF m = 0 THEN stage'[m] = "end" /\ pc'[m] = "run" ELSE stage'[m] = "aesForm"
    BY <1>1, <1>4 DEF FormFinish, KeyRoundEnds, StayAt, GoTo, TypeOK
  <2>2. PICK snd \in SendersSeen(m) : MyTurn(m, snd)
    BY <1>4 DEF FormFinish
  <2>3. e.open /\ Multi(m) = Part(e.f, Pos) /\ \A p \in Pos : p > m => Held(e, p)
    BY <1>1, <2>1, <2>2, TurnHasPart
  <2>4. OpenOK(e, m)
    BY <1>0, <2>3 DEF MemberOK
  <2>5. Held(e, m)'
    <3>1. Last(m)' \in Numbers /\ cur[m].n <= Last(m)'
      BY <1>4, LastStep
    <3>2. cur[m].n = e.n /\ e.n \in Numbers
      BY <1>1, CurRound DEF Rounds
    <3> QED
      BY <3>1, <3>2 DEF Held, Numbers
  <2>6. \A p \in Pos : p >= m => Held(e, p)'
    BY <2>3, <2>5 DEF HoldsOn, Pos
  <2>7. m = 0 => AllHold(e)'
    BY <2>6 DEF AllHold, Pos
  <2>8. ASSUME NEW r \in Rows(m)'
        PROVE  r.n = e.n => r.key = Part(e.f, Pos)
    <3>1. CASE \E q \in Rows(m) : q.n = r.n /\ q.key = r.key
      BY <2>4, <3>1 DEF OpenOK
    <3>2. CASE r = Row(cur[m].n, Multi(m), InUse)
      BY <2>3, <3>2 DEF Row
    <3>3. ~FormSolo(m)
      BY DEF FormSolo
    <3> QED
      BY <2>8, <3>1, <3>2, <3>3, NewRows
  <2>9. OpenOK(e, m)'
    BY <1>1, <2>1, <2>4, <2>7, <2>8 DEF OpenOK
  <2> QED
    BY <1>0, <1>1, <2>1, <2>3, <2>9 DEF MemberOK
<1>5. ~FormSolo(m)
  BY DEF FormSolo
<1> QED
  BY <1>3, <1>4, <1>5 DEF FormStage

(* A step of an exchange, but for the two by which it goes on to be another. *)
LEMMA RoundStays ==
  ASSUME Orderly, N > 1, TypeOK, TypeOK', NoEmptyParams, JoinHasThread, NumberInv, RingInv,
         NEW e \in Rounds, RoundOK(e), NEW m \in Pos, StepOf(m), ~User(m), ~AesInitSend(m),
         ~(RsaPublish(m) /\ m = e.pub)
  PROVE  RoundOK(e)'
<1>0. [Next]_vars /\ NumberFresh(m) /\ LocalRing(m) /\ MemberOK(e, m) /\ Prompt /\ MaxRestarts = 0
  BY DEF Next, StepOf, NumberInv, RingInv, RoundOK, Orderly
<1>1. HoldsOn(e) /\ OthersAlone(m) /\ OthersUntouched(m)
  BY <1>0, HeldStays, StepAlone DEF OthersAlone, OthersUntouched
<1>2. Later(e, e)
  BY DEF Later, Rounds
<1>3. RsaPublish(m) => m < e.pub
  <2>1. ASSUME RsaPublish(m)
        PROVE  m <= e.pub
    <3>1. pc[m] = "run" /\ stage[m] = "rsa" /\ RsaTurn(m)
      BY <2>1 DEF RsaPublish, At
    <3>2. e.pub \in Nat /\ m \in Nat /\ N \in Nat /\ m <= N - 1 /\ cur[m].last \in Nat
      BY NAssumption DEF Rounds, Pos, TypeOK, Messages
    <3>3. CASE cur[m].kind = "rsaInit"
      BY <3>1, <3>2, <3>3 DEF RsaTurn
    <3>4. CASE cur[m].kind = "rsaForm"
      BY <3>1, <3>2, <3>4, CurRound DEF RsaTurn
    <3>5. CASE cur[m].kind \in {"aesInit", "aesForm"}
      <4>1. e.pub = N
        BY <1>0, <3>1, <3>5, CurRound DEF MemberOK, OpenOK
      <4> QED
        BY <3>2, <4>1
    <3> QED
      BY <3>1, <3>3, <3>4, <3>5, CurRound DEF Forming
  <2>2. e.pub \in Nat /\ m \in Nat
    BY DEF Rounds, Pos
  <2> QED
    BY <2>1, <2>2
<1>4. PacketsOK(e)'
  <2>1. PacketsOK(e)
    BY DEF RoundOK
  <2>2. ASSUME NEW msg \in Messages, Sends(m, msg), msg # EndEncryptionMsg,
               NEW s \in Pos, msg.kind = "aesForm" => s = m
        PROVE  PacketOK(e, [msg |-> msg, from |-> s])'
    BY <1>0, <1>1, <1>2, <1>3, <2>2, SendsRound
  <2> QED
    BY <1>0, <1>1, <1>2, <2>1, <2>2, PacketsStep
<1>5. MemberOK(e, m)'
  <2>1. CASE Lifecycle(m)
    BY <1>0, <1>1, <2>1, OwnLife
  <2>2. CASE Dispatch(m)
    BY <1>0, <1>1, <2>2, OwnDispatch
  <2>3. CASE Environment(m)
    BY <1>0, <1>1, <2>3, OwnEnvironment
  <2>4. CASE Worker(m)
    <3>1. ~InitRsa(m)
      BY <1>0 DEF InitRsa, At, MemberOK
    <3>2. CASE FormStage(m)
      BY <1>0, <1>1, <3>2, OwnForm
    <3>3. CASE Take(m) \/ (RsaPublish(m) /\ m # e.pub) \/ RsaListen(m) \/ AesInitReceive(m)
                 \/ EndKeyForming(m)
      BY <1>0, <1>1, <3>3, OwnEarly
    <3> QED
      BY <2>4, <3>1, <3>2, <3>3 DEF Worker, RsaStage, AesInitStage
  <2> QED
    BY <2>1, <2>2, <2>3, <2>4 DEF StepOf
<1>6. \A q \in Pos \ {m} : MemberOK(e, q)'
  BY <1>1, OthersOK DEF RoundOK
<1> QED
  BY <1>4, <1>5, <1>6 DEF RoundOK

(* The next member publishes its RSA key.                                  *)
LEMMA RoundPublishes ==
  ASSUME Orderly, N > 1, TypeOK, TypeOK', NoEmptyParams, NumberInv, RingInv,
         NEW e \in Rounds, RoundOK(e), NEW m \in Pos, RsaPublish(m), m = e.pub
  PROVE  \E d \in Rounds : RoundOK(d)'
<1> DEFINE d == [e EXCEPT !.pub = m + 1]
<1>0. /\ StepOf(m) /\ [Next]_vars /\ NumberFresh(m) /\ MemberOK(e, m) /\ Prompt
  BY DEF StepOf, Worker, RsaStage, Next, NumberInv, RoundOK, Orderly
<1>1. HoldsOn(e) /\ OthersAlone(m) /\ OthersUntouched(m)
  BY <1>0, HeldStays, StepAlone DEF OthersAlone, OthersUntouched
<1>2. /\ d \in Rounds /\ d.n = e.n /\ d.f = e.f /\ d.open = e.open /\ d.pub = m + 1
      /\ m \in Nat /\ N \in Nat /\ e.pub \in Nat /\ m <= N - 1
  BY NAssumption DEF Rounds, Pos
<1> HIDE DEF d
<1>3. Later(e, d) /\ m < d.pub
  BY <1>2 DEF Later
<1>4. /\ pc[m] = "run" /\ stage[m] = "rsa" /\ ~fresh[m]
      /\ UNCHANGED <<mail, fresh, cur, join, timers, dh, gen, aes>>
      /\ \/ m # N - 1 /\ pc'[m] = "wait" /\ stage'[m] = "rsa"
         \/ m = N - 1 /\ pc'[m] = "run" /\ stage'[m] = "aesInit"
  BY <1>0 DEF RsaPublish, At, GoTo, StayAt, box, TypeOK, NumberFresh
<1>5. ~e.open
  BY <1>0, <1>2 DEF MemberOK, OpenOK
<1>6. ~AesInitSend(m)
  BY <1>4 DEF AesInitSend, At
<1>7. PacketsOK(d)'
  <2>1. PacketsOK(e)
    BY DEF RoundOK
  <2>2. ASSUME NEW msg \in Messages, Sends(m, msg), msg # EndEncryptionMsg,
               NEW s \in Pos, msg.kind = "aesForm" => s = m
        PROVE  PacketOK(d, [msg |-> msg, from |-> s])'
    BY <1>0, <1>1, <1>2, <1>3, <1>6, <2>2, SendsRound
  <2> QED
    BY <1>0, <1>1, <1>2, <1>3, <2>1, <2>2, PacketsStep
<1>8. ~Held(e, m)
  <2>1. cur[m].n > Last(m) /\ cur[m].n = e.n
    BY <1>0, <1>4, CurRound DEF NumberFresh
  <2>2. Last(m) \in Int /\ e.n \in Int
    BY LastType DEF TypeOK, Last, Rounds, Numbers
  <2> QED
    BY <2>1, <2>2 DEF Held
<1>9. Held(d, m)' = Held(e, m)
  BY <1>2, <1>4 DEF Held, Last
<1>10. MemberOK(d, m)'
  <2>1. ClosedOK(d, m)'
    BY <1>4, <1>8, <1>9 DEF ClosedOK
  <2>2. stage'[m] = "aesInit" => m # 0
    BY <1>2, <1>4
  <2> QED
    BY <1>0, <1>2, <1>4, <1>5, <2>1, <2>2 DEF MemberOK
<1>11. ASSUME NEW q \in Pos \ {m}
       PROVE  MemberOK(d, q)'
  <2>1. MemberOK(e, q)'
    BY <1>1, OthersOK DEF RoundOK
  <2>2. Held(d, q)' = Held(e, q)'
    BY <1>2 DEF Held
  <2>3. q < d.pub => q < e.pub
    BY <1>2 DEF Pos
  <2>4. ClosedOK(d, q)'
    BY <1>5, <2>1, <2>2, <2>3 DEF MemberOK, ClosedOK
  <2>5. ~(q = 0 /\ stage'[q] = "aesInit")
    BY <1>2, <2>1 DEF MemberOK
  <2> QED
    BY <1>2, <1>5, <2>1, <2>4, <2>5 DEF MemberOK
<1>12. RoundOK(d)'
  BY <1>7, <1>10, <1>11 DEF RoundOK
<1> QED
  BY <1>2, <1>12

(* The first member sends the parameters, when all have published.         *)
LEMMA RoundOpens ==
  ASSUME Orderly, N > 1, TypeOK, TypeOK', NoEmptyParams, NumberInv, RingInv,
         NEW e \in Rounds, RoundOK(e), NEW m \in Pos, AesInitSend(m)
  PROVE  \E d \in Rounds : RoundOK(d)'
<1>0. /\ StepOf(m) /\ [Next]_vars /\ NumberFresh(m) /\ MemberOK(e, m) /\ Prompt
  BY DEF StepOf, Worker, AesInitStage, Next, NumberInv, RoundOK, Orderly
<1>1. HoldsOn(e) /\ OthersAlone(m) /\ OthersUntouched(m)
  BY <1>0, HeldStays, StepAlone DEF OthersAlone, OthersUntouched
<1>2. PICK d \in Rounds : d = [n |-> e.n, f |-> gen, pub |-> N, open |-> TRUE]
  <2>1. e.n \in Numbers /\ gen \in [Pos -> 0 .. MaxGen] /\ N \in 0 .. N
    BY NAssumption DEF Rounds, TypeOK
  <2> QED
    BY <2>1 DEF Rounds
<1>3. /\ d.n = e.n /\ d.f = gen /\ d.open /\ d.pub = N /\ d.open \in BOOLEAN /\ e.open \in BOOLEAN
      /\ N \in Nat /\ e.pub \in 0 .. N
  BY <1>2, NAssumption DEF Rounds
<1>4. /\ m = 0 /\ pc[m] = "run" /\ stage[m] = "aesInit" /\ ~fresh[m]
      /\ pc'[m] = "run" /\ stage'[m] = "aesForm"
      /\ UNCHANGED <<mail, fresh, join, timers, aes>>
      /\ cur'[m] = Msg("aesInit", cur[m].n, m, Base({gen[m]}))
      /\ dh'[m] = [mod |-> {gen[m]}, nth |-> gen[m]]
  BY <1>0 DEF AesInitSend, NewDh, NewParams, At, GoTo, box, TypeOK, NumberFresh
<1>5. ~e.open /\ e.pub = N
  BY <1>0, <1>4 DEF MemberOK
<1>6. Later(e, d)
  BY <1>3, <1>5 DEF Later
<1>7. ~RsaPublish(m)
  BY <1>4 DEF RsaPublish, At
<1>8. PacketsOK(d)'
  <2>1. PacketsOK(e)
    BY DEF RoundOK
  <2>2. d.open /\ d.f[0] = gen[m]
    BY <1>3, <1>4
  <2>3. ASSUME NEW msg \in Messages, Sends(m, msg), msg # EndEncryptionMsg,
               NEW s \in Pos, msg.kind = "aesForm" => s = m
        PROVE  PacketOK(d, [msg |-> msg, from |-> s])'
    BY <1>0, <1>1, <1>6, <1>7, <2>2, <2>3, SendsRound
  <2> QED
    BY <1>0, <1>1, <1>6, <2>1, <2>3, PacketsStep
<1>9. ASSUME NEW q \in Pos
      PROVE  /\ stage[q] \in {"rsa", "aesInit"} /\ pc[q] # "off" /\ ~Held(e, q)
             /\ ~(timers[q] > 0) /\ join[q] = NoJoin
  <2>1. MemberOK(e, q) /\ ClosedOK(e, q)
    BY <1>5 DEF RoundOK, MemberOK
  <2>2. q < e.pub
    BY <1>3, <1>5 DEF Pos
  <2> QED
    BY <1>5, <2>1, <2>2 DEF MemberOK, ClosedOK
<1>10. ASSUME NEW q \in Pos, NEW r \in Rows(q)'
       PROVE  r.n # e.n
  <2>1. PICK i \in DOMAIN aes[q] : r = aes[q][i]
    BY <1>4, <1>10 DEF Rows
  <2>2. aes[q] \in Seq(KeyRows)
    BY DEF TypeOK
  <2>3. r.n <= Last(q) /\ r.n \in Int /\ Last(q) \in Int
    BY <2>1, <2>2, LastIsLargest, LastType, RowType DEF Last
  <2>4. ~(Last(q) >= e.n) /\ e.n \in Int
    BY <1>9 DEF Held, Rounds, Numbers
  <2> QED
    BY <2>3, <2>4
<1>11. \A q \in Pos : Held(d, q)' = Held(e, q)
  BY <1>3, <1>4 DEF Held, Last
<1>12. MemberOK(d, m)'
  <2>1. dh'[m] = Own(d.f, m)
    BY <1>3, <1>4 DEF Own
  <2>2. OpenOK(d, m)'
    BY <1>3, <1>4, <1>10, <2>1 DEF OpenOK
  <2>3. cur'[m].kind \in Forming
    BY <1>4 DEF Msg, Forming
  <2> QED
    BY <1>0, <1>3, <1>4, <1>9, <2>2, <2>3 DEF MemberOK
<1>13. ASSUME NEW q \in Pos \ {m}
       PROVE  MemberOK(d, q)'
  <2>1. MemberOK(e, q)'
    BY <1>1, OthersOK DEF RoundOK
  <2>2. /\ gen'[q] = d.f[q] /\ stage'[q] = stage[q] /\ pc'[q] = pc[q] /\ timers'[q] = timers[q]
        /\ join'[q] = join[q]
    BY <1>1, <1>3 DEF OthersAlone
  <2>3. q # 0
    BY <1>4
  <2>4. OpenOK(d, q)'
    BY <1>3, <1>9, <1>10, <1>11, <2>2, <2>3 DEF OpenOK
  <2> QED
    BY <1>3, <1>9, <2>1, <2>2, <2>3, <2>4 DEF MemberOK
<1>14. RoundOK(d)'
  BY <1>8, <1>12, <1>13 DEF RoundOK
<1> QED
  BY <1>14

(* A click finds everybody at rest.                                        *)
AtRest == \A p \in Pos : inbox[p] = <<>> /\ Resting(p) /\ Settled(p)

LEMMA ClickAtRest ==
  ASSUME Orderly, TypeOK, OrderInv, NEW m \in Pos, User(m)
  PROVE  AtRest
<1>1. Quiet
  <2>1. CASE Patient
    BY <2>1 DEF User, PressStart, PressStop, Click
  <2>2. CASE ~Patient
    <3>1. MaxStarts <= 1 /\ MaxStops = 0 /\ MaxStarts \in Nat
      BY <2>2, BoundsAssumption DEF Orderly
    <3>2. used["start"] \in Nat /\ used["stop"] \in Nat
      BY DEF TypeOK, Events
    <3>3. used["start"] = 0
      BY <3>1, <3>2 DEF User, PressStart, PressStop, Has
    <3> QED
      BY <2>2, <3>3 DEF OrderInv, Idle, Resting, Quiet
  <2> QED
    BY <2>1, <2>2
<1>2. ASSUME NEW k \in Pos, Calm(k)
      PROVE  AtRest
  <2>1. ~fresh[k] /\ timers[k] = 0 /\ pc[k] # "run" /\ join[k] = NoJoin
    BY <1>1 DEF Quiet
  <2>2. ~Asking(k)
    BY <2>1 DEF Asking
  <2> QED
    BY <1>2, <2>1, <2>2 DEF Calm, Stopping, Resting, AtRest
<1>3. ASSUME NEW e \in Rounds, RoundOK(e)
      PROVE  AtRest
  <2>1. ASSUME NEW p \in Pos
        PROVE  inbox[p] = <<>> /\ Resting(p) /\ Settled(p)
    <3>1. inbox[p] = <<>> /\ ~fresh[p] /\ timers[p] = 0 /\ pc[p] # "run" /\ join[p] = NoJoin
      BY <1>1 DEF Quiet
    <3>2. MemberOK(e, p)
      BY <1>3 DEF RoundOK
    <3>3. p = 0 => stage[p] # "aesInit"
      BY <3>1, <3>2 DEF MemberOK
    <3>4. pc[p] # "off" => pc[p] = "wait" /\ stage[p] # "initRsa"
      BY <3>1, <3>2 DEF MemberOK, TypeOK
    <3>5. pc[p] # "off" => stage[p] # "end"
      <4>1. CASE e.open
        BY <3>1, <3>2, <3>4, <4>1 DEF MemberOK, OpenOK
      <4>2. CASE ~e.open
        BY <3>2, <4>2 DEF MemberOK, ClosedOK
      <4> QED
        BY <4>1, <4>2
    <3> QED
      BY <3>1, <3>3, <3>4, <3>5 DEF Resting, Settled
  <2> QED
    BY <2>1 DEF AtRest
<1> QED
  BY <1>2, <1>3 DEF OrderInv

(* An exchange, or the end of the encryption, begins.                      *)
LEMMA RoundBegins ==
  ASSUME NEW n \in Numbers,
         \A p \in Pos : \A pk \in Elems(inbox'[p]) :
           \/ pk.msg.kind = "rsaInit" /\ pk.msg.n = n
           \/ pk.msg.kind = "endEncryption" /\ pk.msg.n = 0,
         \A p \in Pos :
           /\ ~fresh'[p] /\ timers'[p] = 0 /\ join'[p] = NoJoin /\ Settled(p)'
           /\ pc'[p] = "run" => cur'[p].kind = "rsaInit" /\ cur'[p].n = n
  PROVE  \E d \in Rounds : RoundOK(d)'
<1> DEFINE d == [n |-> n, f |-> [p \in Pos |-> 0], pub |-> 0, open |-> FALSE]
<1>1. d \in Rounds
  <2>1. 0 \in 0 .. N /\ 0 \in 0 .. MaxGen
    BY NAssumption, BoundsAssumption
  <2> QED
    BY <2>1 DEF Rounds
<1>2. d.n = n /\ d.pub = 0 /\ ~d.open /\ d.open = FALSE
  OBVIOUS
<1> HIDE DEF d
<1>3. ASSUME NEW p \in Pos, NEW pk \in Packets, UnderWay(p, pk)'
      PROVE  PacketOK(d, pk)'
  <2>1. \/ pk.msg.kind = "rsaInit" /\ pk.msg.n = n
        \/ pk.msg.kind = "endEncryption" /\ pk.msg.n = 0
    BY <1>3 DEF UnderWay, InHand
  <2> QED
    BY <1>2, <2>1 DEF PacketOK
<1>4. ASSUME NEW p \in Pos
      PROVE  MemberOK(d, p)'
  <2>1. ClosedOK(d, p)'
    BY <1>2 DEF ClosedOK, Settled, Pos
  <2>2. pc'[p] = "run" => cur'[p].kind \in Forming
    BY DEF Forming
  <2> QED
    BY <1>2, <2>1, <2>2 DEF MemberOK, Settled
<1> QED
  BY <1>1, <1>3, <1>4 DEF RoundOK, PacketsOK

LEMMA EndsOnly ==
  ASSUME TypeOK, NEW m \in Pos, Broadcast(m, EndEncryptionMsg), \A p \in Pos : inbox[p] = <<>>
  PROVE  \A p \in Pos : \A pk \in Elems(inbox'[p]) : pk.msg.kind = "endEncryption" /\ pk.msg.n = 0
<1>1. OnlyNew([msg |-> EndEncryptionMsg, from |-> m])
  BY NoneType, BroadcastNew
<1>2. \A p \in Pos : Elems(inbox[p]) = {}
  BY DEF Elems
<1> QED
  BY <1>1, <1>2 DEF OnlyNew, EndEncryptionMsg, Msg

(* What a click does.                                                      *)
LEMMA UserBegins ==
  ASSUME TypeOK, AtRest, NEW m \in Pos, User(m)
  PROVE  Calm(m)' \/ \E d \in Rounds : RoundOK(d)'
<1>0. OthersAlone(m) /\ \A p \in Pos : inbox[p] = <<>> /\ Resting(p) /\ Settled(p)
  BY StepAlone DEF StepOf, AtRest
<1>1. \A p \in Pos \ {m} : Resting(p)' /\ Settled(p)'
  BY <1>0 DEF OthersAlone, Resting, Settled
<1>2. /\ Join("ui", "init") # NoJoin /\ Join("ui", "notify") # NoJoin
  BY DEF Join, NoJoin
<1>3. CASE PressStart(m)
  <2>1. UNCHANGED <<inbox, timers>>
    BY <1>3 DEF PressStart
  <2>2. CASE pc[m] = "off"
    <3>1. /\ join'[m] = NoJoin /\ stage'[m] = "initRsa" /\ fresh'[m] = TRUE /\ pc'[m] = "wait"
      BY <1>3, <2>2 DEF PressStart, StartWith, TypeOK
    <3>2. Asking(m)'
      BY <3>1 DEF Asking
    <3> QED
      BY <1>0, <1>1, <2>1, <3>2 DEF Calm, Resting
  <2>3. CASE pc[m] # "off"
    <3>1. /\ join'[m] = Join("ui", "init") /\ UNCHANGED <<stage, pc, fresh>>
      BY <1>3, <2>3 DEF PressStart, RequestStop, box, TypeOK
    <3>2. Stopping(m)'
      BY <1>0, <3>1 DEF Stopping, Resting, Settled
    <3> QED
      BY <1>0, <1>1, <2>1, <3>2 DEF Calm, Resting
  <2> QED
    BY <2>2, <2>3
<1>4. CASE PressStop(m)
  <2>1. UNCHANGED <<timers, pc, stage, mail, fresh, cur>>
    BY <1>4 DEF PressStop, box
  <2>2. CASE pc[m] = "off"
    <3>1. Broadcast(m, EndEncryptionMsg) /\ UNCHANGED join
      BY <1>4, <2>2 DEF PressStop
    <3>2. \A p \in Pos : /\ ~fresh'[p] /\ timers'[p] = 0 /\ join'[p] = NoJoin /\ Settled(p)'
                         /\ pc'[p] # "run"
      BY <1>0, <2>1, <3>1 DEF Resting, Settled
    <3>3. 0 \in Numbers
      BY BoundsAssumption DEF Numbers
    <3> QED
      BY <1>0, <3>1, <3>2, <3>3, EndsOnly, RoundBegins
  <2>3. CASE pc[m] # "off"
    <3>1. join'[m] = Join("ui", "notify") /\ UNCHANGED inbox
      BY <1>4, <2>3 DEF PressStop, RequestStop, TypeOK
    <3>2. Stopping(m)'
      BY <1>0, <2>1, <3>1 DEF Stopping, Resting, Settled
    <3> QED
      BY <1>0, <1>1, <2>1, <3>1, <3>2 DEF Calm, Resting
  <2> QED
    BY <2>2, <2>3
<1> QED
  BY <1>3, <1>4 DEF User

(* Between two exchanges only the member that has been clicked on does
   anything: it stops its worker, and begins or ends.                      *)
LEMMA CalmStep ==
  ASSUME Orderly, TypeOK, TypeOK', NumberInv, NEW k \in Pos, Calm(k), NEW m \in Pos, StepOf(m),
         ~User(m)
  PROVE  Calm(k)' \/ \E d \in Rounds : RoundOK(d)'
<1>0. /\ OthersAlone(m) /\ NumberFresh(k) /\ timers[k] = 0 /\ (Stopping(k) \/ Asking(k))
      /\ \A p \in Pos : inbox[p] = <<>>
      /\ \A p \in Pos \ {k} : Resting(p) /\ Settled(p)
  BY StepAlone DEF NumberInv, Calm
<1>1. ~Dispatch(m) /\ ~Environment(m)
  <2>1. ~Dispatch(m)
    BY <1>0 DEF Dispatch, DispatchForming, DispatchEnding, DispatchOther, Reads
  <2>2. ~Restart(m)
    BY DEF Restart, Has, TypeOK, Events, Orderly
  <2>3. ~Resend(m) /\ ~Lose(m)
    BY <1>0 DEF Resend, Lose
  <2> QED
    BY <2>1, <2>2, <2>3 DEF Environment
<1>2. m = k
  <2>1. ASSUME m # k
        PROVE  FALSE
    <3>1. ~fresh[m] /\ timers[m] = 0 /\ pc[m] # "run" /\ join[m] = NoJoin
      BY <1>0, <2>1 DEF Resting
    <3>2. ~Lifecycle(m)
      BY <3>1 DEF Lifecycle, TimerStop, Joined
    <3>3. ~Worker(m)
      BY <3>1
      DEF Worker, Take, InitRsa, RsaStage, RsaPublish, RsaListen, AesInitStage, AesInitSend,
          AesInitReceive, FormStage, FormSolo, FormBegin, FormFinish, FormForward, FormIgnore,
          EndKeyForming, At
    <3> QED
      BY <1>1, <3>2, <3>3 DEF StepOf
  <2> QED
    BY <2>1
<1>3. \A p \in Pos \ {k} : Resting(p)' /\ Settled(p)'
  BY <1>0, <1>2 DEF OthersAlone, Resting, Settled
<1>4. ASSUME Asking(k)', timers'[k] = 0, UNCHANGED inbox
      PROVE  Calm(k)'
  BY <1>0, <1>3, <1>4 DEF Calm
<1>5. ~TimerStop(k)
  BY <1>0 DEF TimerStop
<1>6. CASE Joined(k)
  <2>1. Stopping(k) /\ join[k] \in {Join("ui", "init"), Join("ui", "notify")}
    BY <1>0, <1>6 DEF Joined, Stopping, Asking
  <2>2. join'[k] = NoJoin /\ UNCHANGED <<timers, cur>>
    BY <1>6 DEF Joined, TypeOK
  <2>3. CASE join[k] = Join("ui", "init")
    <3>1. join[k].then = "init"
      BY <2>3 DEF Join
    <3>2. stage'[k] = "initRsa" /\ fresh'[k] = TRUE /\ pc'[k] = "wait" /\ UNCHANGED inbox
      BY <1>6, <3>1 DEF Joined, StartWith, TypeOK
    <3>3. Asking(k)'
      BY <2>2, <3>2 DEF Asking
    <3> QED
      BY <1>0, <1>4, <2>2, <3>2, <3>3
  <2>4. CASE join[k] = Join("ui", "notify")
    <3>1. join[k].then = "notify"
      BY <2>4 DEF Join
    <3>2. /\ pc'[k] = "off" /\ Broadcast(k, EndEncryptionMsg)
          /\ UNCHANGED <<stage, mail, fresh>>
      BY <1>6, <3>1 DEF Joined, box, TypeOK
    <3>3. ~fresh'[k] /\ timers'[k] = 0 /\ Settled(k)'
      BY <1>0, <2>1, <2>2, <3>2 DEF Stopping, Settled
    <3>4. \A p \in Pos : /\ ~fresh'[p] /\ timers'[p] = 0 /\ join'[p] = NoJoin /\ Settled(p)'
                         /\ pc'[p] # "run"
      BY <1>3, <2>2, <3>2, <3>3 DEF Resting
    <3>5. 0 \in Numbers
      BY BoundsAssumption DEF Numbers
    <3> QED
      BY <1>0, <3>2, <3>4, <3>5, EndsOnly, RoundBegins
  <2> QED
    BY <2>1, <2>3, <2>4
<1>7. CASE Worker(k)
  <2>1. Asking(k)
    <3>1. ~fresh[k] /\ pc[k] # "run" => ~Worker(k)
      BY DEF Worker, Take, InitRsa, RsaStage, RsaPublish, RsaListen, AesInitStage, AesInitSend,
             AesInitReceive, FormStage, FormSolo, FormBegin, FormFinish, FormForward, FormIgnore,
             EndKeyForming, At
    <3> QED
      BY <1>0, <1>7, <3>1 DEF Stopping
  <2>2. Take(k) \/ InitRsa(k)
    BY <1>7, <2>1
    DEF Asking, Worker, RsaStage, RsaPublish, RsaListen, AesInitStage, AesInitSend, AesInitReceive,
        FormStage, FormSolo, FormBegin, FormFinish, FormForward, FormIgnore, EndKeyForming, At
  <2>3. CASE Take(k)
    <3>1. /\ fresh'[k] = FALSE /\ pc'[k] = "run" /\ UNCHANGED <<inbox, stage, join, timers>>
      BY <2>3 DEF Take, net, TypeOK
    <3>2. Asking(k)'
      BY <2>1, <3>1 DEF Asking
    <3> QED
      BY <1>0, <1>4, <3>1, <3>2
  <2>4. CASE InitRsa(k)
    <3>0. Last(k) \in 0 .. MaxKeyN /\ MaxKeyN \in Nat
      <4>1. aes[k] \in Seq(KeyRows)
        BY DEF TypeOK
      <4> QED
        BY <4>1, LastType, BoundsAssumption DEF Last
    <3>1. PICK n \in Numbers : n = Last(k) + 1
      <4>1. Last(k) < MaxKeyN
        BY <2>4 DEF InitRsa
      <4>2. Last(k) + 1 \in Numbers
        BY <3>0, <4>1 DEF Numbers
      <4> QED
        BY <4>2
    <3>2. /\ Broadcast(k, Msg("rsaInit", n, k, Base({}))) /\ cur'[k] = Msg("rsaInit", n, k, Base({}))
          /\ pc' = pc /\ pc[k] = "run" /\ stage'[k] = "rsa" /\ UNCHANGED <<fresh, join, timers>>
      BY <2>4, <3>1 DEF InitRsa, GoTo, At, box, TypeOK
    <3>3. ~fresh[k] /\ join[k] = NoJoin
      BY <1>0, <2>1, <3>2 DEF NumberFresh, Asking
    <3>4. \A p \in Pos : ~fresh'[p] /\ timers'[p] = 0 /\ join'[p] = NoJoin /\ Settled(p)'
      <4>1. Settled(k)'
        BY <3>2 DEF Settled
      <4> QED
        BY <1>0, <1>3, <3>2, <3>3, <4>1 DEF Resting
    <3>5. \A p \in Pos : pc'[p] = "run" => cur'[p].kind = "rsaInit" /\ cur'[p].n = n
      BY <1>3, <3>2 DEF Resting, Msg
    <3>6. OnlyNew([msg |-> Msg("rsaInit", n, k, Base({})), from |-> k])
      <4>1. Msg("rsaInit", n, k, Base({})) \in Messages
        BY MsgType, BaseType DEF Kinds, Numbers
      <4> QED
        BY <3>2, <4>1, BroadcastNew
    <3>7. \A p \in Pos : \A pk \in Elems(inbox'[p]) : pk.msg.kind = "rsaInit" /\ pk.msg.n = n
      <4>1. \A p \in Pos : Elems(inbox[p]) = {}
        BY <1>0 DEF Elems
      <4> QED
        BY <3>6, <4>1 DEF OnlyNew, Msg
    <3> QED
      BY <3>4, <3>5, <3>7, RoundBegins
  <2> QED
    BY <2>2, <2>3, <2>4
<1> QED
  BY <1>1, <1>2, <1>5, <1>6, <1>7 DEF StepOf, Lifecycle

(* Before the only click of impatient users nothing can happen.            *)
LEMMA IdleWaits ==
  ASSUME Orderly, ~Patient, TypeOK, Idle, NEW m \in Pos, StepOf(m)
  PROVE  PressStart(m)
<1>1. /\ pc[m] = "off" /\ inbox[m] = <<>> /\ timers[m] = 0 /\ ~fresh[m] /\ join[m] = NoJoin
  BY DEF Idle, Resting
<1>2. ~PressStop(m) /\ ~Restart(m)
  BY DEF PressStop, Restart, Has, Orderly, TypeOK, Events
<1>3. ~Lifecycle(m)
  BY <1>1 DEF Lifecycle, TimerStop, Joined
<1>4. ~Dispatch(m)
  BY <1>1 DEF Dispatch, DispatchForming, DispatchEnding, DispatchOther, Reads
<1>5. ~Worker(m)
  BY <1>1 DEF Worker, Take, InitRsa, RsaStage, RsaPublish, RsaListen, AesInitStage, AesInitSend,
              AesInitReceive, FormStage, FormSolo, FormBegin, FormFinish, FormForward,
              FormIgnore, EndKeyForming, At
<1>6. ~Resend(m) /\ ~Lose(m)
  BY <1>1 DEF Resend, Lose
<1> QED
  BY <1>2, <1>3, <1>4, <1>5, <1>6 DEF StepOf, User, Environment

(* The click counts, and no step counts back.                              *)
LEMMA ClickCounts ==
  ASSUME TypeOK, NEW m \in Pos, StepOf(m)
  PROVE  /\ used["start"] \in Nat /\ used'["start"] >= used["start"]
         /\ PressStart(m) => used'["start"] = used["start"] + 1
<1>1. used["start"] \in Nat
  BY DEF TypeOK, Events
<1>2. used' = used \/ \E e \in Events : Use(e)
  BY DEF StepOf, User, PressStart, PressStop, Lifecycle, TimerStop, Joined, Dispatch,
         DispatchForming, DispatchEnding, DispatchOther, Worker, Take, InitRsa, RsaStage,
         RsaPublish, RsaListen, AesInitStage, AesInitSend, AesInitReceive, FormStage, FormSolo,
         FormBegin, FormFinish, FormForward, FormIgnore, EndKeyForming, Environment, Resend,
         Lose, Restart, Events
<1>3. ASSUME NEW e \in Events, Use(e)
      PROVE  used'["start"] >= used["start"]
  <2>1. used'["start"] = IF e = "start" THEN used["start"] + 1 ELSE used["start"]
    BY <1>3 DEF Use, TypeOK, Events
  <2> QED
    BY <1>1, <2>1
<1>4. PressStart(m) => used'["start"] = used["start"] + 1
  BY DEF PressStart, Use, TypeOK, Events
<1> QED
  BY <1>1, <1>2, <1>3, <1>4

LEMMA OrderlyStep ==
  ASSUME Orderly, N > 1, TypeOK, TypeOK', NoEmptyParams, JoinHasThread, NumberInv, RingInv,
         OrderInv, NEW m \in Pos, StepOf(m)
  PROVE  OrderInv'
<1>1. ((\E k \in Pos : Calm(k)) \/ \E e \in Rounds : RoundOK(e))'
  <2>1. CASE User(m)
    BY <2>1, ClickAtRest, UserBegins
  <2>2. ASSUME NEW k \in Pos, Calm(k), ~User(m)
        PROVE  Calm(k)' \/ \E d \in Rounds : RoundOK(d)'
    BY <2>2, CalmStep
  <2>3. ASSUME NEW e \in Rounds, RoundOK(e), ~User(m)
        PROVE  \E d \in Rounds : RoundOK(d)'
    <3>1. CASE AesInitSend(m)
      BY <2>3, <3>1, RoundOpens
    <3>2. CASE RsaPublish(m) /\ m = e.pub
      BY <2>3, <3>2, RoundPublishes
    <3>3. CASE ~AesInitSend(m) /\ ~(RsaPublish(m) /\ m = e.pub)
      BY <2>3, <3>3, RoundStays
    <3> QED
      BY <3>1, <3>2, <3>3
  <2> QED
    BY <2>1, <2>2, <2>3 DEF OrderInv
<1>2. ~(~Patient /\ used'["start"] = 0)
  <2> SUFFICES ASSUME ~Patient, used'["start"] = 0
               PROVE  FALSE
    OBVIOUS
  <2>1. used["start"] = 0
    BY ClickCounts
  <2>2. PressStart(m)
    BY <2>1, IdleWaits DEF OrderInv
  <2> QED
    BY <2>1, <2>2, ClickCounts
<1> QED
  BY <1>1, <1>2 DEF OrderInv

LEMMA OrderlyPause ==
  ASSUME TypeOK, TypeOK', NoEmptyParams, OrderInv, UNCHANGED vars
  PROVE  OrderInv'
<1>0. /\ UNCHANGED <<inbox, pc, stage, mail, fresh, cur, join, timers, dh, gen, aes, used>>
  BY DEF vars
<1>1. \A p \in Pos : (Resting(p) => Resting(p)') /\ (Settled(p) => Settled(p)')
  BY <1>0 DEF Resting, Settled
<1>2. ASSUME NEW k \in Pos, Calm(k)
      PROVE  Calm(k)'
  BY <1>0, <1>1, <1>2 DEF Calm, Stopping, Asking, Settled
<1>3. ASSUME NEW e \in Rounds, RoundOK(e)
      PROVE  RoundOK(e)'
  <2>1. HoldsOn(e)
    BY HeldStays
  <2>2. \A p \in Pos : MemberOK(e, p)'
    BY <1>0, <1>3, <2>1, SameMember DEF RoundOK
  <2>3. ASSUME NEW p \in Pos, NEW pk \in Packets, UnderWay(p, pk)'
        PROVE  PacketOK(e, pk)'
    <3>1. UnderWay(p, pk)
      BY <1>0, <2>3 DEF UnderWay, InHand
    <3>2. PacketOK(e, pk)
      BY <1>3, <3>1 DEF RoundOK, PacketsOK
    <3>3. \A x \in Pos : Held(e, x)' = Held(e, x)
      BY <1>0 DEF Held, Last
    <3> QED
      BY <3>2, <3>3 DEF PacketOK, AllHold
  <2> QED
    BY <2>2, <2>3 DEF RoundOK, PacketsOK
<1>4. ~Patient /\ used'["start"] = 0 => Idle'
  BY <1>0, <1>1 DEF OrderInv, Idle
<1> QED
  BY <1>2, <1>3, <1>4 DEF OrderInv

LEMMA OrderCorrect == Orderly /\ N > 1 => (Spec => []OrderInv)
<1>1. Init => OrderInv
  <2> SUFFICES ASSUME Init
               PROVE  OrderInv
    OBVIOUS
  <2>1. 0 \in Pos
    BY NAssumption DEF Pos
  <2>2. \A m \in Pos : Resting(m) /\ Settled(m) /\ inbox[m] = <<>> /\ pc[m] = "off"
    BY DEF Init, Resting, Settled
  <2>3. Calm(0)
    BY <2>1, <2>2 DEF Calm, Stopping, Resting
  <2> QED
    BY <2>1, <2>2, <2>3 DEF OrderInv, Idle
<1>2. ASSUME Orderly, N > 1 PROVE Spec => []OrderInv
  <2>1. TypeOK /\ TypeOK' /\ NoEmptyParams /\ JoinHasThread /\ NumberInv /\ RingInv /\ OrderInv
          /\ [Next]_vars => OrderInv'
    BY <1>2, OrderlyStep, OrderlyPause DEF Next, StepOf
  <2>2. Spec => []NumberInv /\ []RingInv
    BY <1>2, NumbersCorrect, RingCorrect DEF Orderly
  <2> QED
    BY <1>1, <2>1, <2>2, TypeCorrect, ParamsPresent, StopFindsThread, PTL DEF Spec
<1> QED
  BY <1>2

-----------------------------------------------------------------------------
(* What orderly exchanges leave in the tables.                             *)

(* A key that is stored is what everybody has raised it to.                *)
LEMMA FinishHasPart ==
  ASSUME N > 1, TypeOK, NoEmptyParams, NumberInv, RingInv, OrderInv, NEW m \in Pos, FormFinish(m)
  PROVE  \E e \in Rounds :
           RoundOK(e) /\ e.open /\ cur[m].n = e.n /\ Multi(m) = Part(e.f, Pos)
<1>1. At(m, "aesForm") /\ pc[m] = "run" /\ stage[m] = "aesForm" /\ cur[m].last = m
  BY DEF FormFinish, At
<1>2. PICK snd \in SendersSeen(m) : MyTurn(m, snd)
  BY DEF FormFinish
<1>3. \A k \in Pos : ~Calm(k)
  BY <1>1 DEF Calm, Resting, Stopping, Asking
<1>4. PICK e \in Rounds : RoundOK(e)
  BY <1>3 DEF OrderInv
<1>5. NumberFresh(m) /\ LocalRing(m)
  BY DEF NumberInv, RingInv
<1>6. e.open /\ Multi(m) = Part(e.f, Pos)
  BY <1>1, <1>2, <1>4, <1>5, TurnHasPart
<1>7. cur[m].n = e.n
  BY <1>1, <1>4, CurRound
<1> QED
  BY <1>4, <1>6, <1>7

(* All rows are modulo one p, or modulo nothing in a chat with oneself.    *)
ModOK(r) == IF N = 1 THEN r.key.mod = {} ELSE \E g : r.key.mod = {g}
ModInv == \A m \in Pos : \A r \in Rows(m) : ModOK(r)

LEMMA ModStep ==
  ASSUME TypeOK, NoEmptyParams, N > 1 => NumberInv /\ RingInv /\ OrderInv, ModInv, [Next]_vars
  PROVE  ModInv'
<1> SUFFICES ASSUME NEW m \in Pos, NEW r \in Rows(m)'
             PROVE  ModOK(r)
  BY DEF ModInv, ModOK
<1>1. ASSUME NEW q \in Rows(m), q.key = r.key
      PROVE  ModOK(r)
  BY <1>1 DEF ModInv, ModOK
<1>2. CASE FormSolo(m) /\ r = Row(cur[m].n, SoloKey(m), InUse)
  <2>1. N = 1 /\ r.key = SoloKey(m)
    BY <1>2 DEF FormSolo, Row
  <2>2. SoloKey(m).mod = {}
    BY DEF SoloKey, Public, NewParams, Raise, Base
  <2> QED
    BY <2>1, <2>2 DEF ModOK
<1>3. CASE FormFinish(m) /\ r = Row(cur[m].n, Multi(m), InUse)
  <2>1. N > 1 /\ N # 1 /\ r.key = Multi(m)
    BY <1>3, NAssumption DEF FormFinish, Row
  <2>2. PICK e \in Rounds : Multi(m) = Part(e.f, Pos)
    BY <1>3, <2>1, FinishHasPart
  <2>3. r.key.mod = {e.f[0]}
    BY <2>1, <2>2 DEF Part
  <2> QED
    BY <2>1, <2>3 DEF ModOK
<1> QED
  BY <1>1, <1>2, <1>3, NewRows

(* Every key that orderly exchanges store has been raised by every member,
   modulo the p of one of them, in a chat of any size, however many exchanges
   there are and whatever messages are lost or repeated.                   *)
THEOREM OrderlyKeysCommon == Orderly => (Spec => []Contributory)
<1>1. RaisedOnce /\ ModInv => Contributory
  <2> SUFFICES ASSUME RaisedOnce, ModInv, NEW m \in Pos, NEW r \in Rows(m)
               PROVE  Cardinality(r.key.mod) = IF N = 1 THEN 0 ELSE 1
    BY DEF Contributory
  <2>1. ModOK(r)
    BY DEF ModInv
  <2> QED
    BY <2>1, FS_EmptySet, FS_Singleton DEF ModOK
<1>2. Init => ModInv
  BY DEF Init, ModInv, Rows
<1>3. ASSUME Orderly PROVE Spec => []Contributory
  <2>1. TypeOK /\ NoEmptyParams /\ (N > 1 => NumberInv /\ RingInv /\ OrderInv) /\ ModInv
          /\ [Next]_vars => ModInv'
    BY ModStep
  <2>2. Spec => []RaisedOnce
    BY <1>3, EveryMemberOnce DEF Orderly
  <2>3. Spec => [](N > 1 => NumberInv /\ RingInv /\ OrderInv)
    <3>1. CASE N > 1
      <4>1. Spec => []NumberInv /\ []RingInv
        BY <1>3, NumbersCorrect, RingCorrect DEF Orderly
      <4>2. Spec => []OrderInv
        BY <1>3, <3>1, OrderCorrect
      <4>3. NumberInv /\ RingInv /\ OrderInv => (N > 1 => NumberInv /\ RingInv /\ OrderInv)
        OBVIOUS
      <4> QED
        BY <4>1, <4>2, <4>3, PTL
    <3>2. CASE ~(N > 1)
      <4>1. N > 1 => NumberInv /\ RingInv /\ OrderInv
        BY <3>2
      <4> QED
        BY <4>1, PTL
    <3> QED
      BY <3>1, <3>2
  <2> QED
    BY <1>1, <1>2, <2>1, <2>2, <2>3, TypeCorrect, ParamsPresent, PTL DEF Spec
<1> QED
  BY <1>3

-----------------------------------------------------------------------------
(* Orderly exchanges implement GroupKey.                                   *)

(* What the rest of the program sees of a table, as the refinement has it. *)
TableSeen(t) == {[n |-> r.n, key |-> r.key] : r \in Elems(t)}
InUseSeen(t) == {r.n : r \in {q \in Elems(t) : q.status = InUse}}

LEMMA DisabledSeen ==
  ASSUME NEW t \in Seq(KeyRows)
  PROVE  TableSeen(DisableOtherKeys(t)) = TableSeen(t) /\ InUseSeen(DisableOtherKeys(t)) = {}
<1> DEFINE new == DisableOtherKeys(t)
<1>1. /\ DOMAIN new = DOMAIN t
      /\ \A i \in DOMAIN t : new[i] = Row(t[i].n, t[i].key, Outdated)
  BY DEF DisableOtherKeys
<1> HIDE DEF new
<1>2. \A i \in DOMAIN t : new[i].n = t[i].n /\ new[i].key = t[i].key /\ new[i].status # InUse
  BY <1>1 DEF Row, Outdated, InUse
<1>3. TableSeen(new) = TableSeen(t)
  BY <1>1, <1>2 DEF TableSeen, Elems
<1>4. InUseSeen(new) = {}
  BY <1>1, <1>2 DEF InUseSeen, Elems
<1> QED
  BY <1>3, <1>4 DEF new

LEMMA AddedSeen ==
  ASSUME NEW t \in Seq(KeyRows), NEW n \in 0 .. MaxKeyN, NEW key \in Value
  PROVE  /\ TableSeen(AddAesKey(t, n, key)) = TableSeen(t) \cup {[n |-> n, key |-> key]}
         /\ InUseSeen(AddAesKey(t, n, key)) = {n}
<1> DEFINE new == AddAesKey(t, n, key)
           last == Len(t) + 1
<1>1. /\ DOMAIN new = DOMAIN t \cup {last}
      /\ \A i \in DOMAIN t : new[i] = Row(t[i].n, t[i].key, Outdated)
      /\ new[last] = Row(n, key, InUse)
  BY TableKept
<1> HIDE DEF new, last
<1>2. /\ \A i \in DOMAIN t : new[i].n = t[i].n /\ new[i].key = t[i].key /\ new[i].status # InUse
      /\ new[last].n = n /\ new[last].key = key /\ new[last].status = InUse
  BY <1>1 DEF Row, Outdated, InUse
<1>3. Elems(new) = {new[i] : i \in DOMAIN t} \cup {new[last]}
  BY <1>1 DEF Elems
<1>4. TableSeen(new) = TableSeen(t) \cup {[n |-> n, key |-> key]}
  <2>1. TableSeen(new) = {[n |-> new[i].n, key |-> new[i].key] : i \in DOMAIN t}
                           \cup {[n |-> new[last].n, key |-> new[last].key]}
    BY <1>3 DEF TableSeen
  <2>2. TableSeen(t) = {[n |-> t[i].n, key |-> t[i].key] : i \in DOMAIN t}
    BY DEF TableSeen, Elems
  <2> QED
    BY <1>2, <2>1, <2>2
<1>5. InUseSeen(new) = {n}
  <2>1. {q \in Elems(new) : q.status = InUse} = {new[last]}
    BY <1>2, <1>3
  <2> QED
    BY <1>2, <2>1 DEF InUseSeen
<1> QED
  BY <1>4, <1>5 DEF new

(* A key that everybody has raised is one that GroupKey knows.             *)
LEMMA PartIsCommon ==
  ASSUME NEW e \in Rounds, Once(Part(e.f, Pos), Pos)
  PROVE  Part(e.f, Pos) \in CommonKeys
<1> DEFINE common(g, f) ==
             [mod |-> {g}, exp |-> [p \in Pos |-> [i \in Gens |-> IF i = f[p] THEN 1 ELSE 0]]]
<1>1. \A p \in Pos : e.f[p] \in Gens
  <2> SUFFICES ASSUME NEW p \in Pos
               PROVE  e.f[p] \in Gens
    OBVIOUS
  <2>1. PICK i \in Gens : Part(e.f, Pos).exp[p][i] = 1
    BY DEF Once
  <2>2. Part(e.f, Pos).exp[p][i] = IF i = e.f[p] THEN 1 ELSE 0
    BY DEF Part
  <2> QED
    BY <2>1, <2>2
<1>2. e.f \in [Pos -> Gens] /\ e.f[0] \in Gens
  BY <1>1, NAssumption DEF Rounds, Pos
<1>3. Part(e.f, Pos) = common(e.f[0], e.f)
  BY DEF Part
<1>4. CommonKeys = {common(g, f) : g \in Gens, f \in [Pos -> Gens]}
  BY DEF CommonKeys
<1> HIDE DEF common
<1> QED
  BY <1>2, <1>3, <1>4

(* Only storing and disabling keys is seen.                                *)
LEMMA StepSeen ==
  ASSUME N > 1, NEW m \in Pos, StepOf(m)
  PROVE  UNCHANGED aes \/ Disables(m) \/ FormFinish(m)
<1>1. CASE User(m) \/ Lifecycle(m) \/ Dispatch(m)
  BY <1>1
  DEF User, PressStart, PressStop, Lifecycle, TimerStop, Joined, Dispatch,
      DispatchForming, DispatchEnding, DispatchOther, Disables
<1>2. CASE \/ Take(m) \/ InitRsa(m) \/ RsaStage(m) \/ AesInitStage(m)
           \/ FormBegin(m) \/ FormForward(m) \/ FormIgnore(m)
           \/ EndKeyForming(m) \/ Environment(m)
  BY <1>2
  DEF Take, InitRsa, RsaStage, RsaPublish, RsaListen, AesInitStage, AesInitSend,
      AesInitReceive, FormBegin, FormForward, FormIgnore, EndKeyForming,
      Environment, Resend, Lose, Restart
<1>3. ~FormSolo(m)
  BY DEF FormSolo
<1> QED
  BY <1>1, <1>2, <1>3 DEF StepOf, Worker, FormStage

Seen == <<[p \in Pos |-> TableSeen(aes[p])], [p \in Pos |-> InUseSeen(aes[p])]>>

LEMMA SeenStep ==
  ASSUME N > 1, TypeOK, NoEmptyParams, NumberInv, RingInv, OrderInv, NEW m \in Pos, StepOf(m)
  PROVE  UNCHANGED Seen \/ Promise!Next
<1> DEFINE table == [p \in Pos |-> TableSeen(aes[p])]
           inUse == [p \in Pos |-> InUseSeen(aes[p])]
           tableNext == [p \in Pos |-> TableSeen(aes'[p])]
           inUseNext == [p \in Pos |-> InUseSeen(aes'[p])]
<1>0. \A p \in Pos : aes[p] \in Seq(KeyRows)
  BY DEF TypeOK
<1>1. CASE UNCHANGED aes
  BY <1>1 DEF Seen
<1>2. CASE Disables(m)
  <2>1. aes'[m] = DisableOtherKeys(aes[m]) /\ \A p \in Pos \ {m} : aes'[p] = aes[p]
    BY <1>2 DEF Disables, TypeOK
  <2>2. TableSeen(aes'[m]) = TableSeen(aes[m]) /\ InUseSeen(aes'[m]) = {}
    BY <1>0, <2>1, DisabledSeen
  <2>3. tableNext = table /\ inUseNext = [inUse EXCEPT ![m] = {}]
    BY <2>1, <2>2
  <2>4. CASE inUse[m] = {}
    <3>1. inUseNext = inUse
      BY <2>3, <2>4
    <3> QED
      BY <2>3, <3>1 DEF Seen
  <2>5. CASE inUse[m] # {}
    <3>1. Promise!Disable(m)
      BY <2>3, <2>5 DEF Promise!Disable, TableSeen, InUseSeen, Elems, Rows
    <3> QED
      BY <3>1 DEF Promise!Next
  <2> QED
    BY <2>4, <2>5
<1>3. CASE FormFinish(m)
  <2>1. PICK e \in Rounds :
          RoundOK(e) /\ e.open /\ cur[m].n = e.n /\ Multi(m) = Part(e.f, Pos)
    BY <1>3, FinishHasPart
  <2>2. Once(Multi(m), Pos)
    BY <1>3, FormRing DEF RingInv, NumberInv
  <2>3. Multi(m) \in CommonKeys
    BY <2>1, <2>2, PartIsCommon
  <2>4. Multi(m) \in Value /\ cur[m].n \in 0 .. MaxKeyN
    BY RaiseType DEF TypeOK, Messages, Multi
  <2>5. /\ aes'[m] = AddAesKey(aes[m], cur[m].n, Multi(m))
        /\ \A p \in Pos \ {m} : aes'[p] = aes[p]
    BY <1>3 DEF FormFinish, Store, TypeOK
  <2>6. PICK n \in 0 .. MaxKeyN : n = cur[m].n
    BY <2>4
  <2>7. PICK key \in Value : key = Multi(m)
    BY <2>4
  <2>8. /\ TableSeen(aes'[m]) = TableSeen(aes[m]) \cup {[n |-> n, key |-> key]}
        /\ InUseSeen(aes'[m]) = {n}
    BY <1>0, <2>4, <2>5, <2>6, <2>7, AddedSeen
  <2>9. /\ tableNext = [table EXCEPT ![m] = table[m] \cup {[n |-> n, key |-> key]}]
        /\ inUseNext = [inUse EXCEPT ![m] = {n}]
    BY <2>5, <2>8
  <2>10. Last(m) < n /\ Last(m) \in 0 .. MaxKeyN
    <3>1. Last(m) \in 0 .. MaxKeyN
      BY <1>0, LastType DEF Last
    <3>2. cur[m].n > Last(m)
      BY <1>3 DEF NumberInv, NumberFresh, FormFinish, At
    <3> QED
      BY <2>4, <2>6, <3>1, <3>2
  <2>11. n \in 1 .. MaxKeyN
    BY <2>10, BoundsAssumption
  <2>12. \A x \in table[m] : x.n < n
    <3> SUFFICES ASSUME NEW i \in DOMAIN aes[m]
                 PROVE  aes[m][i].n < n
      BY DEF TableSeen, Elems
    <3>1. aes[m][i].n <= Last(m)
      BY <1>0, LastIsLargest DEF Last
    <3>2. aes[m][i].n \in 0 .. MaxKeyN
      BY <1>0, RowType
    <3> QED
      BY <2>10, <2>11, <3>1, <3>2
  <2>13. \A p \in Pos : \A x \in table[p] : x.n = n => x.key = key
    <3> SUFFICES ASSUME NEW p \in Pos, NEW r \in Rows(p), r.n = n
                 PROVE  r.key = key
      BY DEF TableSeen, Elems, Rows
    <3>1. OpenOK(e, p)
      BY <2>1 DEF RoundOK, MemberOK
    <3> QED
      BY <2>1, <2>6, <2>7, <3>1 DEF OpenOK
  <2>14. Promise!Install(m, n, key)
    BY <2>9, <2>12, <2>13 DEF Promise!Install, TableSeen, InUseSeen, Elems, Rows
  <2>15. n \in 1 .. MaxKeyN /\ key \in CommonKeys
    BY <2>3, <2>11, <2>7
  <2> QED
    BY <2>14, <2>15 DEF Promise!Next
<1> QED
  BY <1>1, <1>2, <1>3, StepSeen

(* What orderly exchanges do in a chat of several members is what GroupKey
   promises the rest of the program: every step installs a common key at one
   member, under a number that is new to it and means the same key to all,
   stops one from encrypting, or is not seen.                              *)
THEOREM OrderlyImplements == Orderly /\ N > 1 => (Spec => ImplementsGroupKey)
<1>1. Init => Promise!Init
  BY DEF Init, Promise!Init, Rows
<1>2. ASSUME Orderly, N > 1
      PROVE  Spec => ImplementsGroupKey
  <2>1. TypeOK /\ NoEmptyParams /\ NumberInv /\ RingInv /\ OrderInv /\ [Next]_vars
        => [Promise!Next]_<<[m \in Pos |-> {[n |-> r.n, key |-> r.key] : r \in Rows(m)}],
                            [m \in Pos |-> {r.n : r \in {q \in Rows(m) : q.status = InUse}}]>>
    <3> SUFFICES ASSUME TypeOK, NoEmptyParams, NumberInv, RingInv, OrderInv, [Next]_vars
                 PROVE  UNCHANGED Seen \/ Promise!Next
      BY DEF Seen, TableSeen, InUseSeen, Elems, Rows
    <3>1. CASE UNCHANGED vars
      BY <3>1 DEF vars, Seen
    <3>2. ASSUME NEW m \in Pos, StepOf(m)
          PROVE  UNCHANGED Seen \/ Promise!Next
      BY <1>2, <3>2, SeenStep
    <3> QED
      BY <3>1, <3>2 DEF Next, StepOf
  <2>2. Spec => []NumberInv /\ []RingInv
    BY <1>2, NumbersCorrect, RingCorrect DEF Orderly
  <2>3. Spec => []OrderInv
    BY <1>2, OrderCorrect
  <2> QED
    BY <1>1, <2>1, <2>2, <2>3, TypeCorrect, ParamsPresent, PTL
    DEF Spec, ImplementsGroupKey, Promise!Spec
<1> QED
  BY <1>2

=============================================================================
