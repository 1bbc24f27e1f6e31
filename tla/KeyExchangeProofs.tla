-------------------------- MODULE KeyExchangeProofs --------------------------
(***************************************************************************)
(* Theorems about KeyExchange, for every number of members and every bound *)
(* on the clicks, the losses, the repetitions and the restarts.            *)
(***************************************************************************)
EXTENDS KeyExchange, FiniteSetTheorems, WellFoundedInduction, TLAPS

(* A nonempty set of naturals up to a bound has a largest element.         *)
LEMMA HasLargest ==
  ASSUME NEW k \in Nat, NEW S \in SUBSET (0 .. k), S # {}
  PROVE  \E x \in S : \A y \in S : x >= y
<1> DEFINE T == {t \in 0 .. k : k - t \in S}
<1>1. T \subseteq Nat
  OBVIOUS
<1>2. T # {}
  <2>1. PICK x \in S : x \in 0 .. k
    OBVIOUS
  <2>2. k - x \in 0 .. k /\ k - (k - x) = x
    BY <2>1
  <2> QED
    BY <2>1, <2>2
<1>3. PICK t \in T : \A u \in T : ~(<<u, t>> \in OpToRel(<, Nat))
  BY <1>1, <1>2, WFMin, NatLessThanWellFounded
<1>4. \A u \in T : ~(u < t)
  BY <1>1, <1>3 DEF OpToRel
<1>5. \A y \in S : k - t >= y
  <2>1. TAKE y \in S
  <2>2. y \in 0 .. k /\ t \in 0 .. k
    OBVIOUS
  <2>3. k - (k - y) = y /\ k - y \in 0 .. k
    BY <2>2
  <2>4. k - y \in T
    BY <2>3
  <2>5. ~(k - y < t)
    BY <1>4, <2>4
  <2> QED
    BY <2>2, <2>5
<1> QED
  BY <1>5

(* The row add_aes_key appends is one the program reads back.              *)
LEMMA RowType ==
  ASSUME NEW t \in Seq(KeyRows), NEW i \in DOMAIN t
  PROVE  t[i].n \in 0 .. MaxKeyN /\ t[i].key \in Value /\ t[i].status \in {InUse, Outdated}
<1>1. t[i] \in KeyRows
  OBVIOUS
<1> QED
  BY <1>1 DEF KeyRows

(* The largest key number of a table is a number of one of its rows, and   *)
(* zero when there are none.                                               *)
LEMMA LastType ==
  ASSUME NEW t \in Seq(KeyRows)
  PROVE  LastKeyN(t) \in 0 .. MaxKeyN
<1>1. CASE t = <<>>
  BY <1>1, BoundsAssumption DEF LastKeyN
<1>2. CASE t # <<>>
  <2>1. KeyNumbers(t) \in SUBSET (0 .. MaxKeyN)
    <3>1. \A i \in DOMAIN t : t[i].n \in 0 .. MaxKeyN
      BY RowType
    <3> QED
      BY <3>1 DEF KeyNumbers
  <2>2. KeyNumbers(t) # {}
    <3>1. 1 \in DOMAIN t
      BY <1>2
    <3> QED
      BY <3>1 DEF KeyNumbers
  <2>3. \E x \in KeyNumbers(t) : \A y \in KeyNumbers(t) : x >= y
    BY <2>1, <2>2, HasLargest, BoundsAssumption
  <2> QED
    BY <1>2, <2>1, <2>3 DEF LastKeyN, Max
<1> QED
  BY <1>1, <1>2

(* The shape of messages, values and rows.                                 *)
LEMMA MsgType ==
  ASSUME NEW kind \in Kinds, NEW n \in 0 .. MaxKeyN, NEW last \in Pos,
         NEW key \in Value
  PROVE  Msg(kind, n, last, key) \in Messages
  BY DEF Msg, Messages

(* The generator g is a value.                                             *)
LEMMA BaseType ==
  ASSUME NEW mod \in SUBSET Gens
  PROVE  Base(mod) \in Value
  BY DEF Base, Value

(* A value raised to a private exponent is a value.                        *)
LEMMA RaiseType ==
  ASSUME NEW v \in Value, NEW m \in Pos, NEW params \in Params
  PROVE  Raise(v, m, params) \in Value
<1>1. v.exp[m] \in [Gens -> Nat]
  BY DEF Value
<1>2. [v.exp[m] EXCEPT ![params.nth] = @ + 1] \in [Gens -> Nat]
  <2>1. CASE params.nth \in Gens
    BY <1>1, <2>1
  <2>2. CASE params.nth \notin Gens
    BY <1>1, <2>2
  <2> QED
    BY <2>1, <2>2
<1>3. [v.exp EXCEPT ![m] = [v.exp[m] EXCEPT ![params.nth] = @ + 1]]
        \in [Pos -> [Gens -> Nat]]
  BY <1>2 DEF Value
<1>4. v.mod \in SUBSET Gens /\ params.mod \in SUBSET Gens
  BY DEF Value, Params
<1> QED
  BY <1>3, <1>4 DEF Raise, Value, Params

(* A public value is a value.                                              *)
LEMMA PublicType ==
  ASSUME NEW m \in Pos, NEW params \in Params
  PROVE  Public(m, params) \in Value
<1>1. params.mod \in SUBSET Gens
  BY DEF Params
<1> QED
  BY <1>1, BaseType, RaiseType DEF Public

(* The empty message, the empty parameters and the end of the encryption have their types. *)
LEMMA NoneType == NoMsg \in Messages /\ NoParams \in Params /\ EndEncryptionMsg \in Messages
<1>1. 0 \in Pos /\ 0 \in 0 .. MaxKeyN
  BY NAssumption, BoundsAssumption DEF Pos
<1>2. Base({}) \in Value
  BY BaseType
<1>3. NoMsg \in Messages /\ EndEncryptionMsg \in Messages
  BY <1>1, <1>2, MsgType DEF NoMsg, EndEncryptionMsg, Kinds
<1>4. NoParams \in Params
  BY DEF NoParams, Params
<1> QED
  BY <1>3, <1>4

(* Disabling and adding keep the table a sequence of rows.                 *)
LEMMA TableType ==
  ASSUME NEW t \in Seq(KeyRows)
  PROVE  /\ DisableOtherKeys(t) \in Seq(KeyRows)
         /\ \A n \in 0 .. MaxKeyN, key \in Value : AddAesKey(t, n, key) \in Seq(KeyRows)
<1>1. \A i \in DOMAIN t : Row(t[i].n, t[i].key, Outdated) \in KeyRows
  BY RowType DEF KeyRows, Row
<1>2. DisableOtherKeys(t) \in Seq(KeyRows)
  BY <1>1 DEF DisableOtherKeys
<1>3. ASSUME NEW n \in 0 .. MaxKeyN, NEW key \in Value
      PROVE  AddAesKey(t, n, key) \in Seq(KeyRows)
  <2>1. Row(n, key, InUse) \in KeyRows
    BY DEF Row, KeyRows
  <2> QED
    BY <1>2, <2>1 DEF AddAesKey
<1> QED
  BY <1>2, <1>3

(* A message sent to the chat leaves every inbox well typed.               *)
LEMMA BroadcastType ==
  ASSUME TypeOK, NEW m \in Pos, NEW msg \in Messages, Broadcast(m, msg)
  PROVE  inbox' \in [Pos -> Seq(Packets)]
<1>1. [msg |-> msg, from |-> m] \in Packets
  BY DEF Packets
<1> QED
  BY <1>1 DEF Broadcast, TypeOK

(* A message read leaves the inbox well typed, and is one.                 *)
LEMMA ReadsType ==
  ASSUME TypeOK, NEW m \in Pos, Reads(m)
  PROVE  /\ inbox' \in [Pos -> Seq(Packets)]
         /\ Packet(m) \in Packets
         /\ Packet(m).msg \in Messages
<1>1. inbox[m] \in Seq(Packets) /\ inbox[m] # <<>>
  BY DEF TypeOK, Reads
<1>2. Head(inbox[m]) \in Packets /\ Tail(inbox[m]) \in Seq(Packets)
  BY <1>1
<1>3. Packet(m) \in Packets
  BY <1>2 DEF Packet
<1> QED
  BY <1>2, <1>3 DEF Reads, TypeOK, Packets

(* start() keeps the types of all it assigns.                              *)
LEMMA StartWithType ==
  ASSUME TypeOK, NEW m \in Pos, NEW st \in Stages, NEW packet \in Packets,
         StartWith(m, st, packet)
  PROVE  /\ stopping' \in [Pos -> BOOLEAN]
         /\ started' \in [Pos -> BOOLEAN]
         /\ stage' \in [Pos -> Stages]
         /\ rsa' \in [Pos -> SUBSET Pos]
         /\ dh' \in [Pos -> Params]
         /\ pc' \in [Pos -> {"off", "wait", "run"}]
         /\ mail' \in [Pos -> Packets]
         /\ fresh' \in [Pos -> BOOLEAN]
  BY NoneType DEF TypeOK, StartWith

(* db_add_aes keeps the type of the table.                                 *)
LEMMA StoreType ==
  ASSUME TypeOK, NEW m \in Pos, NEW key \in Value, Store(m, key)
  PROVE  aes' \in [Pos -> Seq(KeyRows)]
<1>1. cur[m].n \in 0 .. MaxKeyN /\ aes[m] \in Seq(KeyRows)
  BY DEF TypeOK, Messages
<1>2. AddAesKey(aes[m], cur[m].n, key) \in Seq(KeyRows)
  BY <1>1, TableType
<1> QED
  BY <1>2 DEF Store, TypeOK

(* A message of the key round leaves every inbox well typed.               *)
LEMMA SendType ==
  ASSUME TypeOK, NEW m \in Pos, NEW last \in Pos, NEW key \in Value,
         Send(m, last, key)
  PROVE  inbox' \in [Pos -> Seq(Packets)]
<1>1. cur[m].n \in 0 .. MaxKeyN
  BY DEF TypeOK, Messages
<1>2. Msg("aesForm", cur[m].n, last, key) \in Messages
  BY <1>1, MsgType DEF Kinds
<1> QED
  BY <1>2, BroadcastType DEF Send

(* Ending the encryption keeps the type of the table.                      *)
LEMMA DisableType ==
  ASSUME TypeOK, NEW m \in Pos, aes' = [aes EXCEPT ![m] = DisableOtherKeys(@)]
  PROVE  aes' \in [Pos -> Seq(KeyRows)]
<1>1. aes \in [Pos -> Seq(KeyRows)]
  BY DEF TypeOK
<1>2. DisableOtherKeys(aes[m]) \in Seq(KeyRows)
  BY <1>1, TableType
<1> QED
  BY <1>1, <1>2

(* stop() keeps the types of the flag and of the caller that waits.        *)
LEMMA RequestStopType ==
  ASSUME TypeOK, NEW m \in Pos, NEW by \in {"ui", "mtp", "timer"},
         NEW then \in {"return", "init", "notify", "disable"},
         RequestStop(m, by, then)
  PROVE  stopping' \in [Pos -> BOOLEAN] /\ join' \in [Pos -> Calls]
<1>1. Join(by, then) \in Calls
  BY DEF Join, Calls
<1> QED
  BY <1>1 DEF RequestStop, TypeOK

(* Counting an event keeps the counters natural.                           *)
LEMMA UseType ==
  ASSUME TypeOK, NEW event \in Events, Use(event)
  PROVE  used' \in [Events -> Nat]
  BY DEF Use, TypeOK

(* The initial state is well typed.                                        *)
LEMMA InitType == Init => TypeOK
<1> SUFFICES ASSUME Init
             PROVE  TypeOK
  OBVIOUS
<1>1. \A p \in Pos : [msg |-> NoMsg, from |-> p] \in Packets
  BY NoneType DEF Packets
<1>2. NoJoin \in Calls
  BY DEF NoJoin, Calls
<1> QED
  BY <1>1, <1>2, NoneType, BoundsAssumption DEF Init, TypeOK, Stages

-----------------------------------------------------------------------------
(* One lemma per group of actions: the step keeps the types.               *)

(* User actions keep the types.                                            *)
LEMMA UserType ==
  ASSUME TypeOK, NEW m \in Pos, User(m)
  PROVE  TypeOK'
<1>1. CASE PressStart(m)
  <2>1. [msg |-> NoMsg, from |-> m] \in Packets
    BY NoneType DEF Packets
  <2>2. used' \in [Events -> Nat]
    BY <1>1, UseType DEF PressStart, Events
  <2>3. CASE pc[m] = "off"
    BY <1>1, <2>1, <2>2, <2>3, StartWithType DEF PressStart, TypeOK, Stages
  <2>4. CASE pc[m] # "off"
    <3>1. stopping' \in [Pos -> BOOLEAN] /\ join' \in [Pos -> Calls]
      BY <1>1, <2>4, RequestStopType DEF PressStart
    <3> QED
      BY <1>1, <2>2, <2>4, <3>1 DEF PressStart, TypeOK, box
  <2> QED
    BY <2>3, <2>4
<1>2. CASE PressStop(m)
  <2>1. used' \in [Events -> Nat]
    BY <1>2, UseType DEF PressStop, Events
  <2>2. CASE pc[m] = "off"
    <3>1. inbox' \in [Pos -> Seq(Packets)]
      BY <1>2, <2>2, NoneType, BroadcastType DEF PressStop
    <3>2. aes' \in [Pos -> Seq(KeyRows)]
      BY <1>2, <2>2, DisableType DEF PressStop
    <3> QED
      BY <1>2, <2>1, <2>2, <3>1, <3>2 DEF PressStop, TypeOK, box, secrets
  <2>3. CASE pc[m] # "off"
    <3>1. stopping' \in [Pos -> BOOLEAN] /\ join' \in [Pos -> Calls]
      BY <1>2, <2>3, RequestStopType DEF PressStop
    <3> QED
      BY <1>2, <2>1, <2>3, <3>1 DEF PressStop, TypeOK, box, secrets
  <2> QED
    BY <2>2, <2>3
<1> QED
  BY <1>1, <1>2 DEF User

(* Ends of the worker keep the types.                                      *)
LEMMA LifecycleType ==
  ASSUME TypeOK, NEW m \in Pos, Lifecycle(m)
  PROVE  TypeOK'
<1>1. CASE TimerStop(m)
  <2>1. timers' \in [Pos -> Nat]
    BY <1>1 DEF TimerStop, TypeOK
  <2>2. stopping' \in [Pos -> BOOLEAN] /\ join' \in [Pos -> Calls]
    BY <1>1, RequestStopType DEF TimerStop, TypeOK
  <2> QED
    BY <1>1, <2>1, <2>2 DEF TimerStop, TypeOK, net, box, secrets
<1>2. CASE Joined(m)
  <2>1. inbox' \in [Pos -> Seq(Packets)]
    BY <1>2, NoneType, BroadcastType DEF Joined, TypeOK
  <2>2. aes' \in [Pos -> Seq(KeyRows)]
    BY <1>2, DisableType DEF Joined, TypeOK
  <2>3. join' \in [Pos -> Calls]
    BY <1>2 DEF Joined, TypeOK, NoJoin, Calls
  <2>4. [msg |-> NoMsg, from |-> m] \in Packets
    BY NoneType DEF Packets
  <2>5. CASE join[m].then = "init"
    BY <1>2, <2>1, <2>2, <2>3, <2>4, <2>5, StartWithType DEF Joined, TypeOK, Stages
  <2>6. CASE join[m].then # "init"
    BY <1>2, <2>1, <2>2, <2>3, <2>6 DEF Joined, TypeOK, box
  <2> QED
    BY <2>5, <2>6
<1> QED
  BY <1>1, <1>2 DEF Lifecycle

(* The handler of received messages keeps the types.                       *)
LEMMA DispatchType ==
  ASSUME TypeOK, NEW m \in Pos, Dispatch(m)
  PROVE  TypeOK'
<1>1. Reads(m)
  BY DEF Dispatch, DispatchForming, DispatchEnding, DispatchOther
<1>2. inbox' \in [Pos -> Seq(Packets)] /\ Packet(m) \in Packets
  BY <1>1, ReadsType
<1>3. CASE DispatchForming(m)
  <2>1. CASE started[m]
    BY <1>2, <1>3, <2>1 DEF DispatchForming, AddInfo, TypeOK, flags
  <2>2. CASE ~started[m]
    BY <1>2, <1>3, <2>2, StartWithType DEF DispatchForming, TypeOK, Stages
  <2> QED
    BY <2>1, <2>2
<1>4. CASE DispatchEnding(m)
  <2>1. aes' \in [Pos -> Seq(KeyRows)]
    BY <1>4, DisableType DEF DispatchEnding, TypeOK
  <2>2. stopping' \in [Pos -> BOOLEAN] /\ join' \in [Pos -> Calls]
    BY <1>4, RequestStopType DEF DispatchEnding, TypeOK
  <2> QED
    BY <1>2, <1>4, <2>1, <2>2 DEF DispatchEnding, TypeOK, box, secrets
<1>5. CASE DispatchOther(m)
  BY <1>2, <1>5 DEF DispatchOther, TypeOK, box, flags, secrets
<1> QED
  BY <1>3, <1>4, <1>5 DEF Dispatch

(* Staying in a stage or going on to another keeps the types.              *)
LEMMA MoveType ==
  ASSUME TypeOK, NEW m \in Pos, NEW st \in Stages, StayAt(m) \/ GoTo(m, st)
  PROVE  pc' \in [Pos -> {"off", "wait", "run"}] /\ stage' \in [Pos -> Stages]
  BY DEF StayAt, GoTo, TypeOK

(* The RSA stages keep the types.                                          *)
LEMMA RsaType ==
  ASSUME TypeOK, NEW m \in Pos, Take(m) \/ InitRsa(m) \/ RsaStage(m)
  PROVE  TypeOK'
<1>1. cur[m] \in Messages /\ cur[m].n \in 0 .. MaxKeyN /\ cur[m].last \in Pos
  BY DEF TypeOK, Messages
<1>2. Base({}) \in Value
  BY BaseType
<1>3. CASE Take(m)
  <2>1. mail[m].msg \in Messages
    BY DEF TypeOK, Packets
  <2> QED
    BY <1>3, <2>1 DEF Take, TypeOK, net, flags, secrets
<1>4. CASE InitRsa(m)
  <2>1. Last(m) + 1 \in 0 .. MaxKeyN
    <3>1. Last(m) \in 0 .. MaxKeyN
      BY LastType DEF TypeOK, Last
    <3> QED
      BY <1>4, <3>1, BoundsAssumption DEF InitRsa
  <2>2. Msg("rsaInit", Last(m) + 1, m, Base({})) \in Messages
    BY <1>2, <2>1, MsgType DEF Kinds
  <2>3. inbox' \in [Pos -> Seq(Packets)]
    BY <1>4, <2>2, BroadcastType DEF InitRsa
  <2> QED
    BY <1>4, <2>2, <2>3 DEF InitRsa, GoTo, TypeOK, Stages, box, flags, secrets
<1>5. CASE RsaPublish(m)
  <2>1. Msg("rsaForm", cur[m].n, m, Base({})) \in Messages
    BY <1>1, <1>2, MsgType DEF Kinds
  <2>2. inbox' \in [Pos -> Seq(Packets)]
    BY <1>5, <2>1, BroadcastType DEF RsaPublish
  <2>3. rsa' \in [Pos -> SUBSET Pos]
    BY <1>1, <1>5 DEF RsaPublish, Heard, TypeOK
  <2>4. pc' \in [Pos -> {"off", "wait", "run"}] /\ stage' \in [Pos -> Stages]
    BY <1>5, MoveType DEF RsaPublish, Stages
  <2> QED
    BY <1>5, <2>2, <2>3, <2>4 DEF RsaPublish, TypeOK, box, flags
<1>6. CASE RsaListen(m)
  <2>1. rsa' \in [Pos -> SUBSET Pos]
    BY <1>1, <1>6 DEF RsaListen, Heard, TypeOK
  <2>2. pc' \in [Pos -> {"off", "wait", "run"}] /\ stage' \in [Pos -> Stages]
    BY <1>6, MoveType DEF RsaListen, Stages
  <2> QED
    BY <1>6, <2>1, <2>2 DEF RsaListen, TypeOK, net, box, flags
<1> QED
  BY <1>3, <1>4, <1>5, <1>6 DEF RsaStage

(* Generating an exponent keeps the types.                                 *)
LEMMA NewDhType ==
  ASSUME TypeOK, NEW m \in Pos, NEW mod \in SUBSET Gens, NewDh(m, mod)
  PROVE  /\ gen[m] \in Gens
         /\ NewParams(m, mod) \in Params
         /\ gen' \in [Pos -> 0 .. MaxGen]
         /\ dh' \in [Pos -> Params]
<1>1. gen[m] \in Gens /\ gen[m] + 1 \in 0 .. MaxGen
  BY BoundsAssumption DEF NewDh, Generate, TypeOK, Gens
<1>2. NewParams(m, mod) \in Params
  BY <1>1 DEF NewParams, Params
<1> QED
  BY <1>1, <1>2 DEF NewDh, Generate, TypeOK

(* The stage that distributes the parameters keeps the types.              *)
LEMMA AesInitType ==
  ASSUME TypeOK, NEW m \in Pos, AesInitStage(m)
  PROVE  TypeOK'
<1>1. /\ cur[m] \in Messages /\ cur[m].n \in 0 .. MaxKeyN
      /\ cur[m].key \in Value /\ cur[m].key.mod \in SUBSET Gens
  BY DEF TypeOK, Messages, Value
<1>2. CASE AesInitSend(m)
  <2>1. gen[m] \in Gens
    BY <1>2, BoundsAssumption DEF AesInitSend, NewDh, Generate, TypeOK, Gens
  <2>2. gen' \in [Pos -> 0 .. MaxGen] /\ dh' \in [Pos -> Params]
    BY <1>2, <2>1, NewDhType DEF AesInitSend
  <2>3. Msg("aesInit", cur[m].n, m, Base({gen[m]})) \in Messages
    <3>1. Base({gen[m]}) \in Value
      BY <2>1, BaseType
    <3> QED
      BY <1>1, <3>1, MsgType DEF Kinds
  <2>4. inbox' \in [Pos -> Seq(Packets)]
    BY <1>2, <2>3, BroadcastType DEF AesInitSend
  <2> QED
    BY <1>2, <2>2, <2>3, <2>4
    DEF AesInitSend, GoTo, TypeOK, Stages, box, flags
<1>3. CASE AesInitReceive(m)
  <2>1. gen' \in [Pos -> 0 .. MaxGen] /\ dh' \in [Pos -> Params]
    BY <1>1, <1>3, NewDhType DEF AesInitReceive, TypeOK
  <2> QED
    BY <1>3, <2>1
    DEF AesInitReceive, GoTo, StayAt, TypeOK, Stages, net, box, flags
<1> QED
  BY <1>2, <1>3 DEF AesInitStage

(* The key round keeps the types.                                          *)
LEMMA FormType ==
  ASSUME TypeOK, NEW m \in Pos, FormStage(m)
  PROVE  TypeOK'
<1>1. /\ cur[m] \in Messages /\ cur[m].last \in Pos /\ cur[m].key \in Value
      /\ dh[m] \in Params
  BY DEF TypeOK, Messages
<1>2. Public(m, dh[m]) \in Value /\ Multi(m) \in Value
  BY <1>1, PublicType, RaiseType DEF Multi
<1>3. CASE FormSolo(m)
  <2>1. gen[m] \in Gens /\ gen' \in [Pos -> 0 .. MaxGen]
    BY <1>3, BoundsAssumption DEF FormSolo, Generate, TypeOK, Gens
  <2>2. NewParams(m, {}) \in Params
    BY <2>1 DEF NewParams, Params
  <2>3. aes' \in [Pos -> Seq(KeyRows)]
    BY <1>3, <2>2, PublicType, StoreType DEF FormSolo, SoloKey
  <2> QED
    BY <1>3, <2>1, <2>3 DEF FormSolo, GoTo, TypeOK, Stages, net, box, flags
<1>4. CASE FormBegin(m)
  <2>1. N - 1 \in Pos
    BY NAssumption DEF Pos
  <2>2. inbox' \in [Pos -> Seq(Packets)]
    BY <1>2, <1>4, <2>1, SendType DEF FormBegin
  <2> QED
    BY <1>4, <2>2 DEF FormBegin, StayAt, TypeOK, box, flags, secrets
<1>5. CASE FormFinish(m)
  <2>1. aes' \in [Pos -> Seq(KeyRows)]
    BY <1>2, <1>5, StoreType DEF FormFinish
  <2>2. CASE KeyRoundEnds(m)
    BY <1>5, <2>1, <2>2
    DEF FormFinish, GoTo, TypeOK, Stages, box, flags, secrets
  <2>3. CASE ~KeyRoundEnds(m)
    <3>1. m - 1 \in Pos
      BY <2>3, NAssumption DEF KeyRoundEnds, Pos
    <3>2. inbox' \in [Pos -> Seq(Packets)]
      BY <1>2, <1>5, <2>3, <3>1, SendType DEF FormFinish
    <3> QED
      BY <1>5, <2>1, <2>3, <3>2
      DEF FormFinish, StayAt, TypeOK, box, flags, secrets
  <2> QED
    BY <2>2, <2>3
<1>6. CASE FormForward(m)
  <2>1. inbox' \in [Pos -> Seq(Packets)]
    BY <1>1, <1>2, <1>6, SendType DEF FormForward
  <2> QED
    BY <1>6, <2>1 DEF FormForward, StayAt, TypeOK, box, flags, secrets
<1>7. CASE FormIgnore(m)
  BY <1>7 DEF FormIgnore, StayAt, TypeOK, net, box, flags, secrets
<1> QED
  BY <1>3, <1>4, <1>5, <1>6, <1>7 DEF FormStage

(* The announcement of the end keeps the types.                            *)
LEMMA EndType ==
  ASSUME TypeOK, NEW m \in Pos, EndKeyForming(m)
  PROVE  TypeOK'
<1>1. Msg("endForming", cur[m].n, m, Base({})) \in Messages
  BY BaseType, MsgType DEF TypeOK, Messages, Kinds
<1>2. inbox' \in [Pos -> Seq(Packets)]
  BY <1>1, BroadcastType DEF EndKeyForming
<1>3. timers' \in [Pos -> Nat]
  BY DEF EndKeyForming, TypeOK
<1>4. pc' \in [Pos -> {"off", "wait", "run"}] /\ UNCHANGED stage
  BY DEF EndKeyForming, StayAt, TypeOK
<1> QED
  BY <1>2, <1>3, <1>4 DEF EndKeyForming, TypeOK, box, flags, secrets

(* The server and restarts keep the types.                                 *)
LEMMA EnvironmentType ==
  ASSUME TypeOK, NEW m \in Pos, Environment(m)
  PROVE  TypeOK'
<1>1. inbox[m] \in Seq(Packets)
  BY DEF TypeOK
<1>2. used' \in [Events -> Nat]
  BY UseType DEF Environment, Resend, Lose, Restart, Events
<1>3. inbox' \in [Pos -> Seq(Packets)]
  <2>1. CASE Resend(m)
    <3>1. PICK i \in DOMAIN inbox[m] :
            inbox' = [inbox EXCEPT ![m] = Append(@, inbox[m][i])]
      BY <2>1 DEF Resend
    <3>2. Append(inbox[m], inbox[m][i]) \in Seq(Packets)
      BY <1>1
    <3> QED
      BY <3>1, <3>2 DEF TypeOK
  <2>2. CASE Lose(m)
    BY <1>1, <2>2 DEF Lose, TypeOK
  <2>3. CASE Restart(m)
    BY <2>3 DEF Restart, TypeOK
  <2> QED
    BY <2>1, <2>2, <2>3 DEF Environment
<1>4. CASE Resend(m) \/ Lose(m)
  BY <1>2, <1>3, <1>4 DEF Resend, Lose, TypeOK, box, flags, secrets
<1>5. CASE Restart(m)
  <2>1. [msg |-> NoMsg, from |-> m] \in Packets
    BY NoneType DEF Packets
  <2>2. NoJoin \in Calls
    BY DEF NoJoin, Calls
  <2> QED
    BY <1>2, <1>3, <1>5, <2>1, <2>2, NoneType DEF Restart, TypeOK, Stages
<1> QED
  BY <1>4, <1>5 DEF Environment

(* Type correctness: every variable keeps its type, for every number of
   members and every bound.                                                *)
THEOREM TypeCorrect == Spec => []TypeOK
<1>1. TypeOK /\ [Next]_vars => TypeOK'
  <2> SUFFICES ASSUME TypeOK, [Next]_vars
               PROVE  TypeOK'
    OBVIOUS
  <2>1. ASSUME NEW m \in Pos, User(m) \/ Lifecycle(m) \/ Dispatch(m)
        PROVE  TypeOK'
    BY <2>1, UserType, LifecycleType, DispatchType
  <2>2. ASSUME NEW m \in Pos, Worker(m)
        PROVE  TypeOK'
    BY <2>2, RsaType, AesInitType, FormType, EndType DEF Worker
  <2>3. ASSUME NEW m \in Pos, Environment(m)
        PROVE  TypeOK'
    BY <2>3, EnvironmentType
  <2>4. CASE UNCHANGED vars
    BY <2>4 DEF vars, TypeOK
  <2> QED
    BY <2>1, <2>2, <2>3, <2>4 DEF Next
<1> QED
  BY <1>1, InitType, PTL DEF Spec

-----------------------------------------------------------------------------
(* Nobody waits for a thread that is not there.                            *)

(* A start() leaves nobody waiting for a missing thread.                   *)
LEMMA JoinStart ==
  ASSUME TypeOK, JoinHasThread, NEW m \in Pos, NEW st, NEW packet,
         StartWith(m, st, packet), join' = [join EXCEPT ![m] = NoJoin]
  PROVE  JoinHasThread'
<1>1. started'[m] = TRUE /\ pc'[m] = "wait" /\ join'[m] = NoJoin
  BY DEF StartWith, TypeOK
<1>2. ASSUME NEW p \in Pos, p # m
      PROVE  /\ started'[p] = started[p] /\ pc'[p] = pc[p]
             /\ join'[p] = join[p] /\ stopping'[p] = stopping[p]
  BY <1>2 DEF StartWith, TypeOK
<1> QED
  BY <1>1, <1>2 DEF JoinHasThread

(* Every step keeps JoinHasThread.                                         *)
LEMMA JoinStep ==
  ASSUME TypeOK, JoinHasThread, [Next]_vars
  PROVE  JoinHasThread'
<1>1. ASSUME NEW m \in Pos, PressStart(m)
      PROVE  JoinHasThread'
  <2>1. CASE pc[m] = "off"
    <3>1. StartWith(m, "initRsa", [msg |-> NoMsg, from |-> m])
      BY <1>1, <2>1 DEF PressStart
    <3>2. join' = [join EXCEPT ![m] = NoJoin]
      BY <1>1, <2>1 DEF PressStart, TypeOK
    <3> QED
      BY <3>1, <3>2, JoinStart
  <2>2. CASE pc[m] # "off"
    BY <1>1, <2>2 DEF PressStart, RequestStop, JoinHasThread, TypeOK
  <2> QED
    BY <2>1, <2>2
<1>2. ASSUME NEW m \in Pos, PressStop(m)
      PROVE  JoinHasThread'
  BY <1>2 DEF PressStop, RequestStop, JoinHasThread, TypeOK
<1>3. ASSUME NEW m \in Pos, TimerStop(m)
      PROVE  JoinHasThread'
  BY <1>3 DEF TimerStop, RequestStop, JoinHasThread, TypeOK
<1>4. ASSUME NEW m \in Pos, Joined(m)
      PROVE  JoinHasThread'
  <2>1. CASE join[m].then = "init"
    BY <1>4, <2>1, JoinStart DEF Joined
  <2>2. CASE join[m].then # "init"
    BY <1>4, <2>2 DEF Joined, JoinHasThread, TypeOK
  <2> QED
    BY <2>1, <2>2
<1>5. ASSUME NEW m \in Pos, DispatchForming(m)
      PROVE  JoinHasThread'
  <2>1. CASE started[m]
    BY <1>5, <2>1 DEF DispatchForming, AddInfo, JoinHasThread, TypeOK, flags
  <2>2. CASE ~started[m]
    <3>1. StartWith(m, "rsa", Packet(m))
      BY <1>5, <2>2 DEF DispatchForming
    <3>2. join' = [join EXCEPT ![m] = NoJoin]
      BY <1>5, <2>2 DEF DispatchForming, TypeOK
    <3> QED
      BY <3>1, <3>2, JoinStart
  <2> QED
    BY <2>1, <2>2
<1>6. ASSUME NEW m \in Pos, DispatchEnding(m) \/ DispatchOther(m)
      PROVE  JoinHasThread'
  <2>1. CASE DispatchOther(m)
    BY <2>1 DEF DispatchOther, JoinHasThread, flags
  <2>2. CASE DispatchEnding(m) /\ pc[m] = "off"
    BY <2>2 DEF DispatchEnding, JoinHasThread
  <2>3. CASE DispatchEnding(m) /\ pc[m] # "off"
    BY <2>3 DEF DispatchEnding, RequestStop, JoinHasThread, TypeOK
  <2> QED
    BY <1>6, <2>1, <2>2, <2>3
<1>7. ASSUME NEW m \in Pos, Worker(m)
      PROVE  JoinHasThread'
  <2>1. UNCHANGED <<join, stopping, started>>
    BY <1>7
    DEF Worker, Take, InitRsa, RsaStage, RsaPublish, RsaListen, AesInitStage,
        AesInitSend, AesInitReceive, FormStage, FormSolo, FormBegin, FormFinish,
        FormForward, FormIgnore, EndKeyForming, flags
  <2>2. pc[m] # "off" /\ (UNCHANGED pc \/ StayAt(m) \/ pc' = [pc EXCEPT ![m] = "run"])
    BY <1>7
    DEF Worker, Take, InitRsa, RsaStage, RsaPublish, RsaListen, AesInitStage,
        AesInitSend, AesInitReceive, FormStage, FormSolo, FormBegin, FormFinish,
        FormForward, FormIgnore, EndKeyForming, At, StayAt, GoTo
  <2> QED
    BY <2>1, <2>2 DEF StayAt, JoinHasThread, TypeOK
<1>8. ASSUME NEW m \in Pos, Environment(m)
      PROVE  JoinHasThread'
  <2>1. CASE Resend(m) \/ Lose(m)
    BY <2>1 DEF Resend, Lose, JoinHasThread, flags
  <2>2. CASE Restart(m)
    BY <2>2 DEF Restart, JoinHasThread, TypeOK
  <2> QED
    BY <1>8, <2>1, <2>2 DEF Environment
<1>9. CASE UNCHANGED vars
  BY <1>9 DEF vars, JoinHasThread
<1> QED
  BY <1>1, <1>2, <1>3, <1>4, <1>5, <1>6, <1>7, <1>8, <1>9
  DEF Next, User, Lifecycle, Dispatch

(* A caller blocked in stop() waits for a thread that exists and was told to
   stop, and is_started tells whether there is one: whatever is clicked,
   received, lost or restarted.                                            *)
THEOREM StopFindsThread == Spec => []JoinHasThread
<1>1. Init => JoinHasThread
  BY DEF Init, JoinHasThread
<1> QED
  BY <1>1, JoinStep, TypeCorrect, PTL DEF Spec

-----------------------------------------------------------------------------
(* Keys are formed with a private exponent.                                *)

(* Every step keeps NoEmptyParams.                                         *)
LEMMA ParamsStep ==
  ASSUME TypeOK, NoEmptyParams, [Next]_vars
  PROVE  NoEmptyParams'
<1>1. ASSUME NEW m \in Pos, NEW st \in {"initRsa", "rsa"}, NEW packet,
             StartWith(m, st, packet)
      PROVE  NoEmptyParams'
  BY <1>1 DEF StartWith, NoEmptyParams, TypeOK
<1>2. ASSUME UNCHANGED <<stage, dh>>
      PROVE  NoEmptyParams'
  BY <1>2 DEF NoEmptyParams
<1>3. ASSUME NEW m \in Pos, User(m) \/ Lifecycle(m) \/ Dispatch(m)
      PROVE  NoEmptyParams'
  BY <1>1, <1>2, <1>3
  DEF User, PressStart, PressStop, Lifecycle, TimerStop, Joined, Dispatch,
      DispatchForming, DispatchEnding, DispatchOther, secrets
<1>4. ASSUME NEW m \in Pos, Take(m) \/ InitRsa(m) \/ RsaStage(m)
      PROVE  NoEmptyParams'
  <2>1. UNCHANGED dh
    BY <1>4 DEF Take, InitRsa, RsaStage, RsaPublish, RsaListen, secrets
  <2>2. \/ UNCHANGED stage
        \/ stage' = [stage EXCEPT ![m] = "rsa"]
        \/ stage' = [stage EXCEPT ![m] = "aesInit"]
    BY <1>4
    DEF Take, InitRsa, RsaStage, RsaPublish, RsaListen, StayAt, GoTo
  <2> QED
    BY <2>1, <2>2 DEF NoEmptyParams, TypeOK
<1>5. ASSUME NEW m \in Pos, AesInitStage(m)
      PROVE  NoEmptyParams'
  <2>1. CASE UNCHANGED <<stage, dh>>
    BY <1>2, <2>1
  <2>2. CASE \E mod : NewDh(m, mod) /\ GoTo(m, "aesForm")
    <3>1. PICK mod : NewDh(m, mod) /\ GoTo(m, "aesForm")
      BY <2>2
    <3>2. gen[m] \in Gens
      BY <3>1, BoundsAssumption DEF NewDh, Generate, TypeOK, Gens
    <3>3. dh'[m].nth \in Gens /\ \A p \in Pos \ {m} : dh'[p] = dh[p]
      BY <3>1, <3>2 DEF NewDh, NewParams, TypeOK
    <3> QED
      BY <3>1, <3>3 DEF GoTo, NoEmptyParams, TypeOK
  <2> QED
    BY <1>5, <2>1, <2>2
    DEF AesInitStage, AesInitSend, AesInitReceive, StayAt
<1>6. ASSUME NEW m \in Pos, FormStage(m) \/ EndKeyForming(m)
      PROVE  NoEmptyParams'
  <2>1. UNCHANGED dh
    BY <1>6
    DEF FormStage, FormSolo, FormBegin, FormFinish, FormForward, FormIgnore,
        EndKeyForming, secrets
  <2>2. UNCHANGED stage \/ stage' = [stage EXCEPT ![m] = "end"]
    BY <1>6
    DEF FormStage, FormSolo, FormBegin, FormFinish, FormForward, FormIgnore,
        EndKeyForming, StayAt, GoTo
  <2> QED
    BY <2>1, <2>2 DEF NoEmptyParams, TypeOK
<1>7. ASSUME NEW m \in Pos, Environment(m)
      PROVE  NoEmptyParams'
  <2>1. CASE Resend(m) \/ Lose(m)
    BY <1>2, <2>1 DEF Resend, Lose, secrets
  <2>2. CASE Restart(m)
    BY <2>2 DEF Restart, NoEmptyParams, TypeOK
  <2> QED
    BY <1>7, <2>1, <2>2 DEF Environment
<1>8. CASE UNCHANGED vars
  BY <1>2, <1>8 DEF vars
<1> QED
  BY <1>3, <1>4, <1>5, <1>6, <1>7, <1>8 DEF Next, Worker

(* A worker in the stage AES_FORM_SESSION_KEY has a private exponent.      *)
THEOREM ParamsPresent == Spec => []NoEmptyParams
<1>1. Init => NoEmptyParams
  BY DEF Init, NoEmptyParams
<1> QED
  BY <1>1, ParamsStep, TypeCorrect, PTL DEF Spec

-----------------------------------------------------------------------------
(* A stored key is never lost or taken back into use, and is the member's own. *)

(* What a step does to the table of one member.                            *)
Stores(m, key) ==
  aes' = [aes EXCEPT ![m] = AddAesKey(@, cur[m].n, key)]
Disables(m) == aes' = [aes EXCEPT ![m] = DisableOtherKeys(@)]

(* A step leaves the table aes alone, disables its rows, or adds one key,   *)
(* which was raised to the private exponent of the member that stores it.   *)
LEMMA StepOnTable ==
  ASSUME TypeOK, NoEmptyParams, [Next]_vars
  PROVE  \/ UNCHANGED aes
         \/ \E m \in Pos : Disables(m)
         \/ \E m \in Pos, v \in Value, params \in Params :
              params.nth \in Gens /\ Stores(m, Raise(v, m, params))
<1>1. ASSUME NEW m \in Pos, User(m) \/ Lifecycle(m) \/ Dispatch(m)
      PROVE  UNCHANGED aes \/ Disables(m)
  BY <1>1
  DEF User, PressStart, PressStop, Lifecycle, TimerStop, Joined, Dispatch,
      DispatchForming, DispatchEnding, DispatchOther, Disables
<1>2. ASSUME NEW m \in Pos, FormSolo(m)
      PROVE  \E v \in Value, params \in Params :
               params.nth \in Gens /\ Stores(m, Raise(v, m, params))
  <2>1. gen[m] \in Gens
    BY <1>2, BoundsAssumption DEF FormSolo, Generate, TypeOK, Gens
  <2>2. NewParams(m, {}) \in Params /\ NewParams(m, {}).nth \in Gens
    BY <2>1 DEF NewParams, Params
  <2>3. Base(NewParams(m, {}).mod) \in Value
    BY <2>2, BaseType DEF Params
  <2>4. Stores(m, Raise(Base(NewParams(m, {}).mod), m, NewParams(m, {})))
    BY <1>2 DEF FormSolo, SoloKey, Store, Public, Stores
  <2> QED
    BY <2>2, <2>3, <2>4
<1>3. ASSUME NEW m \in Pos, FormFinish(m)
      PROVE  \E v \in Value, params \in Params :
               params.nth \in Gens /\ Stores(m, Raise(v, m, params))
  <2>1. cur[m].key \in Value /\ dh[m] \in Params
    BY DEF TypeOK, Messages
  <2>2. dh[m].nth \in Gens
    BY <1>3 DEF FormFinish, At, NoEmptyParams
  <2>3. Stores(m, Raise(cur[m].key, m, dh[m]))
    BY <1>3 DEF FormFinish, Multi, Store, Stores
  <2> QED
    BY <2>1, <2>2, <2>3
<1>4. ASSUME NEW m \in Pos,
             \/ Take(m) \/ InitRsa(m) \/ RsaStage(m) \/ AesInitStage(m)
             \/ FormBegin(m) \/ FormForward(m) \/ FormIgnore(m)
             \/ EndKeyForming(m) \/ Environment(m)
      PROVE  UNCHANGED aes
  BY <1>4
  DEF Take, InitRsa, RsaStage, RsaPublish, RsaListen, AesInitStage, AesInitSend,
      AesInitReceive, FormBegin, FormForward, FormIgnore, EndKeyForming,
      Environment, Resend, Lose, Restart
<1>5. CASE UNCHANGED vars
  BY <1>5 DEF vars
<1> QED
  BY <1>1, <1>2, <1>3, <1>4, <1>5 DEF Next, Worker, FormStage

(* Disabling keeps every row but its status; adding a key also appends it. *)
LEMMA TableKept ==
  ASSUME NEW t \in Seq(KeyRows), NEW n \in 0 .. MaxKeyN, NEW key \in Value
  PROVE  /\ DOMAIN DisableOtherKeys(t) = DOMAIN t
         /\ DOMAIN AddAesKey(t, n, key) = DOMAIN t \cup {Len(t) + 1}
         /\ \A i \in DOMAIN t :
              /\ DisableOtherKeys(t)[i] = Row(t[i].n, t[i].key, Outdated)
              /\ AddAesKey(t, n, key)[i] = Row(t[i].n, t[i].key, Outdated)
         /\ AddAesKey(t, n, key)[Len(t) + 1] = Row(n, key, InUse)
<1>1. /\ DOMAIN DisableOtherKeys(t) = DOMAIN t
      /\ \A i \in DOMAIN t :
           DisableOtherKeys(t)[i] = Row(t[i].n, t[i].key, Outdated)
  BY DEF DisableOtherKeys
<1>2. DisableOtherKeys(t) \in Seq(KeyRows) /\ Row(n, key, InUse) \in KeyRows
  BY TableType DEF Row, KeyRows
<1>3. Len(DisableOtherKeys(t)) = Len(t)
  BY <1>1, <1>2
<1> QED
  BY <1>1, <1>2, <1>3 DEF AddAesKey

(* Storing a key retires the rows there were and adds its own row in use.   *)
LEMMA AddedRow ==
  ASSUME NEW t \in Seq(KeyRows), NEW n \in 0 .. MaxKeyN, NEW key \in Value, NEW i
  PROVE  /\ i \in DOMAIN t =>
              /\ i \in DOMAIN AddAesKey(t, n, key)
              /\ AddAesKey(t, n, key)[i] = Row(t[i].n, t[i].key, Outdated)
         /\ i \in DOMAIN AddAesKey(t, n, key) /\ i \notin DOMAIN t =>
              AddAesKey(t, n, key)[i] = Row(n, key, InUse)
<1> DEFINE new == AddAesKey(t, n, key)
<1>1. /\ DOMAIN new = DOMAIN t \cup {Len(t) + 1}
      /\ \A j \in DOMAIN t : new[j] = Row(t[j].n, t[j].key, Outdated)
      /\ new[Len(t) + 1] = Row(n, key, InUse)
  BY TableKept
<1> HIDE DEF new
<1>2. /\ i \in DOMAIN t => i \in DOMAIN new /\ new[i] = Row(t[i].n, t[i].key, Outdated)
      /\ i \in DOMAIN new /\ i \notin DOMAIN t => new[i] = Row(n, key, InUse)
  BY <1>1
<1> QED
  BY <1>2 DEF new

(* The rows of a step's table, row by row.                                 *)
LEMMA StepOnRows ==
  ASSUME TypeOK, NoEmptyParams, [Next]_vars, NEW m \in Pos, NEW i \in DOMAIN aes[m]
  PROVE  /\ i \in DOMAIN aes'[m]
         /\ aes'[m][i] = aes[m][i] \/ aes'[m][i] = Row(aes[m][i].n, aes[m][i].key, Outdated)
<1>1. aes[m] \in Seq(KeyRows)
  BY DEF TypeOK
<1>2. CASE UNCHANGED aes
  BY <1>2
<1>3. ASSUME NEW p \in Pos, Disables(p)
      PROVE  /\ i \in DOMAIN aes'[m]
             /\ aes'[m][i] = aes[m][i] \/ aes'[m][i] = Row(aes[m][i].n, aes[m][i].key, Outdated)
  <2>1. CASE p = m
    <3>1. aes'[m] = DisableOtherKeys(aes[m])
      BY <1>3, <2>1 DEF Disables, TypeOK
    <3> QED
      BY <3>1 DEF DisableOtherKeys
  <2>2. CASE p # m
    BY <1>3, <2>2 DEF Disables, TypeOK
  <2> QED
    BY <2>1, <2>2
<1>4. ASSUME NEW p \in Pos, NEW key \in Value, Stores(p, key)
      PROVE  /\ i \in DOMAIN aes'[m]
             /\ aes'[m][i] = aes[m][i] \/ aes'[m][i] = Row(aes[m][i].n, aes[m][i].key, Outdated)
  <2>1. CASE p = m
    <3>1. cur[m].n \in 0 .. MaxKeyN
      BY DEF TypeOK, Messages
    <3>2. aes'[m] = AddAesKey(aes[m], cur[m].n, key)
      BY <1>4, <2>1 DEF Stores, TypeOK
    <3>3. /\ i \in DOMAIN AddAesKey(aes[m], cur[m].n, key)
          /\ AddAesKey(aes[m], cur[m].n, key)[i] = Row(aes[m][i].n, aes[m][i].key, Outdated)
      BY <1>1, <3>1, AddedRow
    <3>4. i \in DOMAIN aes'[m] /\ aes'[m][i] = Row(aes[m][i].n, aes[m][i].key, Outdated)
      BY <3>2, <3>3
    <3> QED
      BY <3>4
  <2>2. CASE p # m
    BY <1>4, <2>2 DEF Stores, TypeOK
  <2> QED
    BY <2>1, <2>2
<1> QED
  BY <1>2, <1>3, <1>4, StepOnTable, RaiseType

(* No step loses a stored key, changes it, or takes a retired one into use. *)
THEOREM StoredKeysKept == Spec => KeysKept
<1> DEFINE Kept == \A m \in Pos : \A i \in DOMAIN aes[m] :
             /\ i \in DOMAIN aes'[m]
             /\ aes'[m][i].n = aes[m][i].n /\ aes'[m][i].key = aes[m][i].key
             /\ aes[m][i].status = Outdated => aes'[m][i].status = Outdated
<1>1. TypeOK /\ NoEmptyParams /\ [Next]_vars => [Kept]_vars
  <2> SUFFICES ASSUME TypeOK, NoEmptyParams, [Next]_vars
               PROVE  Kept
    OBVIOUS
  <2>1. ASSUME NEW m \in Pos, NEW i \in DOMAIN aes[m]
        PROVE  /\ i \in DOMAIN aes'[m]
               /\ aes'[m][i].n = aes[m][i].n /\ aes'[m][i].key = aes[m][i].key
               /\ aes[m][i].status = Outdated => aes'[m][i].status = Outdated
    <3>1. i \in DOMAIN aes'[m]
      BY StepOnRows
    <3>2. CASE aes'[m][i] = aes[m][i]
      BY <3>1, <3>2
    <3>3. CASE aes'[m][i] = Row(aes[m][i].n, aes[m][i].key, Outdated)
      BY <3>1, <3>3 DEF Row
    <3> QED
      BY <3>2, <3>3, StepOnRows
  <2> QED
    BY <2>1
<1> QED
  BY <1>1, TypeCorrect, ParamsPresent, PTL DEF Spec, KeysKept

(* A value raised by m holds an exponent of m.                             *)
LEMMA RaiseUses ==
  ASSUME NEW v \in Value, NEW m \in Pos, NEW params \in Params, params.nth \in Gens
  PROVE  Uses(Raise(v, m, params), m) # {}
<1>1. v.exp \in [Pos -> [Gens -> Nat]] /\ v.exp[m][params.nth] \in Nat
  BY DEF Value
<1>2. Raise(v, m, params).exp[m][params.nth] = v.exp[m][params.nth] + 1
  BY <1>1 DEF Raise
<1>3. Raise(v, m, params).exp[m][params.nth] # 0
  BY <1>1, <1>2
<1> QED
  BY <1>3 DEF Uses

(* No member ever stores a key it did not contribute a private exponent to. *)
THEOREM EveryKeyIsOwn == Spec => []OwnContribution
<1>1. Init => OwnContribution
  BY DEF Init, OwnContribution, Rows
<1>2. TypeOK /\ NoEmptyParams /\ OwnContribution /\ [Next]_vars => OwnContribution'
  <2> SUFFICES ASSUME TypeOK, NoEmptyParams, OwnContribution, [Next]_vars,
                      NEW m \in Pos, NEW i \in DOMAIN aes'[m]
               PROVE  Uses(aes'[m][i].key, m) # {}
    BY DEF OwnContribution, Rows
  <2>1. CASE i \in DOMAIN aes[m]
    <3>1. aes'[m][i].key = aes[m][i].key
      <4>1. CASE aes'[m][i] = aes[m][i]
        BY <4>1
      <4>2. CASE aes'[m][i] = Row(aes[m][i].n, aes[m][i].key, Outdated)
        BY <4>2 DEF Row
      <4> QED
        BY <2>1, <4>1, <4>2, StepOnRows
    <3> QED
      BY <2>1, <3>1 DEF OwnContribution, Rows
  <2>2. CASE i \notin DOMAIN aes[m]
    <3>1. aes[m] \in Seq(KeyRows) /\ cur[m].n \in 0 .. MaxKeyN
      BY DEF TypeOK, Messages
    <3>2. ~UNCHANGED aes
      BY <2>2
    <3>3. ASSUME NEW p \in Pos
          PROVE  ~Disables(p)
      BY <2>2, <3>1, TableKept DEF Disables, DisableOtherKeys, TypeOK
    <3>4. PICK p \in Pos, v \in Value, params \in Params :
            params.nth \in Gens /\ Stores(p, Raise(v, p, params))
      BY <3>2, <3>3, StepOnTable
    <3>5. p = m
      BY <2>2, <3>4 DEF Stores, TypeOK
    <3>6. aes'[m] = AddAesKey(aes[m], cur[m].n, Raise(v, m, params))
      BY <3>4, <3>5 DEF Stores, TypeOK
    <3>7. Raise(v, m, params) \in Value
      BY <3>5, RaiseType
    <3>8. aes'[m][i] = Row(cur[m].n, Raise(v, m, params), InUse)
      BY <2>2, <3>1, <3>6, <3>7, AddedRow
    <3>9. aes'[m][i].key = Raise(v, m, params)
      BY <3>8 DEF Row
    <3> QED
      BY <3>4, <3>9, RaiseUses
  <2> QED
    BY <2>1, <2>2
<1> QED
  BY <1>1, <1>2, TypeCorrect, ParamsPresent, PTL DEF Spec

=============================================================================
