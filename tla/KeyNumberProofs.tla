--------------------------- MODULE KeyNumberProofs ---------------------------
(***************************************************************************)
(* Theorems about the numbers under which KeyExchange stores keys, for any *)
(* number of members and any bounds, if messages are slower than the       *)
(* worker that handles them (Prompt).                                      *)
(***************************************************************************)
EXTENDS KeyExchangeProofs

(* What a table has to be: a number stands for one key, and the key in use
   is the newest.                                                          *)
Newest(t) ==
  /\ \A i, j \in DOMAIN t : t[i].n = t[j].n => i = j
  /\ \A i \in DOMAIN t : t[i].status = InUse => t[i].n = LastKeyN(t)

(* A message the worker is going to take, or is working on, has a number that
   is newer than all that is stored, unless the worker will choose one in
   init_rsa_encryption or has already stored the key.                      *)
NumberFresh(m) ==
  /\ pc[m] = "run" => ~fresh[m]
  /\ fresh[m] /\ stage[m] # "initRsa" => mail[m].msg.n > Last(m)
  /\ pc[m] = "run" /\ stage[m] \notin {"initRsa", "end"} => cur[m].n > Last(m)

NumberInv == \A m \in Pos : NumberFresh(m) /\ Newest(aes[m])

-----------------------------------------------------------------------------
(* Numbers in a table.                                                     *)

(* SELECT MAX(key_n) is at least every number in the table, and 0 only if
   there is none.                                                          *)
LEMMA LastIsLargest ==
  ASSUME NEW t \in Seq(KeyRows)
  PROVE  /\ \A i \in DOMAIN t : t[i].n <= LastKeyN(t)
         /\ t # <<>> => LastKeyN(t) \in KeyNumbers(t)
<1>1. CASE t = <<>>
  BY <1>1
<1>2. CASE t # <<>>
  <2>1. KeyNumbers(t) \in SUBSET (0 .. MaxKeyN)
    BY RowType DEF KeyNumbers
  <2>2. KeyNumbers(t) # {}
    <3>1. 1 \in DOMAIN t
      BY <1>2
    <3> QED
      BY <3>1 DEF KeyNumbers
  <2>3. \E x \in KeyNumbers(t) : \A y \in KeyNumbers(t) : x >= y
    BY <2>1, <2>2, HasLargest, BoundsAssumption
  <2>4. /\ LastKeyN(t) \in KeyNumbers(t)
        /\ \A y \in KeyNumbers(t) : LastKeyN(t) >= y
    BY <1>2, <2>3 DEF LastKeyN, Max
  <2>5. \A i \in DOMAIN t : t[i].n \in KeyNumbers(t)
    BY DEF KeyNumbers
  <2>6. \A i \in DOMAIN t : t[i].n \in Int
    BY <2>1, <2>5
  <2> QED
    BY <2>1, <2>4, <2>5, <2>6
<1> QED
  BY <1>1, <1>2

(* The largest number is known by what it is.                              *)
LEMMA LastIs ==
  ASSUME NEW t \in Seq(KeyRows), NEW i \in DOMAIN t, \A j \in DOMAIN t : t[j].n <= t[i].n
  PROVE  LastKeyN(t) = t[i].n
<1>1. t # <<>>
  OBVIOUS
<1>2. PICK j \in DOMAIN t : t[j].n = LastKeyN(t)
  BY <1>1, LastIsLargest DEF KeyNumbers
<1>3. t[i].n <= LastKeyN(t) /\ t[j].n <= t[i].n
  BY LastIsLargest
<1>4. t[i].n \in Int /\ t[j].n \in Int
  BY RowType
<1> QED
  BY <1>2, <1>3, <1>4

(* Disabling the rows changes no number.                                   *)
LEMMA DisabledNumbers ==
  ASSUME NEW t \in Seq(KeyRows)
  PROVE  /\ LastKeyN(DisableOtherKeys(t)) = LastKeyN(t)
         /\ Newest(t) => Newest(DisableOtherKeys(t))
<1> DEFINE new == DisableOtherKeys(t)
<1>1. /\ DOMAIN new = DOMAIN t
      /\ \A i \in DOMAIN t : new[i] = Row(t[i].n, t[i].key, Outdated)
  BY DEF DisableOtherKeys
<1>2. new \in Seq(KeyRows)
  BY TableType
<1>3. \A i \in DOMAIN t : new[i].n = t[i].n /\ new[i].status # InUse
  BY <1>1 DEF Row, Outdated, InUse
<1> HIDE DEF new
<1>4. KeyNumbers(new) = KeyNumbers(t)
  BY <1>1, <1>3 DEF KeyNumbers
<1>5. new = <<>> <=> t = <<>>
  BY <1>1, <1>2
<1>6. LastKeyN(new) = LastKeyN(t)
  BY <1>4, <1>5 DEF LastKeyN
<1>7. Newest(t) => Newest(new)
  BY <1>1, <1>3 DEF Newest
<1> QED
  BY <1>6, <1>7 DEF new

(* Storing a key under a number newer than all keeps them apart, and the new
   one is the newest.                                                      *)
LEMMA AddedNumber ==
  ASSUME NEW t \in Seq(KeyRows), NEW n \in 0 .. MaxKeyN, NEW key \in Value,
         Newest(t), n > LastKeyN(t)
  PROVE  Newest(AddAesKey(t, n, key))
<1> DEFINE new == AddAesKey(t, n, key)
           last == Len(t) + 1
<1>1. new \in Seq(KeyRows)
  BY TableType
<1>2. /\ DOMAIN new = DOMAIN t \cup {last}
      /\ \A i \in DOMAIN t : new[i] = Row(t[i].n, t[i].key, Outdated)
      /\ new[last] = Row(n, key, InUse)
  BY TableKept
<1>3. /\ \A i \in DOMAIN t : new[i].n = t[i].n /\ new[i].status # InUse
      /\ new[last].n = n
  BY <1>2 DEF Row, Outdated, InUse
<1> HIDE DEF new, last
<1>4. \A i \in DOMAIN t : t[i].n < n
  <2>1. TAKE i \in DOMAIN t
  <2>2. t[i].n <= LastKeyN(t) /\ t[i].n \in Int /\ LastKeyN(t) \in Int
    BY LastIsLargest, LastType, RowType
  <2> QED
    BY <2>2
<1>5. \A i \in DOMAIN t : t[i].n \in Int
  BY RowType
<1>6. LastKeyN(new) = n
  <2>1. last \in DOMAIN new /\ \A j \in DOMAIN new : new[j].n <= new[last].n
    BY <1>2, <1>3, <1>4, <1>5
  <2> QED
    BY <1>1, <1>3, <2>1, LastIs
<1>7. ASSUME NEW i \in DOMAIN new, NEW j \in DOMAIN new, new[i].n = new[j].n
      PROVE  i = j
  <2>1. CASE i \in DOMAIN t /\ j \in DOMAIN t
    BY <1>3, <1>7, <2>1 DEF Newest
  <2>2. CASE i \in DOMAIN t /\ j \notin DOMAIN t
    BY <1>2, <1>3, <1>4, <1>5, <1>7, <2>2
  <2>3. CASE i \notin DOMAIN t /\ j \in DOMAIN t
    BY <1>2, <1>3, <1>4, <1>5, <1>7, <2>3
  <2>4. CASE i \notin DOMAIN t /\ j \notin DOMAIN t
    BY <1>2, <2>4
  <2> QED
    BY <2>1, <2>2, <2>3, <2>4
<1>8. ASSUME NEW i \in DOMAIN new, new[i].status = InUse
      PROVE  new[i].n = LastKeyN(new)
  BY <1>2, <1>3, <1>6, <1>8
<1>9. Newest(new)
  BY <1>7, <1>8 DEF Newest
<1> QED
  BY <1>9 DEF new

-----------------------------------------------------------------------------
(* The worker and its mailbox.                                             *)

(* A member whose statics and table stay keeps what holds of it.           *)
LEMMA UntouchedMember ==
  ASSUME NEW m, NumberFresh(m) /\ Newest(aes[m]),
         pc'[m] = pc[m], stage'[m] = stage[m], mail'[m] = mail[m], fresh'[m] = fresh[m],
         cur'[m] = cur[m], aes'[m] = aes[m]
  PROVE  (NumberFresh(m) /\ Newest(aes[m]))'
  BY DEF NumberFresh, Last

(* Disabling the keys of a member changes no number either.                *)
LEMMA DisablingMember ==
  ASSUME TypeOK, NEW m \in Pos, NumberFresh(m) /\ Newest(aes[m]),
         pc'[m] = pc[m] \/ pc'[m] = "off",
         stage'[m] = stage[m], mail'[m] = mail[m], fresh'[m] = fresh[m], cur'[m] = cur[m],
         aes'[m] = aes[m] \/ aes'[m] = DisableOtherKeys(aes[m])
  PROVE  (NumberFresh(m) /\ Newest(aes[m]))'
<1>1. aes[m] \in Seq(KeyRows)
  BY DEF TypeOK
<1>2. Last(m)' = Last(m) /\ Newest(aes[m])'
  BY <1>1, DisabledNumbers DEF Last
<1> QED
  BY <1>2 DEF NumberFresh

(* start() leaves a worker that waits, with a message in its mailbox.      *)
LEMMA StartedMember ==
  ASSUME TypeOK, NEW m \in Pos, Newest(aes[m]), NEW st, NEW packet,
         StartWith(m, st, packet),
         st = "initRsa" \/ packet.msg.n > Last(m),
         aes'[m] = aes[m] \/ aes'[m] = DisableOtherKeys(aes[m])
  PROVE  (NumberFresh(m) /\ Newest(aes[m]))'
<1>1. /\ pc'[m] = "wait" /\ stage'[m] = st
      /\ mail'[m] = packet /\ fresh'[m] = TRUE
  BY DEF StartWith, TypeOK
<1>2. aes[m] \in Seq(KeyRows)
  BY DEF TypeOK
<1>3. Last(m)' = Last(m) /\ Newest(aes[m])'
  BY <1>2, DisabledNumbers DEF Last
<1> QED
  BY <1>1, <1>3 DEF NumberFresh

(* What a step of a member leaves alone of the others.                     *)
OthersUntouched(m) == \A p \in Pos \ {m} :
  /\ pc'[p] = pc[p] /\ stage'[p] = stage[p] /\ mail'[p] = mail[p]
  /\ fresh'[p] = fresh[p] /\ cur'[p] = cur[p] /\ aes'[p] = aes[p]

LEMMA UserNumbers ==
  ASSUME TypeOK, NEW m \in Pos, NumberFresh(m) /\ Newest(aes[m]),
         User(m) \/ Lifecycle(m)
  PROVE  (NumberFresh(m) /\ Newest(aes[m]))' /\ OthersUntouched(m)
<1>1. OthersUntouched(m)
  BY DEF User, Lifecycle, PressStart, PressStop, TimerStop, Joined, StartWith, secrets, box,
         TypeOK, OthersUntouched
<1> SUFFICES (NumberFresh(m) /\ Newest(aes[m]))'
  BY <1>1
<1>2. CASE PressStart(m)
  <2>1. aes' = aes
    BY <1>2 DEF PressStart
  <2>2. CASE pc[m] = "off"
    <3>1. StartWith(m, "initRsa", [msg |-> NoMsg, from |-> m])
      BY <1>2, <2>2 DEF PressStart
    <3> QED
      BY <2>1, <3>1, StartedMember
  <2>3. CASE pc[m] # "off"
    <3>1. UNCHANGED <<pc, stage, mail, fresh, cur>>
      BY <1>2, <2>3 DEF PressStart, box
    <3> QED
      BY <2>1, <3>1, UntouchedMember
  <2> QED
    BY <2>2, <2>3
<1>3. CASE PressStop(m)
  <2>1. UNCHANGED <<pc, stage, mail, fresh, cur>>
    BY <1>3 DEF PressStop, box
  <2>2. aes'[m] = aes[m] \/ aes'[m] = DisableOtherKeys(aes[m])
    BY <1>3 DEF PressStop, TypeOK
  <2> QED
    BY <2>1, <2>2, DisablingMember
<1>4. CASE TimerStop(m)
  <2>1. UNCHANGED <<pc, stage, mail, fresh, cur, aes>>
    BY <1>4 DEF TimerStop, box
  <2> QED
    BY <2>1, UntouchedMember
<1>5. CASE Joined(m)
  <2>1. aes'[m] = aes[m] \/ aes'[m] = DisableOtherKeys(aes[m])
    BY <1>5 DEF Joined, TypeOK
  <2>2. CASE join[m].then = "init"
    <3>1. StartWith(m, "initRsa", [msg |-> NoMsg, from |-> m])
      BY <1>5, <2>2 DEF Joined
    <3> QED
      BY <2>1, <3>1, StartedMember
  <2>3. CASE join[m].then # "init"
    <3>1. pc'[m] = "off" /\ UNCHANGED <<stage, mail, fresh, cur>>
      BY <1>5, <2>3 DEF Joined, box, TypeOK
    <3> QED
      BY <2>1, <3>1, DisablingMember
  <2> QED
    BY <2>2, <2>3
<1> QED
  BY <1>2, <1>3, <1>4, <1>5 DEF User, Lifecycle

(* decrypt_the_message passes on only what is newer than all that is stored. *)
LEMMA DispatchNumbers ==
  ASSUME TypeOK, Prompt, NEW m \in Pos, NumberFresh(m) /\ Newest(aes[m]), Dispatch(m)
  PROVE  (NumberFresh(m) /\ Newest(aes[m]))' /\ OthersUntouched(m)
<1>1. OthersUntouched(m)
  BY DEF Dispatch, DispatchForming, DispatchEnding, DispatchOther, AddInfo, StartWith,
         secrets, box, flags, TypeOK, OthersUntouched
<1> SUFFICES (NumberFresh(m) /\ Newest(aes[m]))'
  BY <1>1
<1>2. CASE DispatchForming(m)
  <2>1. pc[m] # "run" /\ Packet(m).msg.n > Last(m) /\ aes' = aes
    BY <1>2 DEF DispatchForming, Reads, Newer
  <2>2. CASE started[m]
    <3>1. /\ mail'[m] = Packet(m) /\ fresh'[m] = TRUE
          /\ UNCHANGED <<pc, stage, cur>>
      BY <1>2, <2>2 DEF DispatchForming, AddInfo, TypeOK
    <3> QED
      BY <2>1, <3>1 DEF NumberFresh, Last
  <2>3. CASE ~started[m]
    <3>1. StartWith(m, "rsa", Packet(m))
      BY <1>2, <2>3 DEF DispatchForming
    <3> QED
      BY <2>1, <3>1, StartedMember
  <2> QED
    BY <2>2, <2>3
<1>3. CASE DispatchEnding(m)
  <2>1. UNCHANGED <<pc, stage, mail, fresh, cur>>
    BY <1>3 DEF DispatchEnding, box
  <2>2. aes'[m] = aes[m] \/ aes'[m] = DisableOtherKeys(aes[m])
    BY <1>3 DEF DispatchEnding, TypeOK
  <2> QED
    BY <2>1, <2>2, DisablingMember
<1>4. CASE DispatchOther(m)
  <2>1. UNCHANGED <<pc, stage, mail, fresh, cur, aes>>
    BY <1>4 DEF DispatchOther, box
  <2> QED
    BY <2>1, UntouchedMember
<1> QED
  BY <1>2, <1>3, <1>4 DEF Dispatch

(* The stages of the worker: a number is chosen above all that is stored, and
   a key is stored at most once under it, as the worker then waits or goes to
   the last stage.                                                         *)
LEMMA WorkerNumbers ==
  ASSUME TypeOK, NoEmptyParams, NEW m \in Pos, NumberFresh(m) /\ Newest(aes[m]), Worker(m)
  PROVE  (NumberFresh(m) /\ Newest(aes[m]))' /\ OthersUntouched(m)
<1>1. CASE Take(m)
  <2>1. /\ pc'[m] = "run" /\ fresh'[m] = FALSE /\ cur'[m] = mail[m].msg
        /\ fresh[m] /\ UNCHANGED <<stage, mail, aes>> /\ OthersUntouched(m)
    BY <1>1 DEF Take, TypeOK, OthersUntouched
  <2> QED
    BY <2>1 DEF NumberFresh, Last
<1>2. CASE InitRsa(m)
  <2>1. /\ cur'[m].n = Last(m) + 1 /\ pc[m] = "run"
        /\ UNCHANGED <<pc, mail, fresh, aes>> /\ OthersUntouched(m)
    BY <1>2 DEF InitRsa, GoTo, box, At, Msg, TypeOK, OthersUntouched
  <2>2. Last(m) \in Int
    BY LastType DEF TypeOK, Last
  <2> QED
    BY <2>1, <2>2 DEF NumberFresh, Last
<1>3. CASE RsaStage(m) \/ AesInitStage(m) \/ FormBegin(m) \/ FormForward(m) \/ FormIgnore(m)
           \/ EndKeyForming(m)
  <2>1. UNCHANGED <<mail, fresh, aes>>
    BY <1>3 DEF RsaStage, RsaPublish, RsaListen, AesInitStage, AesInitSend, AesInitReceive,
                FormBegin, FormForward, FormIgnore, EndKeyForming, box
  <2>2. /\ cur'[m].n = cur[m].n
        /\ \A p \in Pos \ {m} : cur'[p] = cur[p]
    BY <1>3 DEF RsaStage, RsaPublish, RsaListen, AesInitStage, AesInitSend, AesInitReceive,
                FormBegin, FormForward, FormIgnore, EndKeyForming, Msg, TypeOK
  <2>3. pc[m] = "run" /\ stage[m] # "initRsa" /\ (stage[m] = "end" => StayAt(m))
    BY <1>3 DEF RsaStage, RsaPublish, RsaListen, AesInitStage, AesInitSend, AesInitReceive,
                FormBegin, FormForward, FormIgnore, EndKeyForming, At
  <2>4. StayAt(m) \/ \E st : GoTo(m, st)
    BY <1>3 DEF RsaStage, RsaPublish, RsaListen, AesInitStage, AesInitSend, AesInitReceive,
                FormBegin, FormForward, FormIgnore, EndKeyForming
  <2>5. OthersUntouched(m)
    BY <2>1, <2>2, <2>4 DEF StayAt, GoTo, TypeOK, OthersUntouched
  <2>6. CASE StayAt(m)
    <3>1. pc'[m] = "wait" /\ stage' = stage
      BY <2>6 DEF StayAt, TypeOK
    <3> QED
      BY <2>1, <2>3, <2>5, <3>1 DEF NumberFresh, Last
  <2>7. ASSUME NEW st, GoTo(m, st), stage[m] # "end"
        PROVE  (NumberFresh(m) /\ Newest(aes[m]))'
    BY <2>1, <2>2, <2>3, <2>7 DEF GoTo, NumberFresh, Last
  <2> QED
    BY <2>3, <2>4, <2>5, <2>6, <2>7
<1>4. CASE FormSolo(m) \/ FormFinish(m)
  <2>1. /\ pc[m] = "run" /\ stage[m] = "aesForm" /\ UNCHANGED <<mail, fresh, cur>>
        /\ StayAt(m) \/ GoTo(m, "end")
    BY <1>4 DEF FormSolo, FormFinish, At, box
  <2>2. PICK key \in Value : Stores(m, key)
    <3>1. CASE FormSolo(m)
      <4>1. gen[m] \in Gens
        BY <3>1, BoundsAssumption DEF FormSolo, Generate, TypeOK, Gens
      <4>2. NewParams(m, {}) \in Params /\ NewParams(m, {}).nth \in Gens
        BY <4>1 DEF NewParams, Params
      <4>3. SoloKey(m) \in Value
        BY <4>2, PublicType DEF SoloKey
      <4> QED
        BY <3>1, <4>3 DEF FormSolo, Store, Stores
    <3>2. CASE FormFinish(m)
      <4>1. cur[m].key \in Value /\ dh[m] \in Params
        BY DEF TypeOK, Messages
      <4>2. dh[m].nth \in Gens
        BY <3>2 DEF FormFinish, At, NoEmptyParams
      <4>3. Multi(m) \in Value
        BY <4>1, <4>2, RaiseType DEF Multi
      <4> QED
        BY <3>2, <4>3 DEF FormFinish, Store, Stores
    <3> QED
      BY <1>4, <3>1, <3>2
  <2>3. cur[m].n > Last(m)
    BY <2>1 DEF NumberFresh
  <2>4. aes[m] \in Seq(KeyRows) /\ cur[m].n \in 0 .. MaxKeyN
    BY DEF TypeOK, Messages
  <2>5. Newest(AddAesKey(aes[m], cur[m].n, key))
    BY <2>3, <2>4, AddedNumber DEF NumberFresh, Last
  <2>6. /\ aes'[m] = AddAesKey(aes[m], cur[m].n, key)
        /\ \A p \in Pos \ {m} : aes'[p] = aes[p]
    BY <2>2 DEF Stores, TypeOK
  <2>7. /\ pc'[m] = "wait" \/ stage'[m] = "end"
        /\ ~fresh'[m]
        /\ OthersUntouched(m)
    BY <2>1, <2>6 DEF StayAt, GoTo, NumberFresh, TypeOK, OthersUntouched
  <2> QED
    BY <2>5, <2>6, <2>7 DEF NumberFresh
<1> QED
  BY <1>1, <1>2, <1>3, <1>4 DEF Worker, FormStage

LEMMA EnvironmentNumbers ==
  ASSUME TypeOK, NEW m \in Pos, NumberFresh(m) /\ Newest(aes[m]), Environment(m)
  PROVE  (NumberFresh(m) /\ Newest(aes[m]))' /\ OthersUntouched(m)
<1>1. CASE Resend(m) \/ Lose(m)
  <2>1. UNCHANGED <<pc, stage, mail, fresh, cur, aes>>
    BY <1>1 DEF Resend, Lose, box
  <2> QED
    BY <2>1, UntouchedMember DEF OthersUntouched
<1>2. CASE Restart(m)
  <2>1. pc'[m] = "off" /\ fresh'[m] = FALSE /\ aes' = aes /\ OthersUntouched(m)
    BY <1>2 DEF Restart, TypeOK, OthersUntouched
  <2> QED
    BY <2>1 DEF NumberFresh
<1> QED
  BY <1>1, <1>2 DEF Environment

LEMMA NumberStep ==
  ASSUME Prompt, TypeOK, NoEmptyParams, NumberInv, [Next]_vars
  PROVE  NumberInv'
<1>1. CASE UNCHANGED vars
  BY <1>1 DEF vars, NumberInv, NumberFresh, Last
<1>2. ASSUME NEW m \in Pos,
             User(m) \/ Lifecycle(m) \/ Dispatch(m) \/ Worker(m) \/ Environment(m)
      PROVE  NumberInv'
  <2>1. (NumberFresh(m) /\ Newest(aes[m]))' /\ OthersUntouched(m)
    BY <1>2, UserNumbers, DispatchNumbers, WorkerNumbers, EnvironmentNumbers DEF NumberInv
  <2>2. ASSUME NEW p \in Pos, p # m
        PROVE  (NumberFresh(p) /\ Newest(aes[p]))'
    BY <2>1, <2>2, UntouchedMember DEF NumberInv, OthersUntouched
  <2> QED
    BY <2>1, <2>2 DEF NumberInv
<1> QED
  BY <1>1, <1>2 DEF Next

(* The invariant, if every message is slower than the worker.              *)
LEMMA NumbersCorrect == Prompt => (Spec => []NumberInv)
<1>1. Init => NumberInv
  BY DEF Init, NumberInv, NumberFresh, Newest
<1>2. ASSUME Prompt PROVE Spec => []NumberInv
  <2>1. TypeOK /\ NoEmptyParams /\ NumberInv /\ [Next]_vars => NumberInv'
    BY <1>2, NumberStep
  <2> QED
    BY <1>1, <2>1, TypeCorrect, ParamsPresent, PTL DEF Spec
<1> QED
  BY <1>2

(* No member ever stores two keys under one number, whatever is lost,
   repeated, restarted or clicked, if its worker is done with a message before
   the next comes: decryption takes the first row of a number.             *)
THEOREM NumbersStayUnique == Prompt => (Spec => []NumbersUnique)
<1>1. NumberInv => NumbersUnique
  BY DEF NumberInv, Newest, NumbersUnique
<1>2. ASSUME Prompt PROVE Spec => []NumbersUnique
  BY <1>1, <1>2, NumbersCorrect, PTL
<1> QED
  BY <1>2

(* The key a member encrypts with is the newest it has, although its number
   was chosen long before it was stored.                                   *)
THEOREM NewestInUse == Prompt => (Spec => []ActiveIsNewest)
<1>1. NumberInv => ActiveIsNewest
  BY DEF NumberInv, Newest, ActiveIsNewest, Rows, Last
<1>2. ASSUME Prompt PROVE Spec => []ActiveIsNewest
  BY <1>1, <1>2, NumbersCorrect, PTL
<1> QED
  BY <1>2

=============================================================================
