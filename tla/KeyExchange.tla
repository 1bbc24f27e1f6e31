----------------------------- MODULE KeyExchange -----------------------------
(***************************************************************************)
(* Forming the common AES key of one chat: the clients of its N members,   *)
(* each with the thread of ChatKeyCreation, the stages of                  *)
(* ChatCommandsManager, the dispatch of received protocol messages         *)
(* (Receive::decrypt_the_message) and its rows of the table "aes".         *)
(*                                                                         *)
(* A member is its position my_id_pos in the sorted list of members, the   *)
(* same list for everyone.  The Telegram server is external: it appends a  *)
(* message to the inbox of every other member, in one order per chat.      *)
(*                                                                         *)
(* A Diffie-Hellman value g^(x1 x2 ...) mod p is abstracted to the private *)
(* exponents it was raised to, with their multiplicity, and the moduli it  *)
(* was reduced by; two values are equal when these are.                    *)
(***************************************************************************)
EXTENDS AesTable

CONSTANTS
  N,            \* number of members of the chat
  MaxKeyN,      \* bound: the largest key number the model forms
  MaxGen,       \* bound: private exponents one member generates
  MaxStarts,    \* bound: clicks on the closed lock, all users together
  MaxStops,     \* bound: clicks on the open lock
  MaxLost,      \* bound: messages that reach a client only inside an rpc_result
  MaxResent,    \* bound: messages the server sends twice
  MaxRestarts,  \* bound: restarts of a client
  Prompt,       \* TRUE: messages are slower than the worker that handles them
  Patient       \* TRUE: users click only when nothing is in progress

ASSUME NAssumption == N \in Nat \ {0}
ASSUME BoundsAssumption ==
  /\ {MaxKeyN, MaxGen} \subseteq Nat \ {0}
  /\ {MaxStarts, MaxStops, MaxLost, MaxResent, MaxRestarts} \subseteq Nat
  /\ {Prompt, Patient} \subseteq BOOLEAN

Pos == 0 .. N - 1
Succ(p) == (p + 1) % N
Unknown == -1        \* a sender that is not found in the list of members

(* Diffie-Hellman values.                                                  *)
Gens == 0 .. MaxGen - 1
Value == [mod : SUBSET Gens, exp : [Pos -> [Gens -> Nat]]]
Base(mod) == [mod |-> mod, exp |-> [p \in Pos |-> [i \in Gens |-> 0]]]
NoParams == [mod |-> {}, nth |-> -1]

RaiseBug(v, m, params) == v

(* compute_shared_secret: v to the private exponent, modulo my own p.      *)
Raise(v, m, params) ==
  [mod |-> v.mod \cup params.mod, exp |-> [v.exp EXCEPT ![m][params.nth] = @ + 1]]
PublicBug(m, params) == Base(params.mod)
Public(m, params) == Raise(Base(params.mod), m, params)

Kinds == {"none", "rsaInit", "rsaForm", "aesInit", "aesForm", "endForming",
          "endEncryption"}
Msg(kind, n, last, key) == [kind |-> kind, n |-> n, last |-> last, key |-> key]
NoMsg == Msg("none", 0, 0, Base({}))

Events == {"start", "stop", "lost", "resent", "restart"}
Stages == {"initRsa", "rsa", "aesInit", "aesForm", "end"}
NoJoin == [by |-> "none", then |-> "return"]
Join(by, then) == [by |-> by, then |-> then]

VARIABLES
  inbox,    \* messages sent to the client and not yet dispatched
  pc,       \* the worker: "off" (no thread), "wait" (in cv.wait), "run"
  stage,    \* cur_stage
  mail,     \* recieved_message with sender_id_str: one slot
  fresh,    \* continue_creation
  stopping, \* stop_creation
  started,  \* is_started_flag
  cur,      \* rcv_msg: the worker's copy of the message
  join,     \* the caller blocked in stop(), and what it does afterwards
  timers,   \* detached threads about to call stop()
  rsa,      \* the positions filled in members_rsa_public_key
  dh,       \* my_dh_params: the modulus and which private exponent it is
  gen,      \* private exponents this account has generated so far
  aes,      \* the rows of the table "aes"
  used      \* how often each bounded event has happened

net == <<inbox>>
flags == <<stopping, started>>
box == <<mail, fresh>>
secrets == <<rsa, dh, gen>>
vars == <<inbox, pc, stage, mail, fresh, stopping, started, cur, join, timers,
          rsa, dh, gen, aes, used>>

Last(m) == LastKeyN(aes[m])
Has(event, max) == used[event] < max
Use(event) == used' = [used EXCEPT ![event] = @ + 1]

(* What every other member's client will receive.                          *)
Broadcast(m, msg) ==
  inbox' = [p \in Pos |-> IF p = m THEN inbox[p]
                          ELSE Append(inbox[p], [msg |-> msg, from |-> m])]

(* Nothing is in progress in any client, as far as a user can tell.        *)
Quiet == \A p \in Pos : /\ inbox[p] = <<>> /\ ~fresh[p] /\ timers[p] = 0
                        /\ pc[p] # "run" /\ join[p] = NoJoin
Click == Patient => Quiet

Init ==
  /\ inbox = [p \in Pos |-> <<>>]
  /\ pc = [p \in Pos |-> "off"]
  /\ stage = [p \in Pos |-> "initRsa"]
  /\ mail = [p \in Pos |-> [msg |-> NoMsg, from |-> p]]
  /\ fresh = [p \in Pos |-> FALSE]
  /\ stopping = [p \in Pos |-> FALSE]
  /\ started = [p \in Pos |-> FALSE]
  /\ cur = [p \in Pos |-> NoMsg]
  /\ join = [p \in Pos |-> NoJoin]
  /\ timers = [p \in Pos |-> 0]
  /\ rsa = [p \in Pos |-> {}]
  /\ dh = [p \in Pos |-> NoParams]
  /\ gen = [p \in Pos |-> 0]
  /\ aes = [p \in Pos |-> <<>>]
  /\ used = [e \in Events |-> 0]

-----------------------------------------------------------------------------
(* ChatKeyCreation: starting, feeding and stopping the worker.             *)

StartWithBug(m, st, packet) ==
  /\ stopping' = [stopping EXCEPT ![m] = FALSE]
  /\ started' = [started EXCEPT ![m] = TRUE]
  /\ rsa' = [rsa EXCEPT ![m] = {}]
  /\ dh' = [dh EXCEPT ![m] = NoParams]
  /\ pc' = [pc EXCEPT ![m] = "wait"]
  /\ mail' = [mail EXCEPT ![m] = packet]
  /\ fresh' = [fresh EXCEPT ![m] = TRUE]
  /\ stage' = [stage EXCEPT ![m] = IF @ = "initRsa" THEN st ELSE @]

(* start(st) when there is no thread left, then add_info(msg, from).       *)
StartWith(m, st, packet) ==
  /\ stopping' = [stopping EXCEPT ![m] = FALSE]
  /\ started' = [started EXCEPT ![m] = TRUE]
  /\ stage' = [stage EXCEPT ![m] = st]
  /\ rsa' = [rsa EXCEPT ![m] = {}]
  /\ dh' = [dh EXCEPT ![m] = NoParams]
  /\ pc' = [pc EXCEPT ![m] = "wait"]
  /\ mail' = [mail EXCEPT ![m] = packet]
  /\ fresh' = [fresh EXCEPT ![m] = TRUE]

AddInfo(m, packet) ==
  /\ mail' = [mail EXCEPT ![m] = packet]
  /\ fresh' = [fresh EXCEPT ![m] = TRUE]

RequestStopBug(m, by, then) ==
  join' = [join EXCEPT ![m] = Join(by, then)] /\ UNCHANGED stopping

(* stop() up to the join: the caller waits for the worker to leave.        *)
RequestStop(m, by, then) ==
  /\ stopping' = [stopping EXCEPT ![m] = TRUE]
  /\ join' = [join EXCEPT ![m] = Join(by, then)]

(* The user clicks the closed lock: start_encryption().                    *)
PressStart(m) ==
  /\ Has("start", MaxStarts) /\ Click /\ join[m] = NoJoin /\ Last(m) < MaxKeyN
  /\ Use("start")
  /\ IF pc[m] = "off"
     THEN /\ StartWith(m, "initRsa", [msg |-> NoMsg, from |-> m])
          /\ UNCHANGED join
     ELSE /\ RequestStop(m, "ui", "init")
          /\ UNCHANGED <<started, stage, rsa, dh, pc, box>>
  /\ UNCHANGED <<inbox, cur, timers, gen, aes>>

EndEncryptionMsg == Msg("endEncryption", 0, 0, Base({}))

(* The user clicks the open lock: stop_encryption().                       *)
PressStop(m) ==
  /\ Has("stop", MaxStops) /\ Click /\ join[m] = NoJoin
  /\ Use("stop")
  /\ IF pc[m] = "off"
     THEN /\ Broadcast(m, EndEncryptionMsg)
          /\ aes' = [aes EXCEPT ![m] = DisableOtherKeys(@)]
          /\ UNCHANGED <<stopping, join>>
     ELSE /\ RequestStop(m, "ui", "notify")
          /\ UNCHANGED <<inbox, aes>>
  /\ UNCHANGED <<pc, stage, box, started, cur, timers, secrets>>

(* A detached thread wakes up 200 ms after END_KEY_FORMING: stop().        *)
TimerStop(m) ==
  /\ timers[m] > 0 /\ join[m] = NoJoin
  /\ timers' = [timers EXCEPT ![m] = @ - 1]
  /\ IF pc[m] = "off" THEN UNCHANGED <<stopping, join>>
     ELSE RequestStop(m, "timer", "return")
  /\ UNCHANGED <<net, pc, stage, box, started, cur, secrets, aes, used>>

(* The worker sees stop_creation and leaves; the blocked caller resumes.   *)
Joined(m) ==
  /\ pc[m] = "wait" /\ stopping[m] /\ join[m] # NoJoin
  /\ join' = [join EXCEPT ![m] = NoJoin]
  /\ IF join[m].then = "init"
     THEN StartWith(m, "initRsa", [msg |-> NoMsg, from |-> m])
     ELSE /\ pc' = [pc EXCEPT ![m] = "off"]
          /\ started' = [started EXCEPT ![m] = FALSE]
          /\ UNCHANGED <<stopping, stage, rsa, dh, box>>
  /\ IF join[m].then = "notify" THEN Broadcast(m, EndEncryptionMsg)
     ELSE UNCHANGED inbox
  /\ aes' = IF join[m].then \in {"notify", "disable"}
            THEN [aes EXCEPT ![m] = DisableOtherKeys(@)] ELSE aes
  /\ UNCHANGED <<cur, timers, gen, used>>

-----------------------------------------------------------------------------
(* Receive::decrypt_the_message, on the thread of the MTProto session.     *)

Forming == {"rsaInit", "rsaForm", "aesInit", "aesForm"}
Ending == {"endForming", "endEncryption"}

(* decrypt_the_buffer finds the text of a message, its chat and its sender. *)
Packet(m) == Head(inbox[m])

NewerBug(m, msg) == msg.n >= Last(m)
Newer(m, msg) == msg.n > Last(m)

(* The session reads its next message; while it is blocked in stop() it
   reads none.                                                             *)
Reads(m) ==
  /\ inbox[m] # <<>> /\ join[m].by # "mtp"
  /\ Prompt => ~fresh[m] /\ pc[m] # "run"
  /\ inbox' = [inbox EXCEPT ![m] = Tail(@)]

(* A step of the exchange with a newer key number: start() unless started,
   then add_info().                                                        *)
DispatchForming(m) ==
  /\ Reads(m)
  /\ Packet(m).msg.kind \in Forming /\ Newer(m, Packet(m).msg)
  /\ IF started[m]
     THEN /\ AddInfo(m, Packet(m))
          /\ UNCHANGED <<pc, stage, flags, rsa, dh>>
     ELSE /\ join[m] = NoJoin
          /\ StartWith(m, "rsa", Packet(m))
  /\ UNCHANGED <<cur, join, timers, gen, aes, used>>

(* The end of the exchange, or of the encryption, with a newer number.     *)
DispatchEnding(m) ==
  /\ Reads(m)
  /\ Packet(m).msg.kind \in Ending /\ Newer(m, Packet(m).msg) /\ join[m] = NoJoin
  /\ LET disable == Packet(m).msg.kind = "endEncryption"
     IN IF pc[m] = "off"
        THEN /\ aes' = IF disable THEN [aes EXCEPT ![m] = DisableOtherKeys(@)]
                       ELSE aes
             /\ UNCHANGED <<stopping, join>>
        ELSE /\ RequestStop(m, "mtp", IF disable THEN "disable" ELSE "return")
             /\ UNCHANGED aes
  /\ UNCHANGED <<pc, stage, box, started, cur, timers, secrets, used>>

(* Anything else is shown in the chat and changes nothing.                 *)
DispatchOther(m) ==
  /\ Reads(m)
  /\ ~Newer(m, Packet(m).msg)
  /\ UNCHANGED <<pc, stage, box, flags, cur, join, timers, secrets, aes, used>>

-----------------------------------------------------------------------------
(* The worker: ChatKeyCreation::chat_key_creation and the stages.  After   *)
(* each stage the iteration goes on only if a later stage was reached.     *)

Take(m) ==
  /\ pc[m] = "wait" /\ fresh[m] /\ ~stopping[m]
  /\ cur' = [cur EXCEPT ![m] = mail[m].msg]
  /\ fresh' = [fresh EXCEPT ![m] = FALSE]
  /\ pc' = [pc EXCEPT ![m] = "run"]
  /\ UNCHANGED <<net, stage, mail, flags, join, timers, secrets, aes, used>>

At(m, st) == pc[m] = "run" /\ stage[m] = st
StayAt(m) == pc' = [pc EXCEPT ![m] = "wait"] /\ UNCHANGED stage
GoTo(m, st) == stage' = [stage EXCEPT ![m] = st] /\ UNCHANGED pc

InitRsa(m) ==
  /\ At(m, "initRsa") /\ Last(m) < MaxKeyN
  /\ LET msg == Msg("rsaInit", Last(m) + 1, m, Base({}))
     IN Broadcast(m, msg) /\ cur' = [cur EXCEPT ![m] = msg]
  /\ GoTo(m, "rsa")
  /\ UNCHANGED <<box, flags, join, timers, secrets, aes, used>>

(* Whose turn it is to publish an RSA key.                                 *)
RsaTurn(m) == IF cur[m].kind = "rsaInit" THEN m = 0 ELSE m = cur[m].last + 1

(* The RSA key of the previous publisher, if the message carries one.      *)
Heard(m) == IF cur[m].kind = "rsaInit" THEN {} ELSE {cur[m].last}

RsaPublish(m) ==
  /\ At(m, "rsa") /\ RsaTurn(m)
  /\ Broadcast(m, Msg("rsaForm", cur[m].n, m, Base({})))
  /\ rsa' = [rsa EXCEPT ![m] = @ \cup Heard(m) \cup {m}]
  /\ IF m = N - 1 THEN GoTo(m, "aesInit") ELSE StayAt(m)
  /\ UNCHANGED <<box, flags, cur, join, timers, dh, gen, aes, used>>

AllPublished(m) == Heard(m) = {N - 1}

RsaListen(m) ==
  /\ At(m, "rsa") /\ ~RsaTurn(m)
  /\ rsa' = [rsa EXCEPT ![m] = @ \cup Heard(m)]
  /\ IF AllPublished(m) THEN GoTo(m, "aesInit") ELSE StayAt(m)
  /\ UNCHANGED <<net, box, flags, cur, join, timers, dh, gen, aes, used>>

(* A private exponent never used before.                                   *)
Generate(m) == gen[m] < MaxGen /\ gen' = [gen EXCEPT ![m] = @ + 1]
NewParamsBug(m, mod) == [mod |-> mod, nth |-> 0]
NewParams(m, mod) == [mod |-> mod, nth |-> gen[m]]
NewDh(m, mod) == Generate(m) /\ dh' = [dh EXCEPT ![m] = NewParams(m, mod)]

AesInitSend(m) ==
  /\ At(m, "aesInit") /\ m = 0
  /\ LET msg == Msg("aesInit", cur[m].n, m, Base({gen[m]}))
     IN Broadcast(m, msg) /\ cur' = [cur EXCEPT ![m] = msg]
  /\ NewDh(m, {gen[m]}) /\ GoTo(m, "aesForm")
  /\ UNCHANGED <<box, flags, join, timers, rsa, aes, used>>

AesInitReceive(m) ==
  /\ At(m, "aesInit") /\ m # 0
  /\ IF cur[m].kind = "aesInit"
     THEN NewDh(m, cur[m].key.mod) /\ GoTo(m, "aesForm")
     ELSE StayAt(m) /\ UNCHANGED <<dh, gen>>
  /\ UNCHANGED <<net, box, flags, cur, join, timers, rsa, aes, used>>

(* The sender is read from the mailbox without the mutex: it may already be
   the sender of a later message, or be caught in the middle of the write. *)
SendersSeen(m) == {mail[m].from} \cup (IF fresh[m] THEN {Unknown} ELSE {})

Send(m, last, key) == Broadcast(m, Msg("aesForm", cur[m].n, last, key))
Store(m, key) == aes' = [aes EXCEPT ![m] = AddAesKey(@, cur[m].n, key)]

(* create_key_solo: random bytes, a secret of my own.                      *)
SoloKey(m) == Public(m, NewParams(m, {}))

FormSolo(m) ==
  /\ At(m, "aesForm") /\ N = 1
  /\ Store(m, SoloKey(m)) /\ Generate(m)
  /\ GoTo(m, "end")
  /\ UNCHANGED <<net, box, flags, cur, join, timers, rsa, dh, used>>

Begins(m) == m = 0 /\ cur[m].kind = "aesInit"
(* create_key_multi: the value that was handed to me, raised to my exponent. *)
Multi(m) == Raise(cur[m].key, m, dh[m])
MyTurn(m, snd) == cur[m].kind = "aesForm" /\ m = (snd + 1) % N

(* The first member starts the value meant for the last one.               *)
FormBegin(m) ==
  /\ At(m, "aesForm") /\ N > 1 /\ Begins(m)
  /\ Send(m, N - 1, Public(m, dh[m]))
  /\ StayAt(m)
  /\ UNCHANGED <<box, flags, cur, join, timers, secrets, aes, used>>

KeyRoundEndsBug(m) == m = N
KeyRoundEnds(m) == m = 0

(* The value is meant for me: it becomes the key, and I start the value
   meant for the member before me.                                         *)
FormFinish(m) ==
  /\ At(m, "aesForm") /\ N > 1 /\ cur[m].last = m
  /\ \E snd \in SendersSeen(m) : MyTurn(m, snd)
  /\ Store(m, Multi(m))
  /\ IF KeyRoundEnds(m) THEN GoTo(m, "end") /\ UNCHANGED inbox
     ELSE StayAt(m) /\ Send(m, m - 1, Public(m, dh[m]))
  /\ UNCHANGED <<box, flags, cur, join, timers, secrets, used>>

(* The value is meant for another member: raise it to my exponent.         *)
FormForward(m) ==
  /\ At(m, "aesForm") /\ N > 1 /\ cur[m].last # m
  /\ \E snd \in SendersSeen(m) : MyTurn(m, snd)
  /\ Send(m, cur[m].last, Multi(m))
  /\ StayAt(m)
  /\ UNCHANGED <<box, flags, cur, join, timers, secrets, aes, used>>

FormIgnore(m) ==
  /\ At(m, "aesForm") /\ N > 1 /\ ~Begins(m)
  /\ \E snd \in SendersSeen(m) : ~MyTurn(m, snd)
  /\ StayAt(m)
  /\ UNCHANGED <<net, box, flags, cur, join, timers, secrets, aes, used>>

EndKeyFormingBug(m) ==
  /\ At(m, "end")
  /\ Broadcast(m, Msg("endForming", cur[m].n, m, Base({})))
  /\ StayAt(m)
  /\ UNCHANGED <<box, flags, cur, join, timers, secrets, aes, used>>

(* Announce the end, and leave it to another thread to stop this one.      *)
EndKeyForming(m) ==
  /\ At(m, "end")
  /\ Broadcast(m, Msg("endForming", cur[m].n, m, Base({})))
  /\ timers' = [timers EXCEPT ![m] = @ + 1]
  /\ StayAt(m)
  /\ UNCHANGED <<box, flags, cur, join, secrets, aes, used>>

-----------------------------------------------------------------------------
(* The environment.                                                        *)

(* The server repeats a message the client has not acknowledged; the client
   deciphers it before it checks for a repeated msg_id.                    *)
Resend(m) ==
  /\ Has("resent", MaxResent) /\ Use("resent")
  /\ \E i \in DOMAIN inbox[m] :
       inbox' = [inbox EXCEPT ![m] = Append(@, inbox[m][i])]
  /\ UNCHANGED <<pc, stage, box, flags, cur, join, timers, secrets, aes>>

(* The message arrives inside an rpc_result: is_recieved is false.         *)
Lose(m) ==
  /\ Has("lost", MaxLost) /\ Use("lost") /\ inbox[m] # <<>>
  /\ inbox' = [inbox EXCEPT ![m] = Tail(@)]
  /\ UNCHANGED <<pc, stage, box, flags, cur, join, timers, secrets, aes>>

(* The client is restarted: only the database survives, and what it missed
   is fetched in rpc_results.                                              *)
Restart(m) ==
  /\ Has("restart", MaxRestarts) /\ Use("restart")
  /\ inbox' = [inbox EXCEPT ![m] = <<>>]
  /\ pc' = [pc EXCEPT ![m] = "off"]
  /\ fresh' = [fresh EXCEPT ![m] = FALSE]
  /\ stopping' = [stopping EXCEPT ![m] = FALSE]
  /\ started' = [started EXCEPT ![m] = FALSE]
  /\ join' = [join EXCEPT ![m] = NoJoin]
  /\ timers' = [timers EXCEPT ![m] = 0]
  /\ rsa' = [rsa EXCEPT ![m] = {}]
  /\ dh' = [dh EXCEPT ![m] = NoParams]
  /\ mail' = [mail EXCEPT ![m] = [msg |-> NoMsg, from |-> m]]
  /\ cur' = [cur EXCEPT ![m] = NoMsg]
  /\ stage' = [stage EXCEPT ![m] = "initRsa"]
  /\ UNCHANGED <<gen, aes>>

-----------------------------------------------------------------------------
Dispatch(m) == DispatchForming(m) \/ DispatchEnding(m) \/ DispatchOther(m)
RsaStage(m) == RsaPublish(m) \/ RsaListen(m)
AesInitStage(m) == AesInitSend(m) \/ AesInitReceive(m)
FormStage(m) == FormSolo(m) \/ FormBegin(m) \/ FormFinish(m) \/ FormForward(m)
                \/ FormIgnore(m)
Worker(m) == Take(m) \/ InitRsa(m) \/ RsaStage(m) \/ AesInitStage(m)
             \/ FormStage(m) \/ EndKeyForming(m)
Lifecycle(m) == TimerStop(m) \/ Joined(m)
User(m) == PressStart(m) \/ PressStop(m)
Environment(m) == Resend(m) \/ Lose(m) \/ Restart(m)

Next == \E m \in Pos : \/ User(m) \/ Lifecycle(m) \/ Dispatch(m) \/ Worker(m)
                       \/ Environment(m)

Spec == Init /\ [][Next]_vars

(* The threads are scheduled and the network delivers; users need not act. *)
Fairness == \A m \in 0 .. N - 1 :
  WF_vars(Lifecycle(m)) /\ WF_vars(Dispatch(m)) /\ WF_vars(Worker(m))
FairSpec == Spec /\ Fairness

-----------------------------------------------------------------------------
(* Invariants.                                                             *)

Messages == [kind : Kinds, n : 0 .. MaxKeyN, last : Pos, key : Value]
Packets == [msg : Messages, from : Pos]
Params == [mod : SUBSET Gens, nth : Gens \cup {-1}]
Calls == [by : {"none", "ui", "mtp", "timer"},
          then : {"return", "init", "notify", "disable"}]
KeyRows == [n : 0 .. MaxKeyN, key : Value, status : {InUse, Outdated}]

(* Every variable keeps its type: the fields of a Message, the columns of a
   row, and positions that are indexes into the list of members.           *)
TypeOK ==
  /\ inbox \in [Pos -> Seq(Packets)]
  /\ pc \in [Pos -> {"off", "wait", "run"}]
  /\ stage \in [Pos -> Stages]
  /\ mail \in [Pos -> Packets]
  /\ fresh \in [Pos -> BOOLEAN]
  /\ stopping \in [Pos -> BOOLEAN]
  /\ started \in [Pos -> BOOLEAN]
  /\ cur \in [Pos -> Messages]
  /\ join \in [Pos -> Calls]
  /\ timers \in [Pos -> Nat]
  /\ rsa \in [Pos -> SUBSET Pos]
  /\ dh \in [Pos -> Params]
  /\ gen \in [Pos -> 0 .. MaxGen]
  /\ aes \in [Pos -> Seq(KeyRows)]
  /\ used \in [Events -> Nat]

Rows(m) == {aes[m][i] : i \in DOMAIN aes[m]}
Uses(key, p) == {i \in Gens : key.exp[p][i] # 0}

(* A key was raised exactly once to one private exponent of every member.
   aes_form_session_key hands a value round for it; stale messages and a
   sender read outside the mutex work against it.                          *)
RaisedOnce == \A m \in Pos : \A r \in Rows(m) : \A p \in Pos :
  \E i \in Gens : Uses(r.key, p) = {i} /\ r.key.exp[p][i] = 1

(* A key is common: everybody has raised it, all modulo the same p, which is
   what compute_shared_secret promises of it.                              *)
Contributory ==
  /\ RaisedOnce
  /\ \A m \in Pos : \A r \in Rows(m) : Cardinality(r.key.mod) = IF N = 1 THEN 0 ELSE 1

(* A member stores at most one key under a number: decryption takes the first
   row of that number the database returns.                                *)
NumbersUnique == \A m \in Pos : \A i, j \in DOMAIN aes[m] :
  aes[m][i].n = aes[m][j].n => i = j

(* A member encrypts with its newest key: the row in use has the largest
   number, although a number is chosen long before it is stored.           *)
ActiveIsNewest == \A m \in Pos : \A r \in Rows(m) :
  r.status = InUse => r.n = Last(m)

(* Whatever is lost, restarted or clicked again, a worker never forms a key
   with the empty parameters that reset_functions_results leaves.          *)
NoEmptyParams == \A m \in Pos : stage[m] = "aesForm" => dh[m].nth \in Gens

(* Keys of different numbers have no private exponent in common: a refreshed
   key is independent of the keys before it, also when the worker of an
   earlier exchange was never stopped.  A value that the server repeats may
   reach a later exchange, and is then raised to the exponent of that one. *)
KeysIndependent == used["resent"] = 0 => \A m, p \in Pos :
  \A r \in Rows(m), q \in Rows(p) :
    r.n # q.n => \A x \in Pos : Uses(r.key, x) \cap Uses(q.key, x) = {}

(* No member stores a key it did not contribute to, even when a message is
   attributed to the wrong sender.                                         *)
OwnContribution == \A m \in Pos : \A r \in Rows(m) : Uses(r.key, m) # {}

(* Whoever is blocked in stop() waits for a thread that exists and has been
   told to stop, and is_started tells whether there is a thread: otherwise a
   caller, which may be the interface, would be blocked for ever, or a
   message would be given to a worker that is not there.                   *)
JoinHasThread == \A m \in Pos :
  /\ join[m] # NoJoin => pc[m] # "off" /\ stopping[m]
  /\ started[m] <=> pc[m] # "off"

(* A step never loses a stored key and never takes a retired key into use
   again: messages encrypted with it stay readable, and no new ones are.   *)
KeysKept == [][\A m \in Pos : \A i \in DOMAIN aes[m] :
  /\ i \in DOMAIN aes'[m]
  /\ aes'[m][i].n = aes[m][i].n /\ aes'[m][i].key = aes[m][i].key
  /\ aes[m][i].status = Outdated => aes'[m][i].status = Outdated]_vars

-----------------------------------------------------------------------------
(* Liveness, under FairSpec.                                               *)

(* A call of stop() returns: the worker comes back from any stage.         *)
StopReturns == \A m \in 0 .. N - 1 : join[m] # NoJoin ~> join[m] = NoJoin

(* In a chat with oneself the worker ends after every click.               *)
WorkerEnds == used["start"] > 0 ~> (\A m \in Pos : pc[m] = "off")

HoldsKey(m, n) == n \in KeyNumbers(aes[m])
Asks(m, n) == stage[m] = "initRsa" /\ pc[m] # "off" /\ Last(m) = n - 1
ReachesAll(m) == \A n \in 1 .. MaxKeyN : Asks(m, n) ~> (\A p \in Pos : HoldsKey(p, n))

(* An exchange the last member asks for gives everyone the new key, whatever
   exchanges came before it.                                               *)
LastMemberRefreshes == ReachesAll(N - 1)

(* The same, whichever member asks for the key: "any of the users".        *)
KeyReachesAll == \A m \in 0 .. N - 1 : ReachesAll(m)

(* A key that is in use when its member is told of the end of the encryption
   is given up: a click on the open lock reaches the others.               *)
Told(m) == \E i \in DOMAIN inbox[m] : inbox[m][i].msg.kind = "endEncryption"
InUseAt(m, n) == \E r \in Rows(m) : r.n = n /\ r.status = InUse
StopReachesAll == \A m \in 0 .. N - 1, n \in 1 .. MaxKeyN :
                    Told(m) /\ InUseAt(m, n) ~> ~InUseAt(m, n)

-----------------------------------------------------------------------------
(* What the exchange promises to the rest of the program: see GroupKey.    *)

(* The keys that are common to all members; GroupKey knows no others.      *)
CommonKeys ==
  {[mod |-> {g}, exp |-> [p \in Pos |-> [i \in Gens |-> IF i = f[p] THEN 1 ELSE 0]]] :
     g \in Gens, f \in [Pos -> Gens]}

Promise == INSTANCE GroupKey WITH
  Members <- Pos,
  Numbers <- 1 .. MaxKeyN,
  Keys <- CommonKeys,
  table <- [m \in Pos |-> {[n |-> r.n, key |-> r.key] : r \in Rows(m)}],
  inUse <- [m \in Pos |-> {r.n : r \in {q \in Rows(m) : q.status = InUse}}]

(* Every step of the exchange installs a common key under a new number, stops
   using a key, or changes nothing that the rest of the program can see.   *)
ImplementsGroupKey == Promise!Spec

=============================================================================
