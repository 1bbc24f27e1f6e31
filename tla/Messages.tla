------------------------------- MODULE Messages -------------------------------
(***************************************************************************)
(* Texts written by one user, from the queue of the MTProto session to the *)
(* server and back: the encryption of outgoing buffers                     *)
(* (Send::encrypt_the_buffer), the rows of the table "messages" that put   *)
(* the icon on a message, the answers of the server and the decryption of  *)
(* what is read back (Receive::decrypt_the_message).  The session is one   *)
(* thread; other threads store and retire keys, a SQL statement at a time. *)
(* A statement may fail (SQLITE_BUSY): it finds or changes nothing.        *)
(*                                                                         *)
(* The server is external: it takes a buffer whose declared lengths are    *)
(* right, and a text only once.  A text is one that encrypt_the_buffer     *)
(* looks at: a sendMessage whose flags are exactly message_addition_flags. *)
(***************************************************************************)
EXTENDS AesTable

CONSTANTS
  Chats,
  MaxTexts,    \* bound: texts written
  MaxKeys,     \* bound: keys stored
  MaxFaults,   \* bound: requests put back in the queue and statements that fail
  Preempt   \* TRUE: keys change between two statements of the session

ASSUME BoundsAssumption ==
  {MaxTexts, MaxKeys, MaxFaults} \subseteq Nat /\ Preempt \in BOOLEAN

Texts == 1 .. MaxTexts
Service == 0   \* in a buffer: a ping, which is not a text

(* The layers of encryption around a text, the outermost first.            *)
Plain == <<>>
NoStore == [chat |-> "none", n |-> 0, key |-> 0]
NoBuffer == [items |-> <<>>, at |-> 0, inPlace |-> FALSE, grown |-> {},
             left |-> "no", promised |-> FALSE, excused |-> FALSE, changed |-> FALSE]
NoLookup == [text |-> Service, keys |-> <<>>, failed |-> FALSE]

VARIABLES
  aes,      \* the rows of the table "aes" of each chat
  store,    \* what another thread is about to INSERT in add_aes_key
  keys,     \* keys formed so far; a key is its number in this order
  req,      \* the request of each text: toSendMap and haveSentMap
  clock,    \* message ids given so far
  resends,  \* requests put back so far
  out,      \* the buffer in encrypt_the_buffer; of its first text, whether
            \* there is a key in use since the buffer was packed, and whether
            \* a lookup failed or came between two statements of add_aes_key;
            \* whether a key was stored since the last lookup of a key
  key,      \* the session keys found for the text at out.at: at most one
  rows,     \* the rows of the table "messages", a set
  server,   \* the texts the server has taken
  answers,  \* results on their way to the client
  told,     \* texts whose result came in a buffer of its own
  look,     \* the decryption in progress
  fails,    \* statements that have failed
  unmarked  \* texts one of whose rows in "messages" was not written

db == <<aes, store, keys>>
sending == <<req, clock, resends, out, key>>
world == <<server, answers, told>>
faults == <<fails, unmarked>>
vars == <<aes, store, keys, req, clock, resends, out, key, rows, server,
          answers, told, look, fails, unmarked>>

Idle == out = NoBuffer /\ look = NoLookup
(* The session's next statement can run.                                   *)
Turn == Preempt \/ store = NoStore

Init ==
  /\ aes = [c \in Chats |-> <<>>] /\ store = NoStore /\ keys = 0
  /\ req = [t \in Texts |-> [chat |-> "none", body |-> Plain, id |-> 0, place |-> "none",
                             forced |-> FALSE, renamed |-> FALSE]]
  /\ clock = 0 /\ resends = 0 /\ out = NoBuffer /\ key = <<>> /\ rows = {}
  /\ server = [t \in Texts |-> <<>>] /\ answers = {} /\ told = {}
  /\ look = NoLookup
  /\ fails = 0 /\ unmarked = {}

(* Whether a statement works: ok is chosen by the environment.             *)
Works(ok) == fails' = fails + (IF ok THEN 0 ELSE 1) /\ resends + fails' <= MaxFaults

In(place) == {t \in Texts : req[t].place = place}

-----------------------------------------------------------------------------
(* Other threads: the worker that forms keys, the end of encryption.       *)

OthersMayRun == Preempt \/ Idle
First == Min({i \in DOMAIN out.items : out.items[i].text # Service})
IsFor(c) == out # NoBuffer /\ req[out.items[First].text].chat = c

(* add_aes_key: first the UPDATE of disable_other_keys, ...                *)
StoreDisable(c, ok) ==
  /\ OthersMayRun /\ store = NoStore /\ keys < MaxKeys
  /\ keys' = keys + 1
  /\ store' = [chat |-> c, n |-> LastKeyN(aes[c]) + 1, key |-> keys + 1]
  /\ aes' = [aes EXCEPT ![c] = IF ok THEN DisableOtherKeys(@) ELSE @]
  /\ Works(ok)
  /\ UNCHANGED <<sending, rows, world, look, unmarked>>

(* ... then the INSERT: two statements and no transaction.                 *)
StoreInsert(ok) ==
  /\ store # NoStore
  /\ aes' = [aes EXCEPT ![store.chat] =
               IF ok THEN Append(@, Row(store.n, store.key, InUse)) ELSE @]
  /\ store' = NoStore
  /\ out' = [out EXCEPT !.changed = @ \/ (key # <<>> /\ ok),
                        !.excused = @ \/ (~ok /\ IsFor(store.chat))]
  /\ Works(ok)
  /\ UNCHANGED <<keys, req, clock, resends, key, rows, world, look, unmarked>>

(* end_encryption.                                                         *)
Retire(c, ok) ==
  /\ OthersMayRun /\ ActiveRow(aes[c]) # <<>>
  /\ aes' = [aes EXCEPT ![c] = IF ok THEN DisableOtherKeys(@) ELSE @]
  /\ out' = [out EXCEPT !.promised = @ /\ ~IsFor(c)]
  /\ Works(ok)
  /\ UNCHANGED <<store, keys, req, clock, resends, key, rows, world, look, unmarked>>

-----------------------------------------------------------------------------
(* The queue of the session.                                               *)

(* A text is written; it waits in toSendMap, which is sorted by request.   *)
Compose(t, c) ==
  /\ Idle /\ In("none") # {} /\ t = Min(In("none"))
  /\ req' = [req EXCEPT ![t].chat = c, ![t].place = "queued"]
  /\ UNCHANGED <<db, clock, resends, out, key, rows, world, look, faults>>

(* resend(): back in the queue, and from now on only inside a container.   *)
Resend(t) ==
  /\ Idle /\ req[t].place = "sent" /\ resends + fails < MaxFaults
  /\ resends' = resends + 1
  /\ req' = [req EXCEPT ![t].place = "queued", ![t].forced = TRUE]
  /\ UNCHANGED <<db, clock, out, key, rows, world, look, faults>>

PingFirst == [text |-> Service, id |-> 0, body |-> Plain]

(* What is queued, in the order of the requests.                           *)
Queued == [i \in 1 .. Cardinality(In("queued")) |->
             CHOOSE t \in In("queued") :
               Cardinality({s \in In("queued") : s < t}) = i - 1]

(* prepareToSend: a request keeps its message id when it is sent again, unless
   the session has to give it a new one (renew: forceNewMsgId).            *)
IdToSend(t, i, renew) == IF req[t].id = 0 \/ renew THEN clock + i ELSE req[t].id

(* One request is sent as it is, if it was not put back in the queue.      *)
Alone(ping) == Len(Queued) = 1 /\ ~ping /\ ~req[Queued[1]].forced

(* What the buffer holds: the ping, if one is due, and copies of requests. *)
Packed(ping, renew) ==
  (IF ping THEN <<PingFirst>> ELSE <<>>)
  \o [i \in DOMAIN Queued |-> [text |-> Queued[i], id |-> IdToSend(Queued[i], i, renew),
                               body |-> req[Queued[i]].body]]

(* tryToSend: all that is queued, behind a ping if one is due.  One request
   alone is encrypted in place, unless it is copied first: into a container,
   for the acks that follow it, behind invokeAfterMsg or invokeWithLayer
   (`copied`).  Several are copied into a container.                       *)
TryToSend(ping, copied, renew) ==
  /\ Idle /\ Turn /\ Queued # <<>>
  /\ copied => Alone(ping)
  /\ renew => \E t \in In("queued") : req[t].id # 0
  /\ out' = [items |-> Packed(ping, renew), at |-> 1,
             inPlace |-> Alone(ping) /\ ~copied, grown |-> {},
             left |-> "no", excused |-> FALSE, changed |-> FALSE,
             promised |-> ActiveRow(aes[req[Queued[1]].chat]) # <<>>]
  /\ req' = [t \in Texts |->
       IF req[t].place # "queued" THEN req[t]
       ELSE LET i == CHOOSE j \in DOMAIN Queued : Queued[j] = t
            IN [req[t] EXCEPT !.place = "sent", !.id = IdToSend(t, i, renew),
                              !.renamed = @ \/ (req[t].id # 0 /\ renew)]]
  /\ clock' = clock + Len(Queued)
  /\ UNCHANGED <<db, resends, key, rows, world, look, faults>>

-----------------------------------------------------------------------------
(* encrypt_the_buffer: the texts of the buffer, from out.at on.            *)

Looking == out # NoBuffer /\ out.left = "no" /\ Turn
PendingBug == {i \in DOMAIN out.items : i > out.at /\ out.items[i].text # Service}

Pending == {i \in DOMAIN out.items : i >= out.at /\ out.items[i].text # Service}
Current == out.items[Min(Pending)]
ChatOf(item) == req[item.text].chat
KeyOf(t) == IF t = <<>> THEN <<>> ELSE <<t[1].key>>

(* No text is left: the loop ends, and the lengths are corrected.          *)
LoopEnds ==
  /\ Looking /\ Pending = {} /\ key = <<>>
  /\ out' = [out EXCEPT !.left = "end"]
  /\ UNCHANGED <<db, req, clock, resends, key, rows, world, look, faults>>

(* A text that is not changed: the function returns there and then.        *)
ReturnUnchanged(ok) ==
  /\ out' = [out EXCEPT !.left = "return",
                        !.excused = @ \/ ~ok \/ store.chat = ChatOf(Current)]
  /\ key' = <<>>

ReadKeyBug(ok) ==
  /\ Looking /\ Pending # {} /\ key = <<>> /\ Works(ok)
  /\ LET found == KeyOf(IF ok THEN ActiveRow(aes[ChatOf(Current)]) ELSE <<>>) IN
       IF found = <<>> THEN ReturnUnchanged(ok)
       ELSE key' = found /\ out' = [out EXCEPT !.changed = FALSE]
  /\ UNCHANGED <<db, req, clock, resends, rows, world, look, unmarked>>

(* fill_options fails on what is already encrypted; else the first SELECT. *)
ReadKey(ok) ==
  /\ Looking /\ Pending # {} /\ key = <<>> /\ Works(ok)
  /\ LET found == KeyOf(IF ok THEN ActiveRow(aes[ChatOf(Current)]) ELSE <<>>) IN
       IF Current.body # Plain \/ found = <<>> THEN ReturnUnchanged(ok)
       ELSE key' = found /\ out' = [out EXCEPT !.changed = FALSE]
  /\ UNCHANGED <<db, req, clock, resends, rows, world, look, unmarked>>

RequestIdBug(items) == items[Len(items)].id

(* The id at a fixed place: of the first message in a container.           *)
RequestId(items) == items[1].id

(* AesKeyManager::encrypt_message, and the options with the number.        *)
Encrypt(body, n, k) == <<[n |-> n, key |-> k, changed |-> out.changed]>> \o body

(* A row under a request, whose message has no id yet.                     *)
AddByRequest(items, n) == rows \cup {[req |-> RequestId(items), text |-> 0, n |-> n]}

(* The second SELECT, the encryption, the row of "messages".  The next text
   looked at is a later one, often not the next: the index of the loop
   advances by the number of bytes, in words, that the text has grown.     *)
ReadNumber(select, insert) ==
  /\ Looking /\ key # <<>> /\ Works(select /\ insert)
  /\ LET active == IF select THEN ActiveRow(aes[ChatOf(Current)]) ELSE <<>>
         i == Min(Pending)
         body == Encrypt(Current.body, active[1].n, key[1])
     IN IF active = <<>>
        THEN ReturnUnchanged(select) /\ insert /\ UNCHANGED <<req, rows, unmarked>>
        ELSE /\ \E next \in i + 1 .. Len(out.items) + 1 :
                  out' = [out EXCEPT !.items[i].body = body, !.at = next,
                                     !.grown = @ \cup {i}]
             /\ req' = IF out.inPlace THEN [req EXCEPT ![Current.text].body = body]
                       ELSE req
             /\ rows' = IF insert THEN AddByRequest(out.items, active[1].n) ELSE rows
             /\ unmarked' = IF insert THEN unmarked ELSE unmarked \cup {Current.text}
             /\ key' = <<>>
  /\ UNCHANGED <<db, clock, resends, world, look>>

(* Only the whole and the first message get what all texts have grown by.  *)
Framed == out.grown \subseteq {1} /\ (out.left = "return" => out.grown = {})

(* sendSecureRequest: the buffer arrives or is lost.                       *)
Transmit(arrives) ==
  LET ItemOf(t) == {i \in DOMAIN out.items : out.items[i].text = t}
      taken == {t \in Texts : ItemOf(t) # {} /\ server[t] = <<>>}
      here == {t \in Texts : ItemOf(t) # {}}
      Body(t) == out.items[Min(ItemOf(t))].body
  IN /\ out.left # "no"
     /\ IF arrives /\ Framed
        THEN /\ server' = [t \in Texts |-> IF t \in taken THEN <<Body(t)>> ELSE server[t]]
             /\ answers' = answers \cup {[id |-> req[t].id, text |-> t] : t \in here}
        ELSE UNCHANGED <<server, answers>>
     /\ out' = NoBuffer
     /\ UNCHANGED <<db, req, clock, resends, key, rows, told, look, faults>>

-----------------------------------------------------------------------------
(* check_id_for_accepted_messages: only a result that is not inside a
   container is looked at (`alone`).                                       *)

(* The rows of a request get the id of its message.                        *)
AddMessageId(id, t) == {IF r.req = id THEN [r EXCEPT !.text = t] ELSE r : r \in rows}
Marked(t) == \E r \in rows : r.text = t

Answer(a, alone, ok) ==
  /\ Idle /\ a \in answers /\ Works(ok) /\ (ok \/ alone)
  /\ answers' = answers \ {a}
  /\ req' = [req EXCEPT ![a.text].place = "answered"]
  /\ rows' = IF alone /\ ok THEN AddMessageId(a.id, a.text) ELSE rows
  /\ unmarked' = IF ok THEN unmarked ELSE unmarked \cup {a.text}
  /\ told' = IF alone THEN told \cup {a.text} ELSE told
  /\ UNCHANGED <<db, clock, resends, out, key, server, look>>

-----------------------------------------------------------------------------
(* decrypt_the_message, for a text of the server's history.                *)

NumberedBug(c, n, status) == FirstRow(aes[c], WithStatus(aes[c], status))

Numbered(c, n, status) ==
  FirstRow(aes[c], {i \in WithStatus(aes[c], status) : aes[c][i].n = n})
Outer(t) == server[t][1][1]
Encrypted(t) == server[t] # <<>> /\ server[t][1] # Plain

LookupOrderBug == <<Outdated, InUse>>
LookupOrder == <<InUse, Outdated>>
Found(t, select) == KeyOf(Numbered(req[t].chat, Outer(t).n, LookupOrder[select]))

(* The first SELECT looks for a key in use, ...                            *)
LookFirst(t, ok) ==
  /\ Idle /\ Turn /\ Encrypted(t) /\ Works(ok)
  /\ look' = [text |-> t, keys |-> IF ok THEN Found(t, 1) ELSE <<>>, failed |-> ~ok]
  /\ UNCHANGED <<db, sending, rows, world, unmarked>>

(* ... the second for one that is out of date, which takes precedence.     *)
FoundInAll == IF Found(look.text, 2) # <<>> THEN Found(look.text, 2) ELSE look.keys

AddByMessage(t, n) == rows \cup {[req |-> 0, text |-> t, n |-> n]}

(* With a key come the icon and, if it is the right one, the text.         *)
LookSecond(select, insert) ==
  /\ look # NoLookup /\ Turn /\ Works(select /\ insert)
  /\ rows' = IF insert /\ (IF select THEN FoundInAll ELSE look.keys) # <<>>
             THEN AddByMessage(look.text, Outer(look.text).n) ELSE rows
  /\ look' = NoLookup
  /\ UNCHANGED <<db, sending, world, unmarked>>

-----------------------------------------------------------------------------
Next ==
  \/ \E ok \in BOOLEAN :
       \/ \E c \in Chats : StoreDisable(c, ok) \/ Retire(c, ok)
       \/ StoreInsert(ok) \/ ReadKey(ok)
       \/ \E t \in Texts : LookFirst(t, ok)
       \/ \E a \in answers, alone \in BOOLEAN : Answer(a, alone, ok)
  \/ \E t \in Texts : (\E c \in Chats : Compose(t, c)) \/ Resend(t)
  \/ \E ping, copied, renew \in BOOLEAN : TryToSend(ping, copied, renew)
  \/ LoopEnds
  \/ \E select, insert \in BOOLEAN : ReadNumber(select, insert) \/ LookSecond(select, insert)
  \/ \E arrives \in BOOLEAN : Transmit(arrives)

Spec == Init /\ [][Next]_vars

-----------------------------------------------------------------------------
(* A text is encrypted once, however often its request is sent: a request
   that was encrypted in place is recognised by its options.               *)
EncryptedOnce == \A t \in Texts : server[t] # <<>> => Len(server[t][1]) <= 1

TextsOut == {i \in DOMAIN out.items : out.items[i].text # Service}
Hidden(item) == item.body # Plain \/ ActiveRow(aes[ChatOf(item)]) = <<>>

(* The first text of a buffer leaves encrypted if its chat has a key in use
   from the moment the buffer is packed: a new key may replace it meanwhile,
   and only a lookup between the two statements that do so, or one that fails,
   lets the text out.                                                      *)
FirstIsEncrypted ==
  out.left # "no" /\ out.promised /\ ~out.excused => out.items[First].body # Plain

(* A text that was sent once and has the icon is encrypted: a row is written
   under the request it belongs to, whatever else is in the buffer.        *)
IconIsTrue == \A t \in Texts :
  Marked(t) /\ server[t] # <<>> /\ ~req[t].forced => Encrypted(t)

(* An encrypted text has the icon once its result has come by itself, unless
   its request was given a new message id or one of its rows not written.  *)
IconComes == \A t \in told :
  Encrypted(t) /\ ~req[t].renamed /\ t \notin unmarked => Marked(t)

(* A text of ours can be decrypted whenever it is read back, though its key
   may be retired between the two lookups.                                 *)
KeyIsFound == look # NoLookup /\ ~look.failed => FoundInAll # <<>>

(* And with the right key: the key and its number, read by two SELECTs, are of
   one row unless a key was stored in between.                             *)
Readable == look # NoLookup /\ ~Outer(look.text).changed =>
  FoundInAll \in {<<>>, <<Outer(look.text).key>>}

(* README: after the keys are formed, all further messages sent to the chat
   are encrypted; so every text of a buffer, not only the first.           *)
AllEncrypted == out.left # "no" => \A i \in TextsOut : Hidden(out.items[i])

===============================================================================
