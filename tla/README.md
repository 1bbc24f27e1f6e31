# Verification of the encryption extension of telegram_client

The repository is Telegram Desktop 5.9.0 with an extension that adds end-to-end
encryption to ordinary private chats, groups and "Saved Messages". The program's
own logic is in `src/Telegram/lib_extension/extension`, and in the few places of
`src/Telegram/SourceFiles` that call it; the rest is the upstream client. This
directory holds TLA+ modules that model that logic, TLC configurations that
check them, and proofs that the TLA+ proof system checks.

Paths below are relative to `extension/` unless they begin with `SourceFiles/`.

## 1. The system

A user opens a chat and clicks a closed lock in the top bar. The clients of all
members then exchange ordinary chat messages whose text begins with a prefix of
numbers (`Message`), form a common Diffie-Hellman value with them, derive an AES
key from it and store it under a number in a local SQLite database. From then
on every text sent to the chat is encrypted when the buffer of the MTProto
session is about to leave, and decrypted when a buffer arrives. A click on the
open lock stops it.

| Component | State it keeps | Operations |
| --- | --- | --- |
| **Worker thread** `commands_manager/chat_key_creation.cpp` | the static `thread`, `cur_stage`, `recieved_message`, `sender_id_str`, the flags `continue_creation`, `stop_creation`, `is_started_flag`, a mutex and a condition variable | `start`, `add_info`, `stop`, the loop `chat_key_creation`, `end_encryption` |
| **Stages** `commands_manager/chat_commands_manager.cpp` | the members, `my_id_pos`, the RSA keys seen, `my_dh_params` | `init_rsa_encryption`, `rsa_send_public_key`, `init_aes_encryption`, `aes_form_session_key`, `end_key_forming`, `db_add_aes`, `end_encryption` |
| **Received messages** `decryption/mtp_buffer_decryption.cpp` | none of its own | `decrypt_the_buffer` (finds the text in an MTProto buffer), `decrypt_the_message` (protocol step or encrypted text), `check_id_for_accepted_messages`, gzip |
| **Sent messages** `encryption/mtp_buffer_encryption.cpp` | none of its own | `encrypt_the_buffer`, `encrypt_the_message` |
| **Key database** `local_storage/keys_db.cpp` | tables `aes`, `rsa`, `chats`, `messages` | one function per statement, or per pair of statements |
| **SQLite wrapper** `local_storage/local_storage.cpp` | the connection and a mutex around single calls | `execute`, `execute_one_int` ... |
| **Chat members** `chat_members/chat_members.cpp` | rows of `chats` | `update_chat_members` |
| **Options** `commands_manager/message_options.cpp` | the fields of `Message` | format and parse the prefix |
| **Diffie-Hellman, AES, RSA** `keys_manager/` | none | wrappers of OpenSSL |
| **Top bar** `SourceFiles/history/view/history_view_top_bar_widget.cpp` | the chat that is open | the two lock buttons, the function that sends a protocol message |
| **Bottom info** `SourceFiles/history/view/history_view_bottom_info.cpp` | none | draws the icon of an encrypted message, looked up in `messages` |
| **MTProto session** `SourceFiles/mtproto/session_private.cpp` | `toSendMap`, `haveSentMap`, ids | `tryToSend`, `resend`, and the two hooks that call the extension |

How they interact:

- The **interface thread** calls `start` and `stop`, and joins the worker in
  `stop`. Messages the worker sends are queued to the interface thread.
- The **MTProto thread** of the session calls the two hooks: encryption before a
  buffer leaves, decryption before a received buffer is parsed. A received
  protocol message ends in `start`, `add_info` or `stop` on that thread.
- The **worker** sleeps on the condition variable, copies the mailbox, runs one
  or more stages and sleeps again. After the last stage it leaves a **detached
  thread** that sleeps 200 ms and calls `stop`.
- All of them read and write the database, whose mutex covers single calls.
- Members interact only through the chat, in the order the server gives.

What makes it hard: the statics are shared by four kinds of threads and only
some accesses hold the mutex; the mailbox has one slot; a message may reach a
client in a form the extension does not look at, or twice; a client may be
restarted in the middle of an exchange, which loses everything but the database;
several members may click; `add_aes_key` is two statements; encryption works in
place on a buffer that the session may copy, keep and send again.

What makes each part correct:

- *Worker thread*: no call terminates the program; no lost wakeup; `stop`
  returns; a message is taken once.
- *Exchange*: a stored key is common to all members, fresh, never lost, never
  taken back into use; the exchange reaches everyone; nobody is left blocked.
- *Messages*: with a key in use no text leaves in the clear, none is encrypted
  twice, the icon tells the truth, and what was sent can be read back.
- *Chats*: the rows, the own id, the key and the messages of an exchange belong to
  the chat and the account they are for; no legal sequence of clicks, changes of
  members and messages ends the program.
- *Options*: what is formed is what is parsed, and what is parsed never throws.
- *Buffers*: the lengths of a buffer stay right, every text in it is looked at, no
  read is outside it, and a text comes back as it was sent.

How much of this the code keeps is what the runs say; sections 3 and 6 name where
it does not.

## 2. The modules

| Module | Models | Extends |
| --- | --- | --- |
| `AesTable` | the rows of table `aes` of one chat: `get_last_key_n`, `disable_other_keys`, `add_aes_key`, the row a SELECT reads first | |
| `GroupKey` | **abstract**: what an exchange promises to the rest of the program | |
| `KeyExchange` | **composition**: N clients, each with worker, stages, dispatch and table, and the network between them | `AesTable`; instantiates `GroupKey` |
| `KeyWorker` | one client's worker thread against its callers, one access to shared state at a time | |
| `Messages` | texts of one user from the session's queue through encryption to the server and back, with other threads changing keys and statements that fail | `AesTable` |
| `MCMessages` | the symmetry set of `Messages` for TLC | `Messages` |
| `Options` | the prefix of a text, what it is parsed as, the lengths of what is encrypted and encoded, as operators | |
| `Wire` | the buffers: positions and lengths on the way out and in | `Options` |
| `MCWire` | the layouts of messages in the run of `Wire` | `Wire` |
| `Chats` | one client with several chats and accounts: table `chats`, own id, the statics of the one exchange, the top bar | |
| `KeyExchangeProofs`, `KeyNumberProofs`, `KeyRoundProofs` | theorems about `KeyExchange`: the single client, the numbers, the values | `KeyExchange`, each the one before it |
| `KeyWorkerProofs` | theorems about `KeyWorker` | `KeyWorker`, `TLAPS` |
| `MessagesProofs`, `TextProofs` | theorems about `Messages` | `Messages`, `TLAPS` |
| `ChatsProofs` | theorems about `Chats` | `Chats`, `TLAPS` |
| `WireProofs` | theorems about `Options` and `Wire` | `Wire`, `TLAPS` |

### KeyExchange

A member is its position `my_id_pos` in the sorted list of members. Its
variables are the statics of `ChatKeyCreation` and `ChatCommandsManager`:
`pc` is the thread (`"off"`, in `cv.wait`, or running stages), `stage` is
`cur_stage`, `mail` and `fresh` the mailbox with `continue_creation`, `stopping`
and `started` the other flags, `cur` the worker's copy `rcv_msg`, `rsa` and `dh`
the results of the stages, `aes` the rows, `join` the caller that is blocked in
`stop()` and what it does when it returns, `timers` the detached threads. `inbox`
is what the server has appended to the chat and the client has not dispatched.

- `PressStart`, `PressStop`: the two lock buttons. `Joined` is the rest of a call
  of `stop()`, after the worker has left: start afresh, announce the end, disable
  the keys.
- `DispatchForming`, `DispatchEnding`, `DispatchOther`: `decrypt_the_message`,
  with its guard `aes_key_n > last`.
- `Take`, then `InitRsa`, `RsaPublish`/`RsaListen`, `AesInitSend`/
  `AesInitReceive`, `FormSolo`/`FormBegin`/`FormFinish`/`FormForward`/`FormIgnore`,
  `EndKeyForming`: the worker's loop. A stage that advances `cur_stage` continues
  in the same iteration (`GoTo`), any other returns to the wait (`StayAt`).
- `Resend`, `Lose`, `Restart`: the environment. A message is *lost* to the
  extension when it comes only inside an `rpc_result`, because
  `decrypt_the_buffer` then leaves `is_recieved` false.

A Diffie-Hellman value is the moduli it was reduced by and, for each private
exponent, how often it was raised to it. Two values are equal when these are; a
number theorist's collisions are not modelled. `Generate` gives out exponents in
order, so two uses of one exponent are visible.

The sender the worker sees (`SendersSeen`) is not the one it copied: line 49 of
`chat_key_creation.cpp` passes the static `sender_id_str` and not `snd_id`. While
a new message is in the mailbox the string may be any of the old one, the new
one, or a torn read of both, which is found in no list (`Unknown`).

Messages are appended to the inboxes at the stage that sends them, although the
program queues them to the interface thread. One client's queue is in order and
nothing reads it, so a later delivery is a later dispatch.

`start()`, `add_info()` and `stop()` are single steps here. `KeyWorker` shows that
this is right as long as `start()` and `stop()` are not called at the same time,
and run `worker_overlap` what happens when they are.

### KeyWorker

`worker` is the static `thread` and where its function is: `"none"` is not
joinable, `"gone"` has ended and was not joined. `at` is where each caller is in
`start`, `add_info` or `stop`; each place is one critical section of `mtx` or one
access without it. `crashed` records an assignment over a joinable `std::thread`
or a second join, both of which end the program. `Sleep` can be taken only when
the predicate of `cv.wait` is false, under the mutex; `WakeUp` is a spurious
wakeup, and no fairness is assumed of it. The stages themselves are `Finish`.

### Messages

`req` is each text's request in `toSendMap` or `haveSentMap`: its chat, the body
as it is stored, its message id. `out` is the buffer inside `encrypt_the_buffer`:
its items in order, the place of the loop, whether the buffer *is* the stored
request (`inPlace`) or a copy of it. `rows` is the table `messages`, `answers` the
results on their way back, `look` the decryption in progress.

- `Compose`, `Resend`, `TryToSend` are the session: one request alone is sent as
  it is stored; several, or one that was put back, are copied into a container;
  acknowledgements and `invokeAfterMsg` copy too; a due ping goes first.
- `ReadKey`, `ReadNumber`: the two SELECTs of `encrypt_the_message`. After the
  second, the text is encrypted and a row is written under the request id found
  at a fixed place of the buffer. `ReturnUnchanged` is the early return of
  `encrypt_the_buffer`, `LoopEnds` its regular end.
- `Transmit` is the send and the server's side of it; `Answer` the result and
  `check_id_for_accepted_messages`, which finds it only outside a container.
- `LookFirst`, `LookSecond` are the two SELECTs of the decryption of what is read
  back.
- `StoreDisable`, `StoreInsert`, `Retire` are the other threads, one statement
  at a time.

Every statement may fail: SQLite answers SQLITE_BUSY, `execute` returns false or the
SELECT finds nothing, and the caller goes on. `Works` is that choice; `MaxFaults`
bounds statements that fail and requests that are put back together.

The body of a text is the sequence of its layers of encryption, each with the
number it carries and the key that was really used (`Encrypt`). The loop index of
`encrypt_the_buffer` is advanced by a number of bytes where words are counted, so
the next text it looks at is *some* later one; `next` is that choice, and `Wire`
computes it.

Four fields and variables are history and steer nothing: `promised` (the chat of the
first text has had a key in use since the buffer was packed), `excused` (a lookup for
it failed, or came between the two statements of `add_aes_key`), `changed` (a key was
stored between the two SELECTs of an encryption) and `unmarked` (a row of a text was
not written). They are what the properties need to name the only ways out.

The server is external: it takes a buffer whose lengths are right (`Framed`) and
each text once. The table `messages` is a set of `rows`: the
program only asks whether there is a row for a message.

### Options and Wire

A text is its lengths and the numbers of its prefix. `FillOptions` is the pattern of
`fill_options`, which knows no minus sign, and the `stoi` behind it;
`GetTextWithOptions` is the `snprintf` into `MAX_TELEGRAM_MESSAGE_LEN` bytes;
`EncryptMessage` and `DecryptMessage` add and take away the initial vector, the
padding and the base64. `NextKeyN` is the addition of one in an int.

`Wire` counts as the source does. A message is so many words of four bytes, a TL
string takes `Words` of them, and `RequestAt` is where a request begins. `out` is the
buffer in `encrypt_the_buffer`: its messages with their declared lengths, the length
of the payload, the index `at`, the growth. `in` is the buffer in
`decrypt_the_buffer`; `server` is the text somebody is going to read; `fault` is an
exception nobody catches, or a read outside the buffer.

- `PackOne`, `PackSeveral` are `tryToSend`; `EncryptText` is a turn of the loop,
  which moves the index by `Advance`; `ReturnEarly`, `ThrowOnSend`, `ReadBefore` and
  `LoopEnds` are its ends; `Transmit` is `addPadding` and the server, which takes what
  is `Framed`.
- `ArriveSome` is a buffer from the server. `Wraps` and `ListsIn` are its forms: as they
  are, or in a `gzip_packed`, a short update, a container of such or the `updates` of the
  account; in a `gzip_packed` in an `rpc_result` a slice of messages, a list of dialogs or
  `updates`. An `rpc_result` that is not packed leaves the function at once.
- A message is its kind, its layout and its text. `Layouts` says what stands between the
  id and the text: whether there is a `from_id`, what the peers are, how many words the
  other fields take. From it follow where the text *is* (`TextAt`, the schema) and where
  the code *looks* for it (`LookedAt`: one of two places, chosen by one word). They are
  the same (`Placed`) for short updates and, in an `rpc_result`, for plain messages of
  users and groups. For the others, and for every message of `updates` outside an
  `rpc_result`, where `CHAT_TYPE` is the constructor and the places are those of short
  updates, it is another word the code takes for the beginning of a text.
- `DecryptText` and `ThrowOnRead` are a turn of the loop where the text is in its place.
  `Misread` is a turn where it is not: the word is any of `OtherValues`; it gives a length
  of one byte or of three (`LenOf`), and the program ends if the string would reach behind
  the buffer, at a read there or at the vector of a negative range. If it does not, what is
  written back takes `WrittenFor` words in place of `Taken`: a length below three is raised,
  the form is that of the length, and the bytes that fill the last word become NULs. The
  index goes on behind it, wherever that is. `Ahead` is what the loop comes to then: in a
  list of dialogs the next message, in any other only one that begins at the index.
- `NoMessage` is the end of the loop; `CorrectLengths` the end of the function,
  `HandleReceived` the session that goes on with the result.

Places of messages (`StartOf`) are counted in the buffer as it came, since everything that
was written lies before the next place that is looked at. Two things are assumed of a word
that is taken for a length: what it gives is not a text of the extension, and a message
is not found by chance in the middle of another.

Which chat has a key, and which key, is left open here (`keyed`): that is `Messages`.

### Chats

`rows` is the table `chats` in the order of insertion, `stored` the keys filed in
`aes` by chat and own id, `ex` the statics of the exchange (chat, own id, sorted
members, own position, stage), `mail` the mailbox. `bar` is the top bar whose two
functions `ChatKeyCreation` holds: none yet, that of the main window, that of a
section, or one that is gone. `posts` are messages queued to the interface thread;
they die with the top bar they are for.

- `ShowMain`, `OpenChat`, `OpenSection`, `CloseSection`, `Load`, `Change`, `Restart`
  are the window, the list of participants and the program itself.
- `SetChatMembersInfo` is `set_chat_members_info` with `update_chat_members` and its
  statements. `PressStart`, `PressStop` and `Receive` call it; `Receive` is
  `decrypt_the_message` with the guard on the number, asked for the own id of
  `get_my_id`.
- `RsaStage` and `AesStage` are a round of the worker, as far as it indexes the
  members, divides by their number, files a key and sends. Which rounds store and
  send in the AES stage is left open: `KeyExchange` has the values.
- `Deliver` is the send on the interface thread, to the chat that is open then.

`fault` is how the program ended: `nobar`, `nochat`, `dangling` (functions of a top bar
that is not there, shows no chat, or is gone), `limit` (`MAX_PEERS_IN_CHAT`), `index`
(a sender outside the list), `throw` (`add_aes_key` without a row of the chat),
`outside` (`chat_members_vec[-1]`), `division`. One statement fails in a behaviour
(`busy`). `about`, `misfiled` and `astray` are history, and so are the fields `by` and
`loaded` of a row. Ids have one digit, so that sorting them as the text they are stored
as is sorting them as numbers.

## 3. The runs

Twelve runs. Eight must pass:

| Run | Instance | Question | Distinct states |
| --- | --- | --- | --- |
| `pair_orderly` | 2 members, 3 clicks on start, 2 on stop, 2 key numbers, patient users | does an exchange the last member asks for reach both, and is `GroupKey` implemented? | 1 157 |
| `pair_faults` | 2 members, 2 starts, 1 stop, a lost message, a restart, impatient users, slow workers | do the safety properties of the exchange survive, does `stop` return? | 134 278 |
| `group_network` | 3 members, 1 start, one message lost, one repeated | are the keys common to three, is `GroupKey` implemented? | 75 138 |
| `solo` | "Saved Messages", 3 starts, 3 stops | does the worker end after every click? | 151 |
| `worker_serial` | 2 sessions, 1 detached thread, 3 calls, no overlap of `start` and `stop` | wakeups, joins, termination, liveness of the calls | 9 854 |
| `messages` | 2 chats, 2 texts, 2 keys, one resend or failing statement, preemption between any two statements | encryption once, nothing in the clear, icons, decryption with the right key | 1 650 764 |
| `wire` | texts of 1, 100, 253, 254, 3023, 3024, 4096, 4097, 4140 and 8192 bytes, up to 3 messages out and 2 in, 5 layouts, 5 words taken for a length | lengths, skipped texts, what is read back, which messages of a list are read, what ends the program | 1 472 092 |
| `chats` | accounts 2 and 4, user 1, group 7, a chat with 2, 6 events, one failing statement | the rows, the own id, where keys and messages go, what ends the program | 851 599 |

Four show where the code differs from what its README or its comments say
(section 6).

**What the properties say.**

*KeyExchange*: `Contributory` (a stored key has one exponent of every member, which
is its part `RaisedOnce`, all under one modulus), `NumbersUnique`, `ActiveIsNewest`,
`NoEmptyParams`, `KeysIndependent` (keys of different numbers share no exponent, as
long as the server repeats nothing; section 6), `OwnContribution`
(even under a wrong sender, a key depends on whoever stores it), `JoinHasThread`,
`KeysKept`, and for liveness `StopReturns`, `WorkerEnds`, `LastMemberRefreshes`.
`ImplementsGroupKey` is the refinement: `table` is the set of numbered keys of each
member, `inUse` the numbers with status 1. It says in one formula that whatever a step
does, the rest of the program sees a common key installed under a number that is new
to the member and means the same key to everybody, a key given up, or nothing.

*KeyWorker*: `NeverCrashes`, `NoMissedWakeup`, `JoinIsHeard`, `TakenOnce`,
`CallsReturn`, `MessagesTaken`.

*Messages*: `EncryptedOnce` (however often a request is sent); `FirstIsEncrypted` (the
first text of a buffer leaves encrypted if its chat has a key in use, but for a lookup
between the two statements of `add_aes_key` and a failing statement); `IconIsTrue` and
`IconComes` (the icon is on the encrypted texts, unless the request was renamed or a
row not written); `KeyIsFound` and `Readable` (what is read back is found, and with the
key it was encrypted with, unless a key was stored between the two SELECTs).

*Wire*: `FramedExactly` (the server can take a buffer exactly if only the text of its
first message changed its length, which is what `Messages` assumes); `NeighbourSkipped`
(the text right behind one that was encrypted leaves in the clear, if no text of the
buffer has more than 4096 bytes: such a text takes the index back);
`Understood` (a message of the exchange is read as it was meant exactly if none of its
numbers is negative); `ReadBack` (a text comes back whole, with NULs if it is shorter
than three bytes, and one that was cut is never shown); `EndsExplained` (each end of
the program with its only causes, among them a word that was taken for a length which
nothing behind the messages could have, and in which buffers and layouts a word is taken
for a length at all); `LengthsAgree` (the declared lengths are those of the buffer,
whatever was taken for a text, except for a `gzip_packed`, and what is true there);
`ListCovered` (which messages of a list are decrypted at all: only those whose text is in
its place; of dialogs all that no misread word made the loop jump over; of a slice the
first and what follows with nothing in between, or where a misread word happens to end).

*Chats*: `FaultsExplained` (each end of the program with the only circumstances under
which it comes, and that the division by the number of members never fails);
`OneRowInUse`, `RosterStored` (what `add_aes_key` needs is there); `OwnIdStays`,
`OwnIdIsOwn` (when the own id is that of the account, and that it never changes even
when it is not); `KeyFiled`, `StaysInChat` (keys and messages go to the chat of the
exchange, unless another chat was opened or another chat's message came in).

Several of these state exactly what the code does where a reader would hope for more:
an equivalence in `FramedExactly`, `Understood`, `LengthsAgree`, `ListCovered` fails if the code gets
better as well as if it gets worse, so that a change of the behaviour is noticed.

**Bounds and why they are enough.** Three members are the smallest group in which
a value passes through a member that is neither its first nor its last, and in
which some members have stored while others have not; two are the smallest in
which an exchange is repeated, refreshed, stopped and restarted within a few
hundred thousand states. Two key numbers are enough for an old key, a new key and
a stale worker between them; `MaxGen` is the number of exponents those exchanges
can ask of one member, or one more, so it does not cut behaviour off in the runs
that check liveness. One lost and one repeated message at any place reach every
stage in every "half done" state. Three calls of the worker's functions allow a
`start`, a message and a `stop` from three different threads, and the detached
thread's call comes on top.

Two texts are enough for a container with two texts, for a resend that joins a text of
another chat, and for two answers that cross; two keys for a change between any two
statements; one fault for every place at which a statement can fail or a request be
put back. Chats are symmetric in `Messages`, and only invariants are checked under that
symmetry. The sizes of `wire` are both sides of every limit of the code: 253 and 254 of
the TL string, 3023 and 3024 of what fits once it is encrypted, 4096 and 4097 of what
gets shorter, and 4140, which takes the index back to a text that was jumped over; three messages are needed for a text behind a skipped one, two for a list
whose second element is reached or not. The words behind a text (`Fields`) are none or
three, so that the next message does or does not begin right behind it. The layouts are
those of a plain message, one in a group and one in a supergroup with its sender, one in
the chat with oneself, and a reply. `OtherValues` has a length below three (1), one that
ends right at the next message or jumps over its beginning (27), one that needs the
long form and has the short one (255, the longest a byte gives), a short text in the long
form (1022 = 3 * 256 + 254) and a length of 70 001 bytes (17 920 254). Thirty words
behind the messages (`Behind`: users, chats, padding) hold some of these strings and not
others. The theorems are for any layouts, values and words behind. Six events of `chats` are an exchange (start,
message) with a change of members, a change of the window, a second account and
one more; more of them repeat these. The groups there are smaller than `MaxPeers`, so
that `limit` is in the model and not reached.

**`Prompt` and `Patient`.** `Prompt` says that the worker is done with a message
before the next for its client is dispatched. It is an assumption, and nothing in the
code guarantees it: every stage that sends sleeps `SENDING_DELAY`, 500 ms, first
(`chat_commands_manager.h:13`; `.cpp:59`, `97`, `140`, `223`, `245`), which is longer than
a message is on its way. What speaks for it is only the form of the exchange, a round in
which one member sends at a time and the next message for a client usually answers
something that was sent after its own stage; two users who click, a message that is
repeated, or a stage whose message is the second that comes to a client break it. Runs
with `Prompt = TRUE` therefore say nothing about the sender that is read too late
(`chat_key_creation.cpp:49`) and a mailbox that is overwritten (`:107`); the theorems that
need it have it as a hypothesis in their statement. `Patient` says that users click only
when they see nothing going on. Both are FALSE in `pair_faults`; `group_network` is
`Prompt`, because `Contributory` is false without it (section 6). The two refinement runs
have `Prompt = TRUE` for the same reason. `KeyWorker` assumes neither.

**Fairness.** `FairSpec` gives weak fairness to what the operating system and the
network do: the worker, the callers that are inside a call, the dispatch of
messages that have arrived. Nobody is forced to click, to lose a message or to
restart, and spurious wakeups need not happen. A step that disables a fair
action is one of the same client, and that one ends in turn; weak fairness was
enough for every liveness property, and no run assumes strong fairness. Runs
that check only safety use `Spec`. `Messages`, `Wire` and `Chats` state no liveness:
whether a text ever leaves depends on the user, the network and the upstream session.

`CHECK_DEADLOCK FALSE` is in every configuration: users may stop clicking and
the bounds run out, and a quiet client is a client that works. What matters about
blocking is stated as `StopReturns`, `CallsReturn` and `JoinHasThread`.

## 4. What is proved

TLC shows a property on an instance; these theorems hold for every number of
members, threads and every bound.

`KeyExchangeProofs` (from `NAssumption` and `BoundsAssumption`):

- `TypeCorrect`: `Spec => []TypeOK`. One lemma per group of actions, on top of
  lemmas on the operators: the maximum of a non-empty finite set of numbers
  exists (`HasLargest`), so `LastKeyN` is a number; `Raise`, `Public`, `Broadcast`,
  `AddAesKey` keep their types.
- `StopFindsThread`: `Spec => []JoinHasThread`. Inductive together with the types.
  The second conjunct (`is_started` tells whether there is a thread) is needed for
  the first: `DispatchForming` asks the flag and not the thread.
- `ParamsPresent`: `Spec => []NoEmptyParams`. A stage is left only for the next,
  the stage before `aesForm` fills the parameters, and `reset` runs only where
  the stage is set back.
- `StoredKeysKept`: `Spec => KeysKept`, from `StepOnTable`: a step leaves the table
  alone, disables rows, or adds one row.
- `EveryKeyIsOwn`: `Spec => []OwnContribution`, from `NoEmptyParams` and
  `RaiseUses`: what is stored was raised to a real exponent of the member.

`KeyWorkerProofs` (from `ThreadsAssumption` and `CallsAssumption`):

- `TypeCorrect`, and `WakeupsArrive`: `Spec => []NoMissedWakeup`, whether or not
  calls overlap. It needs no strengthening but the types: whoever makes the
  predicate of `cv.wait` true is at a place from which it will notify.
- `MessagesTakenInOrder`: `Spec => TakenOnce`, likewise. The invariant `Unread` says
  that a message whose flag is up is later than the one the worker has copied, which
  holds because the flag and the mailbox change in one critical section.
- `SerialCallsAreSafe` and `SerialJoinsAreHeard`: `Serial => (Spec => [] ...)` for
  `NeverCrashes` and `JoinIsHeard`. Neither is inductive. The invariant `SerialInv`
  adds `Alone` (at most one caller is inside `start` or `stop`) and `KnowsThread`
  (what each place of the two functions knows about the thread: it is not
  joinable between the test and `spawn`, and it was told to stop from `notify` to
  the join).

The hypothesis of the last two is what `worker_overlap` refutes.

`KeyNumberProofs` (from the assumptions of `KeyExchange`, and `Prompt` as a
hypothesis):

- `NumbersStayUnique` and `NewestInUse`: `Prompt => (Spec => [] ...)` for
  `NumbersUnique` and `ActiveIsNewest`. The invariant `NumberInv` adds to both that a
  message waiting for the worker, or in its hands, has a number newer than all stored
  ones (`NumberFresh`), so that what is appended is the largest. The guard of
  `decrypt_the_message` establishes this when the message comes; `Prompt` is what
  keeps it true until the row is inserted. Without it a repeated message can be in the
  mailbox when the worker stores the key it is about, and `NumberFresh` is false.

`KeyRoundProofs` (from the same, and `Prompt` or more as a hypothesis):

- `EveryMemberOnce`: `Prompt => (Spec => []RaisedOnce)`, for any number of exchanges
  that are overtaken, stopped, lost, repeated or cut off by a restart. A value meant
  for `t` that comes from `s` has been raised once to one exponent of each member on
  `Arc(t, s)`, the members after `t` up to `s`, and to none of another. `RingInv` says
  this of what is in the inboxes (`InboxRing`), in the mailboxes and in the hands of
  the workers (`LocalRing`). When it is a member's turn, the arc ends just before it,
  and when the value has come home the arc and the member are everybody.
- `OnlyTheLastTwo`: with `Prompt`, for any number of exchanges, nobody but the last two
  members ever stores a key. This is the divergence of run `group_incomplete` for every
  size of a chat: the round of the AES keys ends at the member before the last, because
  the last has stored the key and `decrypt_the_message` drops what comes for it. The
  invariant is `LeadInv`: the last member holds the largest number, no message is more
  than one above it, and a value for a number the last does not hold is meant for it.
- `RefreshedKeysIndependent`: with `Prompt`, for any number of members, exchanges, lost
  messages, stops and restarts, `Spec => []KeysIndependent`. The invariant has to put a
  *bar* between the exponents of two numbers: `bar[k][p]` is how many exponents `p` had
  generated when it first published an RSA key for the number `k`. The exponents of a
  key numbered `k` are at or above the bars of `k` (`Above`), those of a key with a
  smaller number are below them (`Beneath`). No variable keeps the bars, so `ApartInv`
  says that there are some, and `ApartStep` gives those of the next state: the same, or
  with one more set, when a member publishes first (`MarksStep`). What could go wrong is
  that a bar is set while a value of a smaller number is still to be raised by that
  member. `DuesFit` and `InOrder` exclude this: the only such values that are ever
  stored (`Due`) are on the way to the member before the last, and the message at which
  that member publishes for a later number comes from the same inbox, behind them; a
  message that the server repeats would not be, which is why nothing is repeated here.
  A chat with oneself has no round, and `SoloInv` is enough. Before it was proved,
  TLC checked the invariant with the bars as a history variable: all of the 5.5 million
  states of an instance with two members, the 3.0 million of one with three, and a part
  of one with four.
- `OrderlyKeysCommon` and `OrderlyImplements`: under `Orderly`, `Spec => []Contributory`
  and, for more than one member, `Spec => ImplementsGroupKey`, the refinement, for every
  number of members, any number of exchanges and ends of the encryption, and any messages
  lost or repeated. `Orderly` is `Prompt`, no restart, and users who click only when
  nothing is going on (`Patient`) or who click on start once and never on stop. The
  invariant `OrderInv` says that there is at most one exchange at a time. Either nothing
  is going on but the click of one member, whose worker is being stopped or is about to
  ask for a key (`Calm`), or there is an exchange `e` (`RoundOK`) to which every message
  under way, every mailbox and every worker belongs. `e` is a record of the number of
  the key, the exponent of each member, how many have published an RSA key, one after the
  other, and whether the first has sent the parameters; no variable keeps it, and each
  lemma gives that of the next state. `PacketOK` says what a message is evidence of: a
  value exists only when all members know each other's keys, one meant for `t` only when
  all members after `t` have stored, the end only when all have. With it a value is
  exactly `Part(e.f, Arc(t, s))` and what is stored is `Part(e.f, Pos)`, the same for
  all. An exchange that breaks off because a message was lost leaves workers in any
  stage; `ClosedOK` says that nobody who takes part in the next uses what is left.
  In a chat with one member `Contributory` only needs that a key of `create_key_solo` has
  no modulus (`ModInv`).

The hypothesis `Prompt` is needed: section 6 has the counterexample without it. So are
patient users and the absence of restarts: section 6 has a counterexample for each.
TLC checked `OrderInv` on five instances before it was proved (two members with three
clicks, lost and repeated messages; three with two exchanges; impatient users with one
click), of up to 104 557 states.

`MessagesProofs` and `TextProofs` (from `BoundsAssumption`, for any set of chats):

- `OneLayer`: `Spec => []EncryptedOnce`. `SingleInv` says that requests, items and what
  the server has carry at most one layer, and (`KeyOK`) that between the two lookups
  the text at the index has none.
- `FirstLeavesEncrypted`: `Spec => []FirstIsEncrypted`. `FirstOK` says that as long as
  the first text is not encrypted the index has not passed it, and that its chat has a
  row in use or one that is about to be inserted; `DbInv` that the row to be inserted
  is newer than all of its chat. That the first text of the buffer is the first of the
  queue needs `RankExists`: among finitely many numbers one has k below it.
- `KeyStaysFindable` and `RightKeyIsFound`: `Spec => []KeyIsFound`, `[]Readable`.
  `Named` says of every encrypted body, in a request, a buffer or at the server, that
  its number is that of a row of its chat, whose key it is unless a key was stored
  between the two SELECTs; rows only grow (`Grows`), so it stays true. `LookOK` says
  what the first lookup of a decryption leaves for the second.
- `IconTellsTheTruth` and `IconArrives`: `Spec => []IconIsTrue`, `[]IconComes`. `IconInv`
  follows an id from the session through the buffer, the server's result and the row.
  `IdsOK` and `Owner`: an id is given to one text and never again; `AnswersOK`, `RowsOK`:
  results and rows carry the id of the text they are for, so `check_id_for_accepted_
  messages` marks no other. `RowIsTrue`: a row under a text that was sent once is there
  because the text is encrypted, now or when the buffer leaves; for this `HeadOK` says
  that the loop does not come past an unencrypted text at the head, whose id is the one
  that rows are written under. `RowComes`: an encrypted text has its row, unless it was
  renamed, the statement failed, or the text stands behind the first and has grown, in
  which case the server cannot read the buffer.

`ChatsProofs` (from `IdsAssumption`):

- `RowsHaveColumns`, `OwnIdFixed`: `Spec => OwnIdStays`, and `RowsInUse`:
  `Spec => []OneRowInUse`. These from `StepOnRows`: a step leaves the table alone,
  disables rows of one own position in one chat, or adds one row.
- `EndsAreExplained`, `RosterIsStored`, `OwnIdOfAccount`, `KeysAreFiled`,
  `MessagesStay`: the other five invariants of the run, all from `ChatsInv`. It says
  who can be in a chat and what the window shows (`People`), that at the own position
  of a row there is the id of whoever wrote it (`RowsOfAccounts`), what a running
  exchange knows (`ExchangeOK`: it is about the chat that was open, its list is the
  sorted list of that chat's members as long as nobody joins or leaves, and the stage
  that divides by their number is reached only with members), that a message in the
  mailbox comes from a position in that list (`WaitsInList`), and where what is posted
  goes (`PostsOK`). `SortedHas` shows that the sort loses nobody: the member with k
  smaller ids is at place k + 1.

`WireProofs`, with two theorems about `Options` and seven about `Wire` (the latter from
`WireAssumption`), for texts of every length and any number of messages:

- `KeptExactly` (an encrypted text fits into its message exactly if it has at most 3023
  bytes) and `CutIsNoticed` (one that was cut makes `decrypt_message` throw), for every
  length and every number of a key.
- `LengthsAreFramed`, `NeighbourIsSkipped`, `StartIsUnderstood`, `TextsReadBack`,
  `EndsHaveCauses`, `LengthsAreTrue`, `ListsAreCovered`: all seven invariants of the
  run, from one invariant, `WireInv`. On the way out (`OutOK`) each text is what was
  written or the encryption of it, the declared lengths are those of the texts before
  they grew, what the loop has added up is the growth of all of them (a prefix sum over
  the messages), and, as long as no text shrinks, the index is behind every text that
  was changed. On the way in, `InOK` says of each message that it is as it came, was
  decrypted, or holds a word that was taken for a length, and then that its text was not
  in its place (`MessageOK`). `Walk` says where the loop has been: of a list of dialogs
  each message before the index was looked at or jumped over (`InOrder`, `AllSeen`), of
  any other the index is where the message looked at last ended (`OneAfterAnother`), so
  that a chain of such ends leads to it. `InLengths` says that the growth added up
  is the difference of all messages to what came, and that the payload, the first length
  and that of the packed list follow from it. The last two hold until an exception
  (`Together`). What a misread word does to the index is in the step lemmas `ReadOfAll` and
  `ReadOfSome`, and that a string which fits into the words behind the messages cannot
  leave the buffer in `BehindBuffer`.

That a list has sums and that they change by what one element changes by, that a set
of naturals has a least element and that a sort loses nobody are inductions. They are
proved from the well-foundedness of the naturals (`WFMin`), by taking the least
counterexample. What a recursive definition computes for every input is not proved.

Only model-checked: everything temporal beyond safety (`LastMemberRefreshes`,
`StopReturns`, `WorkerEnds`, `CallsReturn`, `MessagesTaken`: fairness is out of the
prover's reach); and `ActiveIsNewest` and `KeysIndependent` where workers are slow
(`Prompt = FALSE`), which `pair_faults` checks for two members. The assumptions of
constants are those of the modules that declare them, and TLC evaluates them in every
run.

## 5. What is not modelled

- *RSA.* The public keys are exchanged, stored nowhere and used to encrypt
  nothing; `rsa` records only who was heard. `db_add_rsa` has no caller.
- *Arithmetic* of OpenSSL, the strength of keys. Of AES, padding and base64 there are
  the lengths; of gzip, that the packed list has another length.
- *The values of an exchange with several chats.* `KeyExchange` has one chat and the
  values, `Chats` has several chats and no values.
- *Texts that the hook does not look at.* Only a `sendMessage` whose flags are
  exactly `message_addition_flags` is encrypted; a reply or a formatted text never
  is.
- *The kind of chat in table `messages`.* Ids of messages of a channel and of other
  chats are numbered apart and can collide.
- *SQL beyond a statement that fails*: errors of opening, preparing and binding, which
  throw; the dereference of a missing own id at `mtp_buffer_encryption.cpp:217`.
- *Buffers with other contents.* In `Wire` a list of dialogs, a slice or `updates` holds
  messages and words that belong to none. Media, service messages and the `Dialog`s of a
  list are such words; that one of them looks like the constructor of a message is not
  modelled, nor that a word taken for a text spells a text of the extension. A misread word
  changes what the client shows of that message, or makes it unreadable; only its
  lengths are modelled.
- *The characters of a text.* That text of the user can look like a prefix is in
  `Wire` (`Lookalike`); what it says is not.
- The *upstream client*: API, data, history, dialogs, storage, calls, media, export,
  interface, and the libraries under `lib_*` and `ThirdParty`. These make up nearly
  all of the 1.6 million lines of the repository; the logic this project is
  about is a few thousand lines in `extension/` and four places of
  `SourceFiles/`. Upstream code appears where the extension meets it: the queue of
  the session, its containers and resends, the top bar, the icon. Modelling more of
  the client would say nothing about the extension, and the share of the repository's
  lines that the modules stand for stays small for that reason.

## 6. Where the code and its documentation part

With a run of their own:

- `group_incomplete`: with three members, a member that stores the key early
  ignores the rest of the round (`aes_key_n > last`), and the first never gets it
  (`OnlyTheLastTwo` proves it for every size of a chat).
- `pair_stop_unheard`: the message that ends the encryption has number 0 and is
  dropped by the same guard. `StopReachesAll` says that a key that is in use when its
  member is told of the end is given up; in the counterexample it never is.
- `worker_overlap`: `start` and `stop` from two threads assign over, or join twice,
  one `std::thread`.
- `messages_queue`: in a container, the second text leaves in the clear.

Each is a counterexample of a property that quotes the README, a comment or a
declaration of the repository; `PROJECT.json` names the lines.

Stated as the exception of a property that passes, so that nothing else happens:

- The worker uses the static sender of a later message (`chat_key_creation.cpp:49`).
  In the instance of `group_network` with `Prompt = FALSE` TLC finds `Contributory`
  violated: a member stores a key that lacks somebody's exponent.
- A value that the server repeats after a later exchange has begun is raised to the
  exponent of that exchange, so that keys of two numbers share exponents
  (`used["resent"] = 0` in `KeysIndependent`: without it TLC finds a violation for two
  members, three clicks and two repeats, even with `Prompt`).
- Two users who both ask for a key again before the first round is over are answered
  twice by member 0, which makes new parameters each time, while member 1 keeps those of
  the first answer: member 0 stores a key that was reduced by two moduli. In an instance
  of two members with three clicks, one key number and two exponents each, `Prompt` and
  impatient users, TLC finds `Contributory` violated after 43 steps; one click on start
  and two on stop are enough as well. The runs that check it have patient users or one
  click, as do `OrderlyKeysCommon` and `OrderlyImplements`.
- Two clients that restart one after the other in the middle of an exchange take part in
  it again from the messages that are still on the way, the first member with new
  parameters: for two patient members and one click TLC finds a key stored that was
  reduced by two moduli, after 32 steps.
- A key stored between the two SELECTs of `encrypt_the_message` gives a text encrypted
  with one key and numbered as another (`changed` in `Readable`).
- Between the UPDATE and the INSERT of `add_aes_key` a chat has no key, and a text sent
  then leaves in the clear (`excused` in `FirstIsEncrypted`).
- A request that is given a new message id never gets its icon (`renamed` in
  `IconComes`).
- The growth of all texts is added to the length of the first message; the index
  advances by bytes where words are counted, over the next text, or, for a text of
  more than 4096 bytes, back to a text that was passed or to before the buffer
  (`FramedExactly`, `NeighbourSkipped`, `EndsExplained`).
- The place of a received text is guessed from one word. In messages of supergroups,
  replies, forwards, and in every message of an `mtpc_updates` that comes outside an
  `rpc_result`, the code takes another word for a length: it reads behind the buffer, or
  changes that word, or jumps over messages of a list of dialogs (`EndsExplained`,
  `LengthsAgree`, `ListCovered`).
- Of a slice only the first message, and what follows without a field in between, is
  looked into; of a container that is not packed only the first (`ListCovered`).
- The payload of an unpacked `gzip_packed` is corrected from the packed length to the
  unpacked one, though the list is packed again (`LengthsAgree`).
- A text of 3024 bytes or more cannot be read by anybody; a number too large for an
  int in a text throws (`ReadBack`, `EndsExplained`).
- The own id is that of the first row of `chats`, whoever inserted it (`OwnIdIsOwn`).
- A message of a chat that is not open forms a key for the chat that is (`KeyFiled`),
  and the functions of a top bar may be called before it shows a chat or after it is
  gone (`FaultsExplained`).

## 7. Plan

In order; a new question takes the place of a run that it subsumes, so that the
runs stay few.

1. `KeyExchange`: what `GroupKey` has to promise instead when users do not wait for the
   end of an exchange, and when clients are restarted.
2. Composition of `Chats` and `KeyExchange`: two chats with their values against the
   one set of statics.
3. `Messages`: ids of messages per kind of chat; rows written for one account and
   looked up for another, with the own id of `Chats`; three texts in a queue.
4. Proofs: whether `KeysIndependent` and `ActiveIsNewest`, which `pair_faults` checks for
   two slow members, hold without `Prompt` for more.
