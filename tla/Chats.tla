-------------------------------- MODULE Chats --------------------------------
(***************************************************************************)
(* One client with several chats and accounts: the table "chats"           *)
(* (chat_members.cpp, keys_db.cpp), the statics of the one exchange that   *)
(* can run (chat_key_creation.cpp, chat_commands_manager.cpp) and the top  *)
(* bar whose two functions tell the exchange which chat it is about and    *)
(* send its messages (history_view_top_bar_widget.cpp).                    *)
(*                                                                         *)
(* The stages of an exchange are those of KeyExchange; here they are taken *)
(* as far as they touch the list of members, and whether a message makes a *)
(* member send or store something is left open.  External: who is in a     *)
(* group, and what the window shows.                                       *)
(***************************************************************************)
EXTENDS Integers, Sequences, FiniteSetsExt

CONSTANTS
  Accounts,   \* users logged in on this client
  Others,     \* other users
  Groups,
  Dialogs,    \* users this client chats with, itself included
  MaxPeers,   \* MAX_PEERS_IN_CHAT
  MaxKeys,    \* bound: numbers of keys
  MaxEvents   \* bound: what the users and the other members do

Users == Accounts \cup Others
Chats == Groups \cup Dialogs
NoChat == 0

ASSUME IdsAssumption ==
  /\ Users \cup Groups \subseteq Nat \ {NoChat} /\ Users \cap Groups = {}
  /\ IsFiniteSet(Users) /\ Accounts # {} /\ Accounts \cap Others = {}
  /\ Dialogs \subseteq Users
  /\ {MaxPeers, MaxKeys, MaxEvents} \subseteq Nat

VARIABLES
  bar,      \* the top bar whose functions ChatKeyCreation holds
  account, open,   \* what the window shows
  members,  \* who is in each group; `seen`: whom the client has loaded
  seen,
  rows,     \* the table "chats", in the order of insertion; `by` and `loaded`
            \* record who inserted a row, and whether all members were loaded
  stored,   \* keys in the table "aes": chat, my_id and number
  ex,       \* the statics of the exchange
  running,  \* is_started_flag
  mail,     \* the message the worker has not taken: at most one
  posts,    \* messages queued to the interface thread
  fault,    \* how the program ended
  (* History. *)
  about,    \* of the exchange: the chat that was open when it started, whether
            \* it heard a message of another chat, whether another chat was
            \* opened since, whether the list of members is out of date
  misfiled, \* a key formed by the chat that was open is stored for another
  astray,   \* a message was sent to another chat, with none opened since
  busy,     \* a statement has failed: at most one does
  events    \* how often the users or the other members did something

window == <<bar, account, open>>
people == <<members, seen>>
exchange == <<ex, running, mail, about>>
seenSoFar == <<misfiled, astray, busy>>
vars == <<window, people, rows, stored, exchange, posts, fault, seenSoFar, events>>

NoExchange == [chat |-> NoChat, my |-> 0, ids |-> <<>>, pos |-> -1, stage |-> "rsa"]
Nothing == [open |-> NoChat, stray |-> FALSE, moved |-> FALSE, off |-> FALSE]

Init ==
  /\ bar = "none" /\ account \in Accounts /\ open = NoChat
  /\ members = [g \in Groups |-> Users] /\ seen = [g \in Groups |-> {}]
  /\ rows = <<>> /\ stored = {}
  /\ ex = NoExchange /\ running = FALSE /\ mail = <<>> /\ about = Nothing
  /\ posts = {} /\ fault = "none"
  /\ misfiled = FALSE /\ astray = FALSE /\ busy = FALSE /\ events = 0

Alive == fault = "none"
Event == Alive /\ events < MaxEvents /\ events' = events + 1

-----------------------------------------------------------------------------
(* The window.  Every new top bar replaces the functions that the exchange
   holds; they keep a pointer to it.                                       *)

(* The main window is built: after a start, or when the account changes.   *)
ShowMain(a) ==
  /\ Alive
  /\ \/ bar = "none" /\ UNCHANGED events
     \/ a # account /\ bar # "none" /\ Event
  /\ bar' = "main" /\ account' = a /\ open' = NoChat /\ posts' = {}
  /\ seen' = [g \in Groups |-> {}]
  /\ about' = [about EXCEPT !.moved = running, !.off = running]
  /\ UNCHANGED <<members, rows, stored, ex, running, mail, fault, seenSoFar>>

(* Another chat closes a section, and the top bar of the section with it; what
   the interface thread was to do for that top bar is dropped.             *)
CloseBar == IF bar = "section" THEN "gone" ELSE bar
KeptPosts == {p \in posts : p.bar # "section"}

OpenChat(c) ==
  /\ Event /\ bar # "none" /\ c # open
  /\ c \in Groups => account \in members[c]
  /\ open' = c /\ bar' = CloseBar /\ posts' = {[p EXCEPT !.moved = TRUE] : p \in KeptPosts}
  /\ about' = [about EXCEPT !.moved = running]
  /\ UNCHANGED <<account, people, rows, stored, ex, running, mail, fault, seenSoFar>>

(* Scheduled, pinned or saved messages, replies: a section of its own.     *)
OpenSection ==
  /\ Event /\ open # NoChat /\ bar # "section"
  /\ bar' = "section"
  /\ UNCHANGED <<account, open, people, rows, stored, exchange, posts, fault, seenSoFar>>

CloseSection ==
  /\ Event /\ bar = "section"
  /\ bar' = CloseBar /\ posts' = KeptPosts
  /\ UNCHANGED <<account, open, people, rows, stored, exchange, fault, seenSoFar>>

(* The participants of a group come later than the group is shown.         *)
Load(g) ==
  /\ Alive /\ seen[g] # members[g]
  /\ seen' = [seen EXCEPT ![g] = members[g]]
  /\ UNCHANGED <<window, members, rows, stored, exchange, posts, fault, seenSoFar, events>>

(* Somebody joins or leaves.                                               *)
Change(g, u) ==
  /\ Event
  /\ members' = [members EXCEPT ![g] = IF u \in @ THEN @ \ {u} ELSE @ \cup {u}]
  /\ about' = [about EXCEPT !.off = running]
  /\ UNCHANGED <<window, seen, rows, stored, ex, running, mail, posts, fault, seenSoFar>>

(* The program ends and is started again: the database stays.              *)
Restart ==
  /\ Event /\ bar # "none"
  /\ bar' = "none" /\ open' = NoChat /\ seen' = [g \in Groups |-> {}]
  /\ ex' = NoExchange /\ running' = FALSE /\ mail' = <<>> /\ about' = Nothing /\ posts' = {}
  /\ UNCHANGED <<account, members, rows, stored, fault, seenSoFar>>

-----------------------------------------------------------------------------
(* The table "chats".                                                      *)

DisableOtherRowsBug(chat, pos) ==
  [i \in DOMAIN rows |-> IF rows[i].chat = chat /\ rows[i].pos # pos
                         THEN [rows[i] EXCEPT !.active = FALSE] ELSE rows[i]]

(* disable_other_keys: the rows of the chat with the same own position.    *)
DisableOtherRows(chat, pos) ==
  [i \in DOMAIN rows |-> IF rows[i].chat = chat /\ rows[i].pos = pos
                         THEN [rows[i] EXCEPT !.active = FALSE] ELSE rows[i]]

PeersOfBug(chat) == IF chat \in Groups THEN seen[chat] ELSE {chat}

(* get_chat_peers_info: the members of the chat that is open.              *)
PeersOf(chat) == IF chat \in Groups THEN seen[chat] ELSE {account, chat}
Loaded == open \in Groups => seen[open] = members[open]

(* add_chat_params: `fail` is the statement that fails (SQLITE_BUSY), if one
   does.  It changes nothing, or finds nothing.                            *)
AddChatParams(chat, pos, ids, fail) ==
  LET kept == IF fail = "update" THEN rows ELSE DisableOtherRows(chat, pos)
  IN IF fail = "insert" THEN kept
     ELSE Append(kept, [chat |-> chat, pos |-> pos, ids |-> ids, active |-> TRUE,
                        by |-> account, loaded |-> Loaded])

(* get_active_param_text: of the first row in use.                         *)
ActivePlaces(chat) == {i \in DOMAIN rows : rows[i].chat = chat /\ rows[i].active}
StoredIds(chat, fail) ==
  IF fail = "select" \/ ActivePlaces(chat) = {} THEN <<>>
  ELSE <<rows[Min(ActivePlaces(chat))].ids>>

PositionBug(ids, u) == 0

Position(ids, u) ==
  IF \E i \in DOMAIN ids : ids[i] = u THEN (CHOOSE i \in DOMAIN ids : ids[i] = u) - 1 ELSE -1

UpdateChatMembersBug(chat, ids, pos, fail) ==
  IF StoredIds(chat, fail) # <<>> THEN rows ELSE AddChatParams(chat, pos, ids, fail)

UpdateChatMembers(chat, ids, pos, fail) ==
  IF StoredIds(chat, fail) = <<ids>> THEN rows ELSE AddChatParams(chat, pos, ids, fail)

GetMyIdBug ==
  LET inUse == {i \in DOMAIN rows : rows[i].active}
      r == rows[Min(inUse)]
  IN IF inUse = {} THEN <<>> ELSE IF r.pos = -1 THEN <<NoChat>> ELSE <<r.ids[r.pos + 1]>>

(* get_my_id: from the first row there is.  Nobody's id stands for the read at
   index -1.                                                               *)
GetMyId == IF rows = <<>> THEN <<>>
           ELSE IF rows[1].pos = -1 THEN <<NoChat>> ELSE <<rows[1].ids[rows[1].pos + 1]>>

LastKeyN(chat, my) == Max({0} \cup {k.n : k \in {k \in stored : k.chat = chat /\ k.my = my}})

-----------------------------------------------------------------------------
(* The exchange.                                                           *)

SortedIds(S) ==
  [i \in 1 .. Cardinality(S) |-> CHOOSE u \in S : Cardinality({v \in S : v < u}) = i - 1]

(* Why the functions of the top bar cannot be called.                      *)
Broken == CASE bar = "none" -> "nobar" [] bar = "gone" -> "dangling"
            [] bar \in {"main", "section"} -> IF open = NoChat THEN "nochat" ELSE "none"

Fails == {"none"} \cup (IF busy THEN {} ELSE {"my_id", "select", "update", "insert"})

SetChatMembersInfoBug(stage, fail) ==
  LET ids == SortedIds(PeersOf(open))
      pos == Position(ids, account)
  IN IF Broken # "none"
     THEN fault' = Broken /\ UNCHANGED <<ex, rows>>
     ELSE /\ ex' = IF ex.ids # <<>> THEN [ex EXCEPT !.stage = stage]
                  ELSE [chat |-> open, my |-> account, ids |-> ids, pos |-> pos, stage |-> stage]
          /\ rows' = UpdateChatMembers(open, ids, pos, fail)
          /\ fault' = IF Len(ids) >= MaxPeers THEN "limit" ELSE fault

(* set_chat_members_info at a stage, or the end of the program in it.      *)
SetChatMembersInfo(stage, fail) ==
  LET ids == SortedIds(PeersOf(open))
      pos == Position(ids, account)
  IN IF Broken # "none"
     THEN fault' = Broken /\ UNCHANGED <<ex, rows>>
     ELSE /\ ex' = [chat |-> open, my |-> account, ids |-> ids, pos |-> pos, stage |-> stage]
          /\ rows' = UpdateChatMembers(open, ids, pos, fail)
          /\ fault' = IF Len(ids) >= MaxPeers THEN "limit" ELSE fault

(* start(), and the message the worker is given.                           *)
Start(stage, message, fail) ==
  /\ SetChatMembersInfo(stage, fail)
  /\ running' = TRUE /\ mail' = <<message>>
  /\ about' = [Nothing EXCEPT !.open = open, !.off = ~Loaded]

Message(chat, kind, pos, n) == [chat |-> chat, kind |-> kind, pos |-> pos, n |-> n]

(* A click on the closed lock.                                             *)
PressStart(fail) ==
  /\ Event /\ bar # "none" /\ open # NoChat
  /\ LET n == LastKeyN(open, account) + 1
     IN n <= MaxKeys /\ Start("init", Message(open, "init", 0, n), fail)
  /\ busy' = (busy \/ fail # "none")
  /\ UNCHANGED <<window, people, stored, posts, misfiled, astray>>

(* A click on the open lock: stop(), then end_encryption(true).            *)
PressStop(fail) ==
  /\ Event /\ bar # "none" /\ open # NoChat
  /\ SetChatMembersInfo(ex.stage, fail)
  /\ running' = FALSE /\ mail' = <<>> /\ about' = Nothing
  /\ posts' = IF fault' = "none"
              THEN posts \cup {[bar |-> bar, chat |-> ex'.chat, moved |-> FALSE]} ELSE posts
  /\ busy' = (busy \/ fail # "none")
  /\ UNCHANGED <<window, people, stored, misfiled, astray>>

(* decrypt_the_message: a message of the exchange of a chat, from or for the
   member at a position of that chat (which nobody reads in the first).    *)
Messages ==
  {Message(c, "init", 0, n) : c \in Chats, n \in 1 .. MaxKeys}
  \cup {Message(c, "form", pos, n) :
          c \in Chats, pos \in 0 .. Cardinality(Users) - 1, n \in 1 .. MaxKeys}
Size(chat) == IF chat \in Groups THEN Cardinality(members[chat])
              ELSE Cardinality({account, chat})

(* A message is acted upon if its key is newer than those of the own id; if
   get_my_id finds nothing, every key is.                                  *)
Newer(m, fail) ==
  IF GetMyId = <<>> \/ m.n > LastKeyN(m.chat, GetMyId[1])
  THEN fail # "my_id" ELSE fail = "my_id"

Receive(m, fail) ==
  /\ Event /\ m.pos < Size(m.chat)
  /\ m.chat \in Groups => account \in members[m.chat]
  /\ Newer(m, fail)
  /\ IF running
     THEN mail' = <<m>> /\ fail \in {"none", "my_id"} /\ UNCHANGED <<ex, rows, running, about, fault>>
     ELSE Start("rsa", m, fail)
  /\ busy' = (busy \/ fail # "none")
  /\ UNCHANGED <<window, people, stored, posts, misfiled, astray>>

End(with) ==
  /\ fault' = with
  /\ UNCHANGED <<window, people, rows, stored, exchange, posts, seenSoFar, events>>

(* The read of get_my_id in front of the first id may end the program.     *)
ReadMyIdOutside == Alive /\ GetMyId = <<NoChat>> /\ End("outside")

-----------------------------------------------------------------------------
(* The worker.                                                             *)

MembersLen == Len(ex.ids)
Working == Alive /\ running /\ mail # <<>>

(* rsa_send_public_key: the place of the sender among the keys.            *)
IsIndex(m) == m.kind = "init" \/ m.pos < MembersLen

(* The sender's turn is before the own one, and the RSA stage ends with the
   key of the last member, own or heard.                                   *)
MyTurn(m) == ex.pos = IF m.kind = "init" THEN 0 ELSE m.pos + 1
RsaEnds(m) == IF MyTurn(m) THEN ex.pos = MembersLen - 1
              ELSE m.kind = "form" /\ m.pos = MembersLen - 1

NewKeyBug(m) == [chat |-> open, my |-> ex.my, n |-> m.n]

NewKey(m) == [chat |-> ex.chat, my |-> ex.my, n |-> m.n]

(* A round of the worker with message m.  db_add_aes throws without a row of
   the chat in use or if its SELECT fails; if its INSERT fails nothing happens.
   The next message is sent after that, by functions that may be those of a
   top bar that is gone.                                                   *)
Round(m, stage, stores, sends, fail) ==
  LET throws == stores /\ (fail = "select" \/ ActivePlaces(ex.chat) = {})
      stray == about.stray \/ m.chat # about.open
  IN /\ mail' = <<>>
     /\ ex' = [ex EXCEPT !.stage = stage] /\ about' = [about EXCEPT !.stray = stray]
     /\ stored' = IF stores /\ ~throws /\ fail # "insert"
                  THEN stored \cup {NewKey(m)} ELSE stored
     /\ fault' = IF throws THEN "throw"
                 ELSE IF sends /\ bar = "gone" THEN "dangling" ELSE "none"
     /\ posts' = IF sends /\ fault' = "none"
                 THEN posts \cup {[bar |-> bar, chat |-> ex.chat, moved |-> about.moved]}
                 ELSE posts
     /\ misfiled' = (misfiled \/ (stores /\ ~stray /\ NewKey(m).chat # about.open))
     /\ busy' = (busy \/ fail # "none")
     /\ UNCHANGED <<window, people, rows, running, astray, events>>

(* From INIT_RSA_ENCRYPTION or RSA_SEND_PUBLIC_KEY on, to aes_form_session_key
   where the first member has a key of its own.                            *)
RsaStage(fail) ==
  LET m == mail[1]
      ends == RsaEnds(m)
      solo == ends /\ MembersLen = 1
  IN /\ Working /\ ex.stage # "aes" /\ (fail = "none" \/ solo)
     /\ IF IsIndex(m)
        THEN Round(m, IF ends THEN "aes" ELSE "rsa", solo,
                   ex.stage = "init" \/ MyTurn(m) \/ (ends /\ ex.pos = 0), fail)
        ELSE End("index")

(* aes_form_session_key: the place of the sender modulo members_len.       *)
AesStage(stores, sends, fail) ==
  /\ Working /\ ex.stage = "aes" /\ (fail = "none" \/ stores)
  /\ IF MembersLen = 0 THEN End("division") ELSE Round(mail[1], "aes", stores, sends, fail)

(* The worker is stopped: end_key_forming, or the detached thread.         *)
Stop ==
  /\ Alive /\ running
  /\ running' = FALSE /\ mail' = <<>> /\ about' = Nothing
  /\ UNCHANGED <<window, people, rows, stored, ex, posts, fault, seenSoFar, events>>

(* send_api_message_wrapper, when its turn comes on the interface thread.  *)
Deliver(p) ==
  /\ Alive /\ p \in posts
  /\ posts' = posts \ {p}
  /\ astray' = (astray \/ (~p.moved /\ p.chat # open))
  /\ UNCHANGED <<window, people, rows, stored, exchange, fault, misfiled, busy, events>>

-----------------------------------------------------------------------------
Next ==
  \/ \E a \in Accounts : ShowMain(a)
  \/ \E c \in Chats : OpenChat(c)
  \/ OpenSection \/ CloseSection \/ Restart
  \/ \E g \in Groups : Load(g) \/ \E u \in Others : Change(g, u)
  \/ \E fail \in Fails : PressStart(fail) \/ PressStop(fail)
  \/ \E m \in Messages, fail \in Fails : Receive(m, fail)
  \/ ReadMyIdOutside
  \/ \E fail \in Fails \cap {"none", "select", "insert"} :
       RsaStage(fail) \/ \E stores, sends \in BOOLEAN : AesStage(stores, sends, fail)
  \/ Stop
  \/ \E p \in posts : Deliver(p)

Spec == Init /\ [][Next]_vars

-----------------------------------------------------------------------------
(* What ends the program, other than a start before a chat is shown, a chat
   with too many members and a top bar that is gone: an exchange works on the
   list of members it was started with, so the place of a sender can only be
   missing from it when the message is of another chat or the list is out of
   date; a key can be stored for every exchange; members_len is never 0 where
   one divides by it; the own id can be read, unless the members of a group
   were not loaded when the first row of all was written.                  *)
FaultsExplained ==
  /\ fault = "index" => about.off \/ about.stray \/ mail[1].chat # about.open
  /\ fault = "throw" => busy
  /\ fault = "outside" => ~rows[1].loaded
  /\ fault # "division"

(* add_chat_params leaves one row in use for each own position in a chat.  *)
OneRowInUse ==
  ~busy => \A i, j \in DOMAIN rows :
    rows[i].active /\ rows[j].active /\ rows[i].chat = rows[j].chat
      /\ rows[i].pos = rows[j].pos => i = j

(* The members of a running exchange are in a row in use, which add_aes_key
   needs to be there.                                                      *)
RosterStored ==
  Alive /\ running /\ ~busy => \E i \in DOMAIN rows :
    rows[i].active /\ rows[i].chat = ex.chat /\ rows[i].ids = ex.ids

(* The own id, under which encrypted messages are marked and looked up, stays
   what it is once it is known: over restarts, changes of the members and of
   the account.                                                            *)
OwnIdStays == [][GetMyId # <<>> => GetMyId' = GetMyId]_vars

(* It is the id of the account, if no other account has taken part in an
   exchange and the members were loaded.                                   *)
OwnIdIsOwn ==
  (\A i \in DOMAIN rows : rows[i].by = account /\ rows[i].loaded)
    => GetMyId \in {<<>>, <<account>>}

(* A key is stored for the chat whose messages formed it, if that is the chat
   that was open when the exchange started.                                *)
KeyFiled == ~misfiled

(* The messages of an exchange go to its chat, unless the user opened another
   one before they were sent.                                              *)
StaysInChat == ~astray

=============================================================================
