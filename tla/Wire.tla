-------------------------------- MODULE Wire --------------------------------
(***************************************************************************)
(* What the extension does to the buffers of the MTProto session: texts in *)
(* an outgoing buffer are replaced by longer ones and the lengths of the   *)
(* buffer corrected (Send::encrypt_the_buffer); texts in a buffer that     *)
(* arrives are replaced by what they were encrypted from                   *)
(* (Receive::decrypt_the_buffer).  A buffer is a sequence of messages of   *)
(* so many words of four bytes; positions are counted in words as in the   *)
(* source.  Keys are looked up in Messages: here a chat has one or not,    *)
(* and who reads a text has the key it names.                              *)
(*                                                                         *)
(* External: the server, which takes a buffer whose lengths are right, and *)
(* what else the session packs into a buffer or finds in one.              *)
(***************************************************************************)
EXTENDS Options

CONSTANTS
  TextSizes,   \* bytes of the texts the user writes
  LastKeys,    \* numbers of the last key of a chat
  LastPosition,  \* positions among the members are 0 .. LastPosition
  OtherWords,  \* words of the other messages in a container
  Foreign,     \* bytes of the texts read that others wrote without a key
  Fields,      \* words that stand behind the text of a message that is read
  Layouts,     \* what stands between its id and its text
  OtherValues, \* values of the words there, as numbers without a sign
  Behind,      \* words behind the messages of a buffer that arrives
  MaxItems,    \* bound: messages in an outgoing container
  MaxRead      \* bound: messages in a buffer that arrives

ASSUME WireAssumption ==
  /\ {MaxItems, MaxRead} \subseteq Nat \ {0} /\ LastPosition \in Nat
  /\ TextSizes \subseteq Nat \ {0}
  /\ UNION {LastKeys, OtherWords, Foreign, Fields} \subseteq 0 .. IntMax
  /\ Layouts \subseteq [from : BOOLEAN, peer : {"user", "chat", "channel"},
                       saved : {"user", "chat", "channel", "none"}, extra : Nat]
  /\ OtherValues \subseteq Nat /\ Behind \subseteq Nat

(* Where the text is, in words from the type of the request.               *)
TextStart == [self |-> 3, chat |-> 5, user |-> 7, channel |-> 7]
Peers == DOMAIN TextStart

NoBuffer == [items |-> <<>>, boxed |-> FALSE, payload |-> 0, at |-> 0,
             growth |-> 0, left |-> "no"]
NoInput == [wrap |-> "none", list |-> "none", msgs |-> <<>>, behind |-> 0, at |-> 0,
            payload |-> 0, first |-> 0, zip |-> 0, delta |-> 0, left |-> "no"]

VARIABLES
  out,     \* the buffer in encrypt_the_buffer; `at` is the index i
  server,  \* the text the server has taken and somebody will read, if any
  in,      \* the buffer in decrypt_the_buffer; `at` is the place looked at
  fault    \* an exception nobody catches, a read outside the buffer

vars == <<out, server, in, fault>>

Init == out = NoBuffer /\ server = {} /\ in = NoInput /\ fault = "none"

-----------------------------------------------------------------------------
(* Lengths.                                                                *)

(* Words of a TL string: from 254 bytes on the length has a word to itself. *)
Words(bytes) == IF bytes < 254 THEN bytes \div 4 + 1 ELSE (bytes + 3) \div 4 + 1

IsText(item) == item.peer # "none"

(* invokeAfterMsg in front, the request up to its text, the text and
   random_id.                                                              *)
BodyWords(item) ==
  IF IsText(item) THEN item.lead + TextStart[item.peer] + Words(Size(item.text)) + 2
  ELSE item.lead

HeaderWords == 4   \* of a message in a container: id (2), seqno, length
(* f[1] + ... + f[j], for each j up to n.                                  *)
Sums(f, n) ==
  LET sum[j \in 0 .. n] == IF j = 0 THEN 0 ELSE sum[j - 1] + f[j] IN sum
ItemWords(items) == [j \in DOMAIN items |-> HeaderWords + BodyWords(items[j])]
WordsBefore(items, k) == Sums(ItemWords(items), Len(items))[k - 1]

(* REQUEST_TYPE_POSITION, behind CONTAINER_BIAS if there is a container.   *)
FirstBody(boxed) == IF boxed THEN 8 + 6 ELSE 8
RequestAt(b, k) == FirstBody(b.boxed) + WordsBefore(b.items, k) + b.items[k].lead

(* The bytes of the payload, which PAYLOAD_LEN_POSITION should hold.       *)
PayloadLen(boxed, items) ==
  4 * IF boxed THEN 2 + WordsBefore(items, Len(items) + 1) ELSE BodyWords(items[1])

-----------------------------------------------------------------------------
(* tryToSend: what waits is copied into a container; one request alone
   need not be.                                                            *)

Item(text, peer, keyed, lead) ==
  LET item == [text |-> text, sent |-> text, peer |-> peer, keyed |-> keyed,
               lead |-> lead, declared |-> 0]
  IN [item EXCEPT !.declared = 4 * BodyWords(item)]

(* A text the user has written; the message of init_rsa_encryption, of 28
   characters, whose sender is at position -1 if the members do not contain
   it; a text that only looks like one of the extension.                   *)
Written == {Plain(size) : size \in TextSizes}
Started == {GetTextWithOptions(<<NextKeyN(0), NextKeyN(last), pos, 2048>>, FALSE, 28, 28) :
              last \in LastKeys, pos \in -1 .. LastPosition}
Lookalike == [Plain(28) EXCEPT !.nums = <<0, 0, 0, 0>>, !.beyond = TRUE]

TextsTo(peer, keyed, lead) ==
  {Item(text, peer, keyed, lead) : text \in Written \cup Started \cup {Lookalike}}

(* Other requests, a ping among them: only their length matters.           *)
Others == {Item(Plain(0), "none", FALSE, words) : words \in OtherWords}

InvokeAfterMsg == 3
Encryptable == {"self", "chat", "user"}

Quiet == out = NoBuffer /\ in = NoInput /\ fault = "none"

Pack(items, boxed) ==
  /\ out' = [NoBuffer EXCEPT !.items = items, !.boxed = boxed,
                             !.payload = PayloadLen(boxed, items), !.at = FirstBody(boxed)]
  /\ UNCHANGED <<server, in, fault>>

PackOne(peer, keyed, lead, boxed) ==
  /\ Quiet /\ server = {}
  /\ keyed => peer \in Encryptable
  /\ \E item \in TextsTo(peer, keyed, lead) : Pack(<<item>>, boxed)

PackSeveral(n) ==
  LET Some == Others \cup {Item(text, "user", TRUE, 0) : text \in Written}
              \cup {Item(text, "channel", FALSE, 0) : text \in Written}
  IN Quiet /\ server = {} /\ \E items \in [1 .. n -> Some] : Pack(items, TRUE)

-----------------------------------------------------------------------------
(* encrypt_the_buffer.                                                     *)

Looking == out # NoBuffer /\ out.left = "no" /\ out.at >= 0 /\ fault = "none"

(* The texts that lie behind the index; the loop comes to the first.       *)
Pending == {k \in DOMAIN out.items : IsText(out.items[k]) /\ RequestAt(out, k) >= out.at}
Found(k) == Looking /\ Pending # {} /\ k = Min(Pending)

(* Texts to channels are not looked into, let alone what is behind them.   *)
Hidden(item) == item.peer \notin Encryptable

(* encrypt_the_message leaves a text of the protocol as it is.             *)
Changes(item) == ~Hidden(item) /\ item.keyed /\ FillOptions(item.text) = "no"
Throws(item) == ~Hidden(item) /\ FillOptions(item.text) = "throws"

ReturnEarly(k) ==
  /\ Found(k) /\ ~Changes(out.items[k]) /\ ~Throws(out.items[k])
  /\ out' = [out EXCEPT !.left = "return"]
  /\ UNCHANGED <<server, in, fault>>

ThrowOnSend(k) ==
  /\ Found(k) /\ Throws(out.items[k])
  /\ fault' = "stoi"
  /\ UNCHANGED <<out, server, in>>

AdvanceBug(position, grown) == position + grown + 1

(* The index, in words, advances by the bytes the text has grown by.       *)
Advance(position, grown) == position + 4 * grown + 1

EncryptText(k, n) ==
  LET item == out.items[k]
      text == EncryptMessage(item.text, n)
      grown == Words(Size(text)) - Words(Size(item.text))
  IN /\ Found(k) /\ Changes(item)
     /\ out' = [out EXCEPT !.items[k].text = text, !.growth = @ + 4 * grown,
                           !.at = Advance(RequestAt(out, k), grown)]
     /\ UNCHANGED <<server, in, fault>>

(* A text that got shorter takes the index back, maybe to before the buffer:
   the read there ends the program, or finds nothing.                      *)
ReadBefore(crashes) ==
  /\ out.at < 0 /\ fault = "none"
  /\ IF crashes THEN fault' = "outside" /\ UNCHANGED out
                ELSE out' = [out EXCEPT !.at = 0] /\ UNCHANGED fault
  /\ UNCHANGED <<server, in>>

LoopEndsBug ==
  /\ Looking /\ Pending = {}
  /\ out' = [out EXCEPT !.payload = @ + out.growth, !.left = "end"]
  /\ UNCHANGED <<server, in, fault>>

(* The lengths of the payload and of the first message in a container.     *)
LoopEnds ==
  /\ Looking /\ Pending = {}
  /\ out' = [out EXCEPT !.payload = @ + out.growth, !.left = "end",
       !.items[1].declared = IF out.boxed THEN @ + out.growth ELSE @]
  /\ UNCHANGED <<server, in, fault>>

(* The lengths the server reads: addPadding cuts or extends the buffer to
   what the payload is said to be.                                         *)
Framed ==
  /\ out.payload = PayloadLen(out.boxed, out.items)
  /\ out.boxed => \A k \in DOMAIN out.items :
                    out.items[k].declared = 4 * BodyWords(out.items[k])

(* The server keeps the text that somebody is going to read.               *)
Transmit ==
  /\ out.left # "no"
  /\ IF Framed
     THEN \E k \in DOMAIN out.items :
            server' = IF IsText(out.items[k])
                      THEN {[text |-> out.items[k].text, sent |-> out.items[k].sent]}
                      ELSE {}
     ELSE UNCHANGED server
  /\ out' = NoBuffer
  /\ UNCHANGED <<in, fault>>

-----------------------------------------------------------------------------
(* What arrives.  A buffer holds a `single` short update, a msg_container of
   such, the `updates` of the account, a messagesSlice (`slice`) or `dialogs`;
   it holds them as they are (wrap "none"), or in a gzip_packed that stands by
   itself ("gzip") or in an rpc_result ("rpc").                            *)

Wraps == {"none", "gzip", "rpc"}
ListsIn(wrap) == IF wrap = "rpc" THEN {"slice", "dialogs", "updates"}
                 ELSE {"single", "container", "updates"}
Kinds(list) == {"other"} \cup IF list \in {"single", "container"}
                              THEN {"updateShortMessage", "updateShortChatMessage"}
                              ELSE {"message"}

(* Of the fields between the id and the text of a message: whether there is a
   from_id, what peer_id and saved_peer_id, if any, are, and the words of the
   others (a reply_to, a fwd_from ...).  from_boosts_applied, which only
   members of channels have, counts among these.                           *)
NoOptions == [from |-> FALSE, peer |-> "user", saved |-> "none", extra |-> 0]

NoWord == -1
Message(kind, layout, text, fields) ==
  [kind |-> kind, layout |-> layout, got |-> text, text |-> text, fields |-> fields,
   shown |-> "no", word |-> NoWord]

(* Where the text is, in words from the constructor ...                    *)
TextAt(m) ==
  CASE m.kind = "updateShortMessage" -> 5 [] m.kind = "updateShortChatMessage" -> 7
    [] OTHER -> 8 + (IF m.layout.from THEN 3 ELSE 0)
                  + (IF m.layout.saved = "none" THEN 0 ELSE 3) + m.layout.extra

(* What stands at CHAT_TYPE in an rpc_result: the peer behind the id and one
   more peer; elsewhere it is the constructor of the message.              *)
ChatType(m) == IF m.layout.from THEN m.layout.peer ELSE m.layout.saved

UserMessage(wrap) == IF wrap = "rpc" THEN 8 ELSE 5    \* USER_MESSAGE - REQUEST_TYPE
ChatMessage(wrap) == IF wrap = "rpc" THEN 11 ELSE 7   \* CHAT_MESSAGE - REQUEST_TYPE

LookedAtBug(wrap, m) ==
  IF m.kind = "updateShortChatMessage" THEN ChatMessage(wrap) ELSE UserMessage(wrap)

(* ... and where the code looks for it.                                    *)
LookedAt(wrap, m) ==
  IF \/ m.kind = "updateShortChatMessage"
     \/ m.kind = "message" /\ wrap = "rpc" /\ ChatType(m) \in {"user", "chat"}
  THEN ChatMessage(wrap) ELSE UserMessage(wrap)
Placed(b, k) == b.msgs[k].kind # "other" /\ LookedAt(b.wrap, b.msgs[k]) = TextAt(b.msgs[k])

(* A word of four bytes that is taken for the beginning of a text: for its
   length, and how many words that text takes.                             *)
IsLong(word) == word % 256 = 254
LenOf(word) == IF IsLong(word) THEN word \div 256 ELSE word % 256
Taken(word) == IF IsLong(word) THEN (LenOf(word) + 3) \div 4 + 1 ELSE LenOf(word) \div 4 + 1

(* It is no text of the extension and is written back, in the form its length
   calls for and as three bytes at least; what fills its last word becomes
   NULs, to whatever these words belonged.                                 *)
WrittenFor(word) == Words(IF LenOf(word) < 3 THEN 3 ELSE LenOf(word))

WordsGot(m) == TextAt(m) + Words(Size(m.got)) + m.fields
MessageWords(m) == TextAt(m) + Words(Size(m.text)) + m.fields
                   + IF m.word = NoWord THEN 0 ELSE WrittenFor(m.word) - Taken(m.word)

(* The words in front of each message: of a container; of `updates` the pts
   and pts_count of one before and the constructor updateNewMessage.       *)
Header(list) == CASE list = "container" -> HeaderWords [] list = "updates" -> 3 [] OTHER -> 0
(* The words in front of the first: the list's own and its count; an
   updateMessageID; one optional field of a messagesSlice.                 *)
Lead(list) == CASE list = "container" -> 2 [] list = "updates" -> 5 [] list = "slice" -> 6
                [] list = "dialogs" -> 3 [] OTHER -> 0

(* Where a message stands, from the first place looked at, in the buffer as it
   came: all that is written lies before the next place that is looked at. *)
StartOf(b, k) ==
  Sums([j \in DOMAIN b.msgs |-> Header(b.list) + WordsGot(b.msgs[j])], Len(b.msgs))[k - 1]
EndOfBuffer(b) == StartOf(b, Len(b.msgs) + 1) - Header(b.list) + b.behind

(* The words of the list, or of the payload, without what is in front.  Of a
   payload what is behind the messages is not counted: it does not change,
   and some of it is padding.                                              *)
Content(b) ==
  LET words == [j \in DOMAIN b.msgs |-> Header(b.list) + MessageWords(b.msgs[j])]
  IN Lead(b.list) + Sums(words, Len(b.msgs))[Len(b.msgs)] + IF b.wrap = "none" THEN 0 ELSE b.behind

(* The words of the payload in front of the gzip string.                   *)
Wrapper(wrap) == IF wrap = "rpc" THEN 4 ELSE 1
DeclaredLen(b, zip) == 4 * IF b.wrap = "none" THEN Content(b) ELSE Wrapper(b.wrap) + zip

(* What deflate can make of so many words: fewer, or a few more.  The server
   packs only what gets shorter.                                           *)
Packed(words) == words \div 2 + 1
Deflated(words) == {Packed(words), words + 6}

Readable == {e.text : e \in server} \cup {Plain(size) : size \in Foreign}

Arrive(wrap, list, msgs, behind) ==
  LET b == [NoInput EXCEPT !.wrap = wrap, !.list = list, !.msgs = msgs, !.behind = behind]
      zip == IF wrap = "none" THEN 0 ELSE Packed(Content(b))
  IN /\ in' = [b EXCEPT !.zip = zip, !.payload = DeclaredLen(b, zip),
                        !.first = 4 * MessageWords(msgs[1])]
     /\ server' = {}
     /\ UNCHANGED <<out, fault>>

Messages(list) ==
  {Message(kind, layout, text, fields) : kind \in Kinds(list) \ {"other"}, text \in Readable,
     fields \in Fields, layout \in IF "message" \in Kinds(list) THEN Layouts ELSE {NoOptions}}
  \cup {Message("other", NoOptions, Plain(0), 0)}

ArriveSome(wrap, list, n) ==
  /\ Quiet /\ server # {}
  /\ list = "single" => n = 1
  /\ \E msgs \in [1 .. n -> Messages(list)], behind \in Behind : Arrive(wrap, list, msgs, behind)

-----------------------------------------------------------------------------
(* decrypt_the_buffer.                                                     *)

Reading == in.list # "none" /\ in.left = "no" /\ fault = "none"

AheadBug == {k \in DOMAIN in.msgs : in.msgs[k].kind # "other" /\ StartOf(in, k) >= in.at}

(* A list of dialogs is gone through word by word until a message comes, of any
   other list only what stands at the index is looked at.                  *)
Ahead == {k \in DOMAIN in.msgs : /\ in.msgs[k].kind # "other"
            /\ IF in.list = "dialogs" THEN StartOf(in, k) >= in.at ELSE StartOf(in, k) = in.at}
Looked(k) == Reading /\ Ahead # {} /\ k = Min(Ahead)

PaddedBug(text) == IF Size(text) < 4 THEN [text EXCEPT !.body = 4] ELSE text

(* A text of less than three bytes is filled up with NULs, changed or not. *)
Padded(text) == IF Size(text) < 3 THEN [text EXCEPT !.body = 3] ELSE text

(* What decrypt_the_message returns, and whether it is what was sent.      *)
Outcome(t) == IF FillOptions(t) = "throws" THEN "stoi"
              ELSE IF t.sealed THEN DecryptMessage(t) ELSE "same"
Decrypted(t) == IF t.sealed THEN Plain(t.clear) ELSE t
Lost(outcome) == outcome \in {"stoi", "throws"}

(* The index goes behind the text; without a wrapper that was all.         *)
After(k, taken, written) ==
  [in EXCEPT !.at = StartOf(in, k) + LookedAt(in.wrap, in.msgs[k]) + taken,
             !.delta = @ + 4 * (written - taken),
             !.left = IF in.wrap = "none" THEN "end" ELSE "no"]

DecryptText(k) ==
  LET got == in.msgs[k].got
      text == Padded(Decrypted(got))
  IN /\ Looked(k) /\ Placed(in, k) /\ ~Lost(Outcome(got))
     /\ in' = [After(k, Words(Size(got)), Words(Size(text))) EXCEPT
                 !.msgs[k].text = text, !.msgs[k].shown = Outcome(got)]
     /\ UNCHANGED <<out, server, fault>>

ThrowOnRead(k) ==
  /\ Looked(k) /\ Placed(in, k) /\ Lost(Outcome(in.msgs[k].got))
  /\ fault' = Outcome(in.msgs[k].got)
  /\ UNCHANGED <<out, server, in>>

(* The text is not where it is looked for: another word is taken for its
   length.  If that reaches behind the buffer the program ends there, or at
   the copy of what is behind, of which there is less than nothing.        *)
Misread(k, word) ==
  LET end == StartOf(in, k) + LookedAt(in.wrap, in.msgs[k]) + Taken(word)
  IN /\ Looked(k) /\ ~Placed(in, k)
     /\ IF end > EndOfBuffer(in)
        THEN fault' = "outside" /\ in' = [in EXCEPT !.msgs[k].word = word]
        ELSE /\ in' = [After(k, Taken(word), WrittenFor(word)) EXCEPT !.msgs[k].word = word]
             /\ UNCHANGED fault
     /\ UNCHANGED <<out, server>>

(* No message at the index; if none has been read nothing has been done.   *)
NoMessage ==
  /\ Reading /\ Ahead = {}
  /\ in' = [in EXCEPT !.left = IF in.at = 0 /\ in.list # "dialogs" THEN "return" ELSE "end"]
  /\ UNCHANGED <<out, server, fault>>

(* By how much the payload is said to have changed: from the old gzip string
   to the new list, which is packed once more.                             *)
NewPayload(words) == in.payload + 4 * (words - in.zip)

CorrectLengthsBug ==
  /\ in.left = "end"
  /\ \E zip \in IF in.wrap = "none" THEN {0} ELSE Deflated(Content(in)) :
       in' = [in EXCEPT !.left = "done", !.zip = zip,
                !.payload = IF in.wrap = "none" THEN @ + in.delta ELSE NewPayload(Content(in))]
  /\ UNCHANGED <<out, server, fault>>

(* The lengths of the payload and of the first message in a container, if that
   is not packed.                                                          *)
CorrectLengths ==
  /\ in.left = "end"
  /\ \E zip \in IF in.wrap = "none" THEN {0} ELSE Deflated(Content(in)) :
       in' = [in EXCEPT !.left = "done", !.zip = zip,
                !.payload = IF in.wrap = "none" THEN @ + in.delta ELSE NewPayload(Content(in)),
                !.first = IF in.wrap = "none" /\ in.list = "container" THEN @ + in.delta ELSE @]
  /\ UNCHANGED <<out, server, fault>>

(* The session goes on with what the buffer holds now.                     *)
HandleReceived ==
  /\ in.left \in {"return", "done"}
  /\ in' = NoInput
  /\ UNCHANGED <<out, server, fault>>

-----------------------------------------------------------------------------
Next ==
  \/ \E peer \in Peers, keyed, boxed \in BOOLEAN, lead \in {0, InvokeAfterMsg} :
       PackOne(peer, keyed, lead, boxed)
  \/ \E n \in 2 .. MaxItems : PackSeveral(n)
  \/ \E k \in 1 .. MaxItems : ReturnEarly(k) \/ ThrowOnSend(k)
                              \/ \E n \in LastKeys \ {0} : EncryptText(k, n)
  \/ \E crashes \in BOOLEAN : ReadBefore(crashes)
  \/ LoopEnds \/ Transmit
  \/ \E wrap \in Wraps, n \in 1 .. MaxRead : \E list \in ListsIn(wrap) : ArriveSome(wrap, list, n)
  \/ \E k \in 1 .. MaxRead : DecryptText(k) \/ ThrowOnRead(k)
                             \/ \E word \in OtherValues : Misread(k, word)
  \/ NoMessage \/ CorrectLengths \/ HandleReceived

Spec == Init /\ [][Next]_vars

-----------------------------------------------------------------------------
(* The server can take a buffer exactly if no text but one in the first
   message has changed its length, and then only if the loop came to its end:
   what Messages assumes.                                                  *)
FramedExactly ==
  LET Longer == {k \in DOMAIN out.items : IsText(out.items[k])
                   /\ Words(Size(out.items[k].text)) # Words(Size(out.items[k].sent))}
  IN out.left # "no" =>
       (Framed <=> Longer \subseteq {1} /\ (out.left = "return" => Longer = {}))

(* The text right behind one that was encrypted is jumped over, and so leaves
   in the clear, unless the first was too long to keep.  (A text of more than
   4096 bytes takes the index back, maybe to a text that was jumped over.)  *)
NeighbourSkipped ==
  (\A j \in DOMAIN out.items : Size(out.items[j].sent) <= MaxTelegramMessageLen) =>
    \A k \in 2 .. Len(out.items) :
      LET before == out.items[k - 1]
      IN IsText(before) /\ before.text # before.sent /\ Size(before.sent) <= MaxKept
           => out.items[k].text = out.items[k].sent

(* The message that starts an exchange is read as it was meant by the others
   exactly if the own position and the next number are no negative numbers. *)
Understood ==
  \A e \in server : e.sent.nums # <<>> /\ ~e.sent.beyond =>
    ((e.text = e.sent /\ FillOptions(e.text) = "yes") <=> \A i \in 1 .. 4 : e.sent.nums[i] >= 0)

(* An encrypted text comes back whole, with NULs if it is shorter than three
   bytes; a longer one than fits is never shown as something else.         *)
ReadBack ==
  \A k \in DOMAIN in.msgs : in.msgs[k].got.sealed /\ in.msgs[k].shown # "no" =>
    /\ in.msgs[k].got.clear <= MaxKept /\ in.msgs[k].shown = "clear"
    /\ Size(in.msgs[k].text) = Max({3, in.msgs[k].got.clear})

(* What ends the program: a number that no copy of it writes, a text of more
   than MaxKept bytes when it is read, of more than 4096 when it is sent; and
   a word taken for a length that no string behind the messages could have.
   Words are only taken for a length in `updates` outside an rpc_result, and
   in messages that are not plain ones of a user or a group.               *)
EndsExplained ==
  /\ fault = "stoi" =>
       IF in # NoInput THEN in.msgs[Min(Ahead)].got.beyond ELSE out.items[Min(Pending)].sent.beyond
  /\ fault = "throws" => in.msgs[Min(Ahead)].got.clear > MaxKept
  /\ fault = "outside" /\ in # NoInput => \E k \in DOMAIN in.msgs : LenOf(in.msgs[k].word) > 4 * in.behind
  /\ out.at < 0 => \E k \in DOMAIN out.items : Size(out.items[k].sent) > 4096
  /\ \A k \in DOMAIN in.msgs : in.msgs[k].word # NoWord =>
       LET layout == in.msgs[k].layout
       IN \/ in.list = "updates" /\ in.wrap # "rpc"
          \/ layout.extra > 0 \/ layout.saved # "none" \/ (layout.from /\ layout.peer = "channel")

(* The length of the payload and of the first message are those of the buffer
   that is handled, whatever was taken for a text.  If it holds a gzip_packed,
   the declared length is not that of the string, which lies inside it exactly
   if packing made the list shorter; and of a container in a gzip_packed the
   length of the first message is the old one.                             *)
LengthsAgree ==
  /\ in.left \in {"return", "done"} /\ in.wrap = "none" => in.payload = 4 * Content(in)
  /\ in.left \in {"return", "done"} /\ in.list = "container" =>
       (in.first = 4 * MessageWords(in.msgs[1]) <=>
          in.wrap = "none" \/ Words(Size(in.msgs[1].text)) = Words(Size(in.msgs[1].got)))
  /\ in.left = "done" /\ in.wrap # "none" =>
       (4 * (Wrapper(in.wrap) + in.zip) <= in.payload <=> in.zip <= Content(in))

(* Where the text ends that was read in a message.                         *)
EndAt(b, k) ==
  LET m == b.msgs[k]
  IN StartOf(b, k) + LookedAt(b.wrap, m)
       + IF m.word = NoWord THEN Words(Size(m.got)) ELSE Taken(m.word)

(* Which texts have been looked into.  Only those that are where they are
   looked for; of dialogs all of them, but for those that a word taken for a
   length made the loop jump over; of a slice the first and what follows it
   with nothing between a text and the next message (the loop may get there
   again from a wrong length); of other lists the first.                   *)
Adjacent(k) == in.list = "slice" /\ Placed(in, k) /\ in.msgs[k].fields = 0
ListCovered ==
  in.left = "done" => \A k \in DOMAIN in.msgs :
    LET MisreadAt(j) == in.msgs[j].word # NoWord
        Jumped == \E j \in 1 .. k - 1 : MisreadAt(j) /\ EndAt(in, j) > StartOf(in, k)
        Reached == \E i \in 1 .. k :
          /\ \/ i = 1
             \/ in.wrap # "none" /\ \E j \in 1 .. i - 1 : MisreadAt(j) /\ EndAt(in, j) = StartOf(in, i)
          /\ \A j \in i .. k - 1 : Adjacent(j)
    IN in.msgs[k].shown # "no" <=>
         Placed(in, k) /\ IF in.list = "dialogs" THEN ~Jumped ELSE Reached

=============================================================================
