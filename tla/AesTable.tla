------------------------------ MODULE AesTable ------------------------------
(***************************************************************************)
(* The rows one account keeps for one chat in the table "aes" of the       *)
(* SQLite database (lib_extension/extension/local_storage/keys_db.cpp).    *)
(* A table is the sequence of its rows in insertion order, which is the    *)
(* order in which SQLite returns them; a row keeps the columns the program *)
(* reads back: key_n, session_key and status.                              *)
(***************************************************************************)
EXTENDS Integers, Sequences, FiniteSetsExt

(* status: in use (1), out of date (-1), being formed (0, never stored).   *)
InUse == 1
Outdated == -1

Row(n, key, status) == [n |-> n, key |-> key, status |-> status]

KeyNumbers(t) == {t[i].n : i \in DOMAIN t}

(* SELECT MAX(key_n): over no rows SQLite yields NULL, read back as 0.     *)
LastKeyN(t) == IF t = <<>> THEN 0 ELSE Max(KeyNumbers(t))

DisableOtherKeysBug(t) == SelectSeq(t, LAMBDA r : r.status # InUse)

(* UPDATE ... SET status = -1 WHERE status = 1 OR status = 0.              *)
DisableOtherKeys(t) ==
  [i \in DOMAIN t |-> Row(t[i].n, t[i].key, Outdated)]

AddAesKeyBug(t, n, key) == Append(t, Row(n, key, InUse))

(* The two statements of add_aes_key: disable the others, then INSERT.     *)
AddAesKey(t, n, key) == Append(DisableOtherKeys(t), Row(n, key, InUse))

(* Where the rows of a status are; what the program reads is the first of the
   rows a SELECT finds, if there is one.                                   *)
WithStatus(t, status) == {i \in DOMAIN t : t[i].status = status}
FirstRow(t, places) == IF places = {} THEN <<>> ELSE <<t[Min(places)]>>

(* The row that encrypts the messages sent to the chat, if there is one.   *)
ActiveRow(t) == FirstRow(t, WithStatus(t, InUse))

=============================================================================
