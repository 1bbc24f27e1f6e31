------------------------------- MODULE Options -------------------------------
(***************************************************************************)
(* The texts of the extension: the prefix "[/flags-n-n-n-n] " that carries *)
(* the options of a message (commands_manager/message_options.cpp), and    *)
(* the encryption of what stands behind it (keys_manager.cpp,              *)
(* keys_format.cpp).  A text is known by its lengths in bytes and by the   *)
(* numbers of its prefix; characters are left out.                         *)
(***************************************************************************)
EXTENDS Integers, Sequences, FiniteSetsExt

MaxTelegramMessageLen == 4096   \* bytes, with the NUL that ends a C string
IntMax == 2147483647
IntMin == -IntMax - 1
MaxKept == 3023   \* bytes of the longest text that is not cut once it is encrypted
AesBlock == 16                  \* bytes; as long as the initial vector

(* Characters of a number printed with %i.                                 *)
DecimalLen(i) ==
  IF i >= 0 THEN 1 + Cardinality({k \in 1 .. 9 : 10^k <= i})
  ELSE 2 + Cardinality({k \in 1 .. 9 : i <= -(10^k)})

(* "[/", nine flags, four numbers each behind a dash, "] ".                *)
PrefixLen(nums) ==
  2 + 9 + 4 + DecimalLen(nums[1]) + DecimalLen(nums[2]) + DecimalLen(nums[3])
  + DecimalLen(nums[4]) + 2

(* nums: the numbers of the prefix, none if there is no prefix; sealed: the
   flag aes_use; body: the bytes behind the prefix, of `full` that belong
   there; clear: the bytes of what was encrypted; beyond: a number of the
   prefix is greater than INT_MAX (only in a text this program did not form). *)
Plain(len) == [nums |-> <<>>, sealed |-> FALSE, body |-> len, full |-> len,
               clear |-> len, beyond |-> FALSE]
Size(t) == t.body + IF t.nums = <<>> THEN 0 ELSE PrefixLen(t.nums)
Whole(t) == t.body = t.full

(* snprintf cuts what does not fit into the buffer.                        *)
GetTextWithOptions(nums, sealed, len, clear) ==
  [nums |-> nums, sealed |-> sealed,
   body |-> Min({len, MaxTelegramMessageLen - 1 - PrefixLen(nums)}), full |-> len,
   clear |-> clear, beyond |-> FALSE]

FillOptionsBug(t) ==
  IF t.nums = <<>> THEN "no" ELSE IF t.beyond THEN "throws" ELSE "yes"

(* The pattern of fill_options has no sign in front of a number, so that a
   negative one makes the text an ordinary text; std::stoi throws on a number
   that is no int.                                                         *)
FillOptions(t) ==
  IF t.nums = <<>> \/ \E i \in DOMAIN t.nums : t.nums[i] < 0 THEN "no"
  ELSE IF t.beyond THEN "throws" ELSE "yes"

(* AES-256-CBC with padding behind its initial vector, ...                 *)
CipherLen(len) == AesBlock + AesBlock * (len \div AesBlock + 1)

Base64LenBug(bytes) == 4 * ((bytes + 2) \div 3) + (4 * ((bytes + 2) \div 3)) \div 64

(* ... then base64 without line breaks.                                    *)
Base64Len(bytes) == 4 * ((bytes + 2) \div 3)

EncryptMessage(t, n) ==
  GetTextWithOptions(<<0, n, 0, 0>>, TRUE, Base64Len(CipherLen(Size(t))), Size(t))

(* Cut base64 yields its complete groups; a cipher text that is too short or
   that does not end with a block makes decrypt_message throw.             *)
DecryptMessage(t) ==
  LET decoded == 3 * (t.body \div 4)
  IN IF Whole(t) THEN "clear"
     ELSE IF decoded < AesBlock \/ decoded % AesBlock # 0 THEN "throws" ELSE "garbled"

(* init_rsa_encryption: the number after the last one, in an int.          *)
NextKeyN(last) == IF last = IntMax THEN IntMin ELSE last + 1

=============================================================================
