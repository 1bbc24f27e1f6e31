------------------------------ MODULE GroupKey ------------------------------
(***************************************************************************)
(* What forming the keys of a chat promises to the code that encrypts and  *)
(* decrypts its messages: keys are common, a number names one key for      *)
(* everyone for ever, and everyone encrypts with the newest key it has or  *)
(* not at all.  KeyExchange is shown to implement this specification.      *)
(***************************************************************************)
EXTENDS Integers

CONSTANTS
  Members,  \* the members of the chat
  Numbers,  \* key numbers, which are ordered
  Keys      \* the keys that are common to all members

VARIABLES
  table,  \* the numbered keys each member has stored
  inUse   \* the number each member encrypts with: at most one

Init ==
  /\ table = [m \in Members |-> {}]
  /\ inUse = [m \in Members |-> {}]

(* A member stores a key under a number that is newer for it than any other,
   and the same key as those who have that number already.                 *)
Install(m, n, key) ==
  /\ \A e \in table[m] : e.n < n
  /\ \A p \in Members : \A e \in table[p] : e.n = n => e.key = key
  /\ table' = [table EXCEPT ![m] = @ \cup {[n |-> n, key |-> key]}]
  /\ inUse' = [inUse EXCEPT ![m] = {n}]

(* A member stops encrypting.                                              *)
Disable(m) ==
  /\ inUse[m] # {}
  /\ inUse' = [inUse EXCEPT ![m] = {}]
  /\ UNCHANGED table

Next == \E m \in Members :
  \/ \E n \in Numbers, key \in Keys : Install(m, n, key)
  \/ Disable(m)

Spec == Init /\ [][Next]_<<table, inUse>>

=============================================================================
