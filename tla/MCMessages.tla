------------------------------ MODULE MCMessages ------------------------------
(***************************************************************************)
(* Messages for TLC.  Chats are interchangeable: no action or property      *)
(* distinguishes one, and Chats is compared with nothing but itself.        *)
(***************************************************************************)
EXTENDS Messages, TLC

ChatSymmetry == Permutations(Chats)

===============================================================================
