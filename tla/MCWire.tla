------------------------------- MODULE MCWire -------------------------------
(* The layouts of the messages in the run of Wire: none of the optional
   fields, in a channel or not; with the sender, in a group and in a channel;
   a chat with oneself; a reply.                                           *)
EXTENDS Wire

MCLayouts ==
  {NoOptions,
   [NoOptions EXCEPT !.from = TRUE, !.peer = "chat"],
   [NoOptions EXCEPT !.from = TRUE, !.peer = "channel"],
   [NoOptions EXCEPT !.saved = "user"],
   [NoOptions EXCEPT !.extra = 3]}
=============================================================================
