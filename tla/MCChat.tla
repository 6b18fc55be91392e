------------------------------- MODULE MCChat -------------------------------
(* Two users, two chats, two messages and four requests, with every fault. *)
EXTENDS Chat, TLC

Symmetry == Permutations(ChatId) \cup Permutations(Msg) \cup Permutations(Req)
              \cup Permutations(User)
=============================================================================
