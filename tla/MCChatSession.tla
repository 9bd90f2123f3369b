--------------------------- MODULE MCChatSession ---------------------------
(* ChatSession on small sets for TLC.  The garbage in uid_ may be any of   *)
(* the user ids or none.                                                   *)
EXTENDS ChatSession, TLC

MCGarbage == Uids \cup {NoUid}

Symmetry == Permutations(Sessions) \cup Permutations(Tokens) \cup Permutations(Uids)
============================================================================
