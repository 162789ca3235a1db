--------------------------- MODULE MCChatSessions ---------------------------
(***************************************************************************)
(* Instances of ChatSessions.                                              *)
(***************************************************************************)
EXTENDS ChatSessions, TLC

\* Sockets are interchangeable, and so are objects: NewObject chooses one that
\* nobody uses, and any other choice gives the same state up to the names.
ChatSymmetry == Permutations(Sockets) \cup Permutations(Objects)

=============================================================================
