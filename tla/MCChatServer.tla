---------------------------- MODULE MCChatServer ----------------------------
(* Instances of ChatServer.                                                *)
EXTENDS ChatServer, TLC

CONSTANTS u1, u2, u3, u4

\* Users differ in nothing but their names.
Symmetry == Permutations(Users)
=============================================================================
