---------------------------- MODULE MCSocketRead ----------------------------
(***************************************************************************)
(* A stream for SocketRead: three messages of 8 (no arguments), 8 and 12   *)
(* bytes, the last two with a descriptor each, which ride on a byte inside *)
(* the message before, so that they may come in one read or in two.        *)
(***************************************************************************)
EXTENDS SocketRead

MCStart == <<0, 8, 16, 28>>
MCCarriers == <<2, 3>>
MCFdPaths == {<<5, 14>>}
=============================================================================
