---------------------------- MODULE MCMtpPackets ----------------------------
(*************************************************************************)
(* Names of two, three, one and four bytes a character; three characters *)
(* are the most the count of a text can tell (Byte = 4 stands for 256).  *)
(*************************************************************************)
EXTENDS MtpPackets

MCCardNames == {<<233, 20013>>, <<97, 97, 97>>, <<128512>>}
MCHostNames == {<<20013>>, <<55357, 56832>>}
=============================================================================
