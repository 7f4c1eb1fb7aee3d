----------------------------- MODULE MCFtpServer -----------------------------
(* FtpServer on a small descriptor table. *)
EXTENDS FtpServer, TLC

Symmetry == Permutations(Fds)
=============================================================================
