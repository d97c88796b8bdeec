------------------------- MODULE MCTerminalSessions -------------------------
(* Finite instances of TerminalSessions: one session more than there are
   slots. *)
EXTENDS TerminalSessions

CONSTANTS s1, s2, s3

ThreeSessions == {s1, s2, s3}
=============================================================================
