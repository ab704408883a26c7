----------------------------- MODULE MCProcess -----------------------------
(* Process on a small instance.                                            *)
EXTENDS Process

\* Success, and the code of a failed exec.
MCExitCodes == {0, 1}

=============================================================================
