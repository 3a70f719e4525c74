----------------------------- MODULE MCSession ------------------------------
(* Small instances of Session for TLC. *)
EXTENDS Session

AllModes == {"dtls", "wrapa", "srtp", "direct"}

=============================================================================
