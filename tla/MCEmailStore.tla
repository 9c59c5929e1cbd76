---------------------------- MODULE MCEmailStore ----------------------------
(* Two settings dialogs and two cards. *)
EXTENDS EmailStore
=============================================================================
