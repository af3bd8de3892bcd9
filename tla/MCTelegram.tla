----------------------------- MODULE MCTelegram -----------------------------
(***************************************************************************)
(* Finite instances of Telegram: a few updates, one of them not the        *)
(* owner's, a channel that fills up, and batches of two notices.           *)
(***************************************************************************)
EXTENDS Telegram
=============================================================================
