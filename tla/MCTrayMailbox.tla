---------------------------- MODULE MCTrayMailbox ----------------------------
(***************************************************************************)
(* The mailbox with three anchors, so that the first, the last and an      *)
(* outdated click can be told apart, two timeframes, and polls that take   *)
(* nothing, part of the queue and all of it.                               *)
(***************************************************************************)
EXTENDS TrayMailbox
=============================================================================
