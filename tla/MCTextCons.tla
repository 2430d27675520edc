----------------------------- MODULE MCTextCons -----------------------------
(***************************************************************************)
(* TextCons for TLC: two clients one after the other, two distinct bytes,  *)
(* two bytes per client (so one read can take both), one accept() failure, *)
(* and two descriptor numbers so that a leaked or reused descriptor shows. *)
(***************************************************************************)
EXTENDS TextCons

CONSTANTS a, b, NoByte

MCConns == 1..2
MCBytes == {a, b}
MCFdNums == {4, 5}

=============================================================================
