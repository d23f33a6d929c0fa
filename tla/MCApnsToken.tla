---------------------------- MODULE MCApnsToken ----------------------------
(* Small instances of the provider token for TLC, in minutes. *)
EXTENDS ApnsTokenProps, TLC

CONSTANTS s1, s2

Symm == Permutations(Senders)
=============================================================================
