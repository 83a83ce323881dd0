------------------------------ MODULE MCOutbox -------------------------------
EXTENDS Outbox, TLC

(* Workers are interchangeable, and so are relays. *)
CONSTANTS r1, r2, w1, w2

Symmetric == Permutations(Workers) \union Permutations(Relays)
=============================================================================
