----------------------------- MODULE MCReceiver -----------------------------
(***************************************************************************)
(* Instances of ReceiverSession for TLC: connections are interchangeable.    *)
(***************************************************************************)
EXTENDS ReceiverSession, TLC

Symmetry == Permutations(Channels)
==============================================================================
