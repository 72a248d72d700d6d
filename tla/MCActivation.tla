---------------------------- MODULE MCActivation ----------------------------
(* Small instances of Activation for TLC. *)
EXTENDS Activation, TLC

Interchangeable == Permutations(Web) \union Permutations(Workers) \union Permutations(Attempts)
                   \union Permutations(Sessions)
=============================================================================
