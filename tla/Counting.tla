------------------------------ MODULE Counting ------------------------------
(***************************************************************************)
(* How often something occurs in a sequence: for texts that are handed     *)
(* from one queue to the next and must be in one of them.                  *)
(***************************************************************************)
EXTENDS Naturals, Sequences, FiniteSets

\* The number of places of s that hold x.
Times(x, s) == Cardinality({k \in DOMAIN s : s[k] = x})
=============================================================================
