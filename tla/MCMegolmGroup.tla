---------------------------- MODULE MCMegolmGroup ----------------------------
(***************************************************************************)
(* An instance of MegolmGroup for TLC.                                     *)
(***************************************************************************)
EXTENDS MegolmGroup, TLC

\* These values are only compared.
Symmetric == Permutations(Peers) \cup Permutations(Handles)
               \cup Permutations(Versions)

\* Bound: while a sender's index is past 1, or has been, one inbound session is
\* open at a time. It is enough to see what such keys and indices are worth.
WithinBudget ==
  (\E g \in Outs : out[g].index > 1 \/ rolled[g] > 1)
    => Cardinality({h \in Handles : Open(h)}) <= 1
=============================================================================
