---------------------------- MODULE MCNativeCalls ----------------------------
(***************************************************************************)
(* An instance of NativeCalls for TLC: every native method, on as many     *)
(* addresses as merge needs.                                               *)
(***************************************************************************)
EXTENDS NativeCalls, TLC

\* Addresses are only compared.
Symmetric == Permutations(Objs)
=============================================================================
