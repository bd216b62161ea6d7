----------------------------- MODULE MCOlmChannels -----------------------------
(***************************************************************************)
(* An instance of OlmChannels and one of EciesChannel for TLC. They share  *)
(* nothing, so a behaviour is of one or of the other.                      *)
(***************************************************************************)
EXTENDS OlmChannels, EciesChannel

CONSTANT Budget  \* bound: keys generated and messages of a channel, together

VARIABLE system  \* the one whose steps are taken

MCInit == system \in {"olm", "ecies"} /\ Init /\ EciesInit

MCNext ==
  \/ system = "olm" /\ Next /\ UNCHANGED <<eciesVars, system>>
  \/ system = "ecies" /\ EciesNext /\ UNCHANGED <<vars, system>>

MCSpec == MCInit /\ [][MCNext]_<<vars, eciesVars, system>>

\* One behaviour does not exhaust all the bounds: what lies beyond the budget is
\* not explored further.
WithinBudget ==
  \A s \in Chans :
    born.oneTime + born.fallback + (IF chan[s] = NULL THEN 0 ELSE chan[s].sent)
      <= Budget

\* The type invariants of both.
TypesOK == TypeOK /\ EciesTypeOK
================================================================================
