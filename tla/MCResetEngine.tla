---------------------------- MODULE MCResetEngine ----------------------------
(* Symmetry and bounds for the TLC runs of ResetEngine.                     *)
EXTENDS ResetEngineProps, TLC

KeySymmetry == Permutations(Keys)
SharedSymmetry == Permutations(Keys) \cup Permutations(Engines)
AccountSymmetry == Permutations(Keys) \cup Permutations(Accounts)

\* Two engines, and two accounts, are explored without orderly stops and
\* opt-outs, which the other runs cover; engines still crash and restart at any
\* step.
SharedBound ==
  /\ \A e \in Engines : life[e] \in {"running", "down"}
  /\ \A a \in Accounts : disk[a].participating
==============================================================================
