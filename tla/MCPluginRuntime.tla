--------------------------- MODULE MCPluginRuntime ---------------------------
(* Symmetry for the safety run of PluginRuntime.                             *)
EXTENDS PluginRuntimeProps, TLC

RuntimeSymmetry ==
  Permutations(Threads) \cup Permutations(Engines) \cup Permutations(Dirs)
==============================================================================
