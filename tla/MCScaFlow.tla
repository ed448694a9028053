------------------------------ MODULE MCScaFlow ------------------------------
(* Instances of ScaFlow for TLC.                                            *)
EXTENDS ScaFlow, TLC

Everything == EnvEvents
Interchangeable == Permutations(Tab) \cup Permutations(Flow) \cup Permutations(Hash)
                     \cup Permutations(ConnId)
RefusedLogin == {"session fails"}
=============================================================================
