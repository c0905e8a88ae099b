-------------------------- MODULE MCProviderRunners --------------------------
(* TLC instances of ProviderRunners: the kinds of runner differ, so there    *)
(* is no symmetry between sessions to use.                                    *)
EXTENDS ProviderRunners
==============================================================================
