-------------------------- MODULE MCEngineRegistry --------------------------
(***************************************************************************)
(* Instances of EngineRegistry for TLC.                                    *)
(***************************************************************************)
EXTENDS EngineRegistry, TLC

CONSTANTS e1, d1

\* One member of a deployment.
OneMember == (e1 :> d1)

=============================================================================
