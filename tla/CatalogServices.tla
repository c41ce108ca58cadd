-------------------------- MODULE CatalogServices --------------------------
(***************************************************************************)
(* The two services that answer from the catalog, preparation and          *)
(* composition, at work on one call each in one world that neither holds   *)
(* still.                                                                  *)
(***************************************************************************)
EXTENDS Preparation, Composing

servicesVars == <<worldVars, resVars, prep, comp>>

WorldMoves == WorldNext /\ UNCHANGED <<resVars, prep, comp>>
ResolverMoves == ResolveStep /\ UNCHANGED <<worldVars, prep, comp>>
PreparationMoves == PrepareStep /\ UNCHANGED <<worldVars, shape, comp>>
ComposingMoves == ComposeStep /\ UNCHANGED <<worldVars, resVars, prep>>

ServicesInit == WorldInit /\ ResolutionInit /\ PreparationInit /\ ComposingInit
ServicesNext == WorldMoves \/ ResolverMoves \/ PreparationMoves \/ ComposingMoves
ServicesSpec == ServicesInit /\ [][ServicesNext]_servicesVars

\* A ready answer of either service was true at one instant within the call
\* (preparation.Service.Prepare, composition.Service.Prepare).
PreparedFactsHeld == ReadyAnswersHeld /\ ComposedAnswersHeld

=============================================================================
