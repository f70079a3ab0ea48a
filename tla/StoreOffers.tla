----------------------------- MODULE StoreOffers ------------------------------
(***************************************************************************)
(* What a box is offered: the packages of the catalog, and the release of  *)
(* the appliance.  The operators change the one, the tags of the release   *)
(* repository the other.                                                   *)
(***************************************************************************)
EXTENDS StoreAdministration, ReleaseChannel

\* What a box is offered is current and hangs together: the newest version of
\* every package, and the one release of the appliance that is stable.
OffersAreCurrent == CatalogShowsNewest /\ StableIsOneRelease
===============================================================================
