--------------------------- MODULE MCCatalogStore ---------------------------
(***************************************************************************)
(* CatalogStore for TLC.  The instance is given by its .cfg.               *)
(***************************************************************************)
EXTENDS CatalogStore
=============================================================================
