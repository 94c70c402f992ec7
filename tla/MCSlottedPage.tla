--------------------------- MODULE MCSlottedPage ---------------------------
(***************************************************************************)
(* SlottedPage for TLC.                                                    *)
(***************************************************************************)
EXTENDS SlottedPage
====
