--------------------------- MODULE MCHotReload ---------------------------
(* Two configurations that load, one with the inspection and one without,    *)
(* and one that does not load.                                               *)
EXTENDS HotReload

CONSTANTS on, off, broken

MCContents == {on, off, broken}
MCValid    == {on, off}
==========================================================================
