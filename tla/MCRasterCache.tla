--------------------------- MODULE MCRasterCache ---------------------------
(***************************************************************************)
(* Two overlays of one model, asked for by one map at a time.              *)
(***************************************************************************)
EXTENDS RasterCache, TLC
=============================================================================
