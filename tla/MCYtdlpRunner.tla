--------------------------- MODULE MCYtdlpRunner ---------------------------
(***************************************************************************)
(* YtdlpRunner for TLC; its constants are numbers, given in the cfg.       *)
(***************************************************************************)
EXTENDS YtdlpRunner
=============================================================================
