----------------------------- MODULE MCCacheFiles -----------------------------
(* Small instances of CacheFiles for TLC: the changes are model values, and the  *)
(* operations are listed in each configuration.                                  *)
EXTENDS CacheFiles
=============================================================================
