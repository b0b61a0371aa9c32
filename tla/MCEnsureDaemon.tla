--------------------------- MODULE MCEnsureDaemon ---------------------------
(* EnsureDaemon for TLC: processes are model values.                       *)
EXTENDS EnsureDaemon

(* Nothing odd, for Recovers; starts that are slow; and gaps.  The two are *)
(* apart to keep the graph small: each alone lets two launchers work at    *)
(* once and two daemons listen.                                            *)
MCConditions ==
  {{}, {"slow", "shutdown", "reuse"}, {"gap", "shutdown", "reuse"}}
=============================================================================
