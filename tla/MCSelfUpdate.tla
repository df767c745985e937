--------------------------- MODULE MCSelfUpdate ---------------------------
(* The instance of SelfUpdate for TLC: three releases, of both systems.    *)
EXTENDS SelfUpdate

Both == {"unix", "windows"}
=============================================================================
