--------------------------- MODULE MCPluginSystem ---------------------------
(* An instance of PluginSystem for TLC.                                    *)
EXTENDS PluginSystem, TLC
=============================================================================
