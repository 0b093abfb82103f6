---------------------------- MODULE MCWebviewRpc ----------------------------
(* Instances of WebviewRpc for TLC.                                        *)
EXTENDS WebviewRpc
=============================================================================
