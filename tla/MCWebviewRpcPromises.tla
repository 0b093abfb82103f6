------------------------ MODULE MCWebviewRpcPromises ------------------------
(* Instances of WebviewRpcPromises for TLC.                                *)
EXTENDS WebviewRpcPromises
=============================================================================
