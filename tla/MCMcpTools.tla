------------------------------ MODULE MCMcpTools -----------------------------
(* Two servers whose names meet. *)
EXTENDS McpTools

ConfiguredServers == <<"a", "b">>
=============================================================================
