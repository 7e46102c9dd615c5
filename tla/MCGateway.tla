------------------------------ MODULE MCGateway ------------------------------
(* Model-checking instance of MCPAdapter over MCAuth's tenants, scopes and  *)
(* capabilities: t2 plays the adapter's "mcp-adapter" tenant id, so a token *)
(* or a tenant header for t1 configures the adapter for another tenant.     *)
EXTENDS MCAuth, MCPAdapter

\* The manifest: "search" maps to the capability that needs scope s1,
\* "ping" to the open one; "nosuch" is a name it does not map.
MCTools == ("search" :> scoped) @@ ("ping" :> open)
MCToolNames == {"search", "ping", "nosuch"}

=============================================================================
