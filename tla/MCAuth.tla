------------------------------- MODULE MCAuth -------------------------------
(* Model-checking instance of AuthProjection: two tenants, one scope, a    *)
(* capability that requires it and one that requires none.                 *)
EXTENDS AuthProjection

CONSTANTS t1, t2, s1, scoped, open

MCCapScopes == (scoped :> {s1}) @@ (open :> {})

\* MIGD_AUTH_MODE spellings: unset, upper case, padded, unsupported.
MCModeNames == ("JWT" :> "jwt") @@ (" none " :> "none") @@ ("oauth" :> "oauth")
\* Environments migd may be started in: the auth mode, whether the JWT
\* secret is set, and MIGD_REQUIRE_TENANT_HEADER ("yes" does not parse).
MCEnvs == [authMode : {""} \cup DOMAIN MCModeNames, secret : BOOLEAN,
           requireTenant : {"", "true", "0", "yes"}]
\* The AuthConfigs those environments start migd with; and the jwt ones.
MCConfigs == {ConfigFromEnv(e) : e \in MCEnvs} \ {NoConfig}
MCJwtConfigs == {c \in MCConfigs : c.mode = "jwt"}

\* The operations: all of them, or invoke alone.
MCOps == {"invoke", "hello", "discover", "heartbeat", "publish", "cancel"}
MCInvokeOnly == {"invoke"}

\* Raw requested_bindings names and what ToLower(TrimSpace(.)) makes of them.
MCCanon == ("GRPC" :> "grpc") @@ ("nats" :> "nats") @@ ("http" :> "http")
           @@ ("websocket" :> "websocket") @@ ("grpc" :> "grpc") @@ ("" :> "")
MCBindingLists == {<<>>, <<"websocket">>, <<"websocket", "GRPC">>,
                   <<"GRPC", "nats">>, <<"websocket", "nats", "http">>}
\* A gRPC Hello's requested_bindings: none, an unspecified value alone or
\* before a known one, two known ones.
MCProtoBindingLists == {<<>>, <<"BINDING_TYPE_UNSPECIFIED">>,
                        <<"BINDING_TYPE_UNSPECIFIED", "BINDING_TYPE_NATS">>,
                        <<"BINDING_TYPE_GRPC", "BINDING_TYPE_HTTP">>}
MCVersionLists == {<<>>, <<"0.1">>, <<"0.2">>, <<"0.2", "0.1">>}

\* Discover queries: "" matches every capability, "sco" only the id
\* containing it.
MCQueries == ("" :> {scoped, open}) @@ ("sco" :> {scoped})

\* Publish topics: none, one without a namespace, a namespaced one.
MCPublishTopics == {"", "status", "obs.done"}
MCNamespaced == {"obs.done"}
\* Cancel targets: none, and one message id.
MCCancelTargets == {"", "m1"}

=============================================================================
