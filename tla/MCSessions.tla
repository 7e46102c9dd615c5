----------------------------- MODULE MCSessions -----------------------------
EXTENDS StreamSessions, TLC

CONSTANTS sse1, sub1, ws1, gs1, m1, m2

\* One session of each kind.
MCKindAll == (sse1 :> "sse") @@ (sub1 :> "grpc_sub") @@ (ws1 :> "ws")
                @@ (gs1 :> "grpc_stream")

\* A gRPC bidi stream alone.
MCKindGRPC == gs1 :> "grpc_stream"
====
