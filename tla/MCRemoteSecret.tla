--------------------------- MODULE MCRemoteSecret ---------------------------
(* Every way a server can refuse a request, per status and body.            *)
EXTENDS RemoteSecretMonitor

MCRefusals ==
    {Response(401, Code("InvalidCredentials")),
     Response(401, Code("ChallengeExpired")),
     Response(401, Code("InvalidChallengeResponse")),
     Response(429, Garbage),
     Response(500, Garbage),
     Response(200, Garbage),
     Response(200, AwkwardError)}
=============================================================================
