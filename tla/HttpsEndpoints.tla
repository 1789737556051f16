--------------------------- MODULE HttpsEndpoints ---------------------------
(* The HTTPS endpoints of the directory and of the work directory: the      *)
(* requests a task makes and what each of its errors comes from             *)
(* (https/mod.rs, https/endpoint.rs, https/directory.rs,                    *)
(* https/work_directory.rs). Pure operators.                                *)
(*                                                                          *)
(* A result is a status and a body; status 0 stands for an HttpsError (no   *)
(* response). A body is a record with the "type" of what it parses as.      *)
(* Headers, URLs, client info and credentials are left out.                 *)
EXTENDS Naturals

Ok == "Ok"

\* HttpsResult: the outcome of HttpsRequest::send.
Response(status, body) == [status |-> status, body |-> body]
Network == Response(0, [type |-> "none"])

Challenge == [type |-> "challenge"]
IdentityBody(identity) == [type |-> "identity", identity |-> identity]
TokenBody(token) == [type |-> "token", token |-> token]
SecretBody(secret, interval, limit) ==
    [type |-> "secret", secret |-> secret, interval |-> interval, limit |-> limit]
Success == [type |-> "success"]
\* The code of a 401, the "error" of an awkward response, and bytes that are
\* no JSON of any endpoint.
Code(code) == [type |-> "code", code |-> code]
AwkwardError == [type |-> "error"]
Garbage == [type |-> "garbage"]

\* A request that is signed answers an authentication challenge with the
\* client key; signer 0 asks for the challenge.
Request(endpoint, subject, identity, signer) ==
    [endpoint |-> endpoint, subject |-> subject, identity |-> identity, signer |-> signer]

CreateIdentityRequest(key, signer) == Request("CreateIdentity", key, 0, signer)
UpdateWorkPropertiesRequest(identity, signer) ==
    Request("UpdateWorkProperties", 0, identity, signer)
CreateRemoteSecretRequest(secret, identity, signer) ==
    Request("PutSecret", secret, identity, signer)
DeleteRemoteSecretRequest(token, identity, signer) ==
    Request("DeleteSecret", token, identity, signer)
\* Fetching is not bound to an identity: the token is enough.
RemoteSecretRequest(token) == Request("PostSecret", token, 0, 0)

-----------------------------------------------------------------------------
\* What an endpoint makes of a result: Ok, or the HttpsEndpointError.

\* directory.rs, handle_status
DirectoryStatus(result) ==
    CASE result.status = 0 -> "NetworkError"
      [] result.status \in {200, 204} -> Ok
      [] result.status = 401 -> "InvalidCredentials"
      [] result.status = 429 -> "RateLimitExceeded"
      [] OTHER -> "UnexpectedStatus"

UnauthorizedDetails(body) ==
    IF body.type = "code" /\ body.code \in {"ChallengeExpired", "InvalidChallengeResponse"}
    THEN body.code
    ELSE "InvalidCredentials"

\* work_directory.rs, handle_status
WorkStatus(result) ==
    IF result.status = 401
    THEN UnauthorizedDetails(result.body)
    ELSE DirectoryStatus(result)

\* serde_json::from_slice into the type an endpoint expects.
Decoded(error, result, types) ==
    IF error = Ok /\ result.body.type \notin types THEN "DecodingFailed" ELSE error

\* directory.rs, handle_status_and_awkward_response
DirectoryAwkward(result) ==
    LET error == DirectoryStatus(result) IN
    CASE error # Ok -> error
      [] error = Ok /\ result.status # 200 -> "UnexpectedStatus"
      [] error = Ok /\ result.status = 200 /\ result.body.type = "error" -> "CustomError"
      [] OTHER -> Decoded(Ok, result, {"success", "identity"})

DirectoryChallengeError(result) == Decoded(DirectoryStatus(result), result, {"challenge"})
CreateIdentityError(result) == Decoded(DirectoryAwkward(result), result, {"identity"})
UpdateWorkPropertiesError(result) == DirectoryAwkward(result)
WorkChallengeError(result) == Decoded(WorkStatus(result), result, {"challenge"})
CreateRemoteSecretError(result) == Decoded(WorkStatus(result), result, {"token"})
DeleteRemoteSecretError(result) == WorkStatus(result)

RemoteSecretError(result) ==
    CASE result.status = 403 -> "Forbidden"
      [] result.status = 404 -> "NotFound"
      [] OTHER -> Decoded(WorkStatus(result), result, {"secret"})

\* From<HttpsEndpointError>, the same for CspE2eProtocolError and for
\* RemoteSecretSetupError.
TaskError(error) ==
    CASE error \in {"NetworkError", "ChallengeExpired"} -> "NetworkError"
      [] error \in {"InvalidCredentials", "RateLimitExceeded"} -> error
      [] OTHER -> "ServerError"
=============================================================================
