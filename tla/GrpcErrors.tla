----------------------------- MODULE GrpcErrors -----------------------------
(***************************************************************************)
(* What becomes of an error that crosses from one service to another over  *)
(* gRPC (packages/grpc/src/errors/mapper.ts): the server turns it into a   *)
(* gRPC status, the client turns that into the ApiError its own caller     *)
(* sees.                                                                   *)
(***************************************************************************)
EXTENDS Naturals

(* Codes and the HTTP status a service throws them with; a service's own   *)
(* codes, here OTHER, come with any of the error statuses it uses.         *)
COMMON_ERROR_CODES ==
  [NOT_FOUND |-> 404, INVALID_INPUT |-> 400, UNAUTHORIZED |-> 401, FORBIDDEN |-> 403,
   CONFLICT |-> 409, RATE_LIMIT_EXCEEDED |-> 429, SERVICE_UNAVAILABLE |-> 503,
   KAFKA_PUBLISH_FAILED |-> 503, INTERNAL_ERROR |-> 500]

ApiError(code, http) == [is |-> "ApiError", code |-> code, http |-> http]

ApiErrors ==
  {ApiError(c, COMMON_ERROR_CODES[c]) : c \in DOMAIN COMMON_ERROR_CODES}
    \cup {ApiError("OTHER", h) : h \in {400, 401, 403, 404, 409, 422, 429, 500, 503}}

byHttpStatus(h) ==
  CASE h = 404 -> "NOT_FOUND" [] h \in {400, 422} -> "INVALID_ARGUMENT"
    [] h = 401 -> "UNAUTHENTICATED" [] h = 403 -> "PERMISSION_DENIED"
    [] h = 409 -> "ALREADY_EXISTS" [] h = 429 -> "RESOURCE_EXHAUSTED"
    [] h = 503 -> "UNAVAILABLE" [] OTHER -> "INTERNAL"

byCode ==
  [NOT_FOUND |-> "NOT_FOUND", INVALID_INPUT |-> "INVALID_ARGUMENT",
   UNAUTHORIZED |-> "UNAUTHENTICATED", FORBIDDEN |-> "PERMISSION_DENIED",
   CONFLICT |-> "ALREADY_EXISTS", RATE_LIMIT_EXCEEDED |-> "RESOURCE_EXHAUSTED",
   SERVICE_UNAVAILABLE |-> "UNAVAILABLE", KAFKA_PUBLISH_FAILED |-> "UNAVAILABLE"]

mapApiCodeToGrpcStatus(code, http) ==
  IF code \in DOMAIN byCode THEN byCode[code] ELSE byHttpStatus(http)

(* A failed schema check is a ZodError. *)
mapToGrpcError(e) ==
  CASE e.is = "ZodError" -> "INVALID_ARGUMENT"
    [] e.is = "ApiError" -> mapApiCodeToGrpcStatus(e.code, e.http)
    [] OTHER -> "INTERNAL"

mapGrpcStatusToHttpStatus(status) ==
  CASE status = "NOT_FOUND" -> 404 [] status = "INVALID_ARGUMENT" -> 400
    [] status = "UNAUTHENTICATED" -> 401 [] status = "PERMISSION_DENIED" -> 403
    [] status = "ALREADY_EXISTS" -> 409 [] status = "RESOURCE_EXHAUSTED" -> 429
    [] status = "UNAVAILABLE" -> 503 [] status = "DEADLINE_EXCEEDED" -> 504
    [] OTHER -> 500

(* The code is INTERNAL_ERROR whatever the status was. *)
mapGrpcClientErrorToApiError(status) ==
  ApiError("INTERNAL_ERROR", mapGrpcStatusToHttpStatus(status))

Relayed(e) == mapGrpcClientErrorToApiError(mapToGrpcError(e))

(* An error keeps its HTTP status across a call, apart from 422, which     *)
(* becomes 400, and a second call in a row changes nothing more: the code  *)
(* is lost on the first one, and the status still tells the errors apart.  *)
ASSUME ErrorsKeepTheirStatus ==
  /\ \A e \in ApiErrors :
       /\ Relayed(e).http = IF e.http = 422 THEN 400 ELSE e.http
       /\ Relayed(Relayed(e)) = Relayed(e)
  /\ Relayed([is |-> "ZodError"]).http = 400
  /\ Relayed([is |-> "Error"]).http = 500
=============================================================================
