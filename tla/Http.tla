-------------------------------- MODULE Http --------------------------------
(***************************************************************************)
(* What a handler ends in: the value it returns, or the NestJS exception it*)
(* throws (an error nobody mapped to one leaves as a 500).                 *)
(***************************************************************************)
EXTENDS Schema

Ok(value) == [kind |-> "ok", value |-> value]

Exception(kind) == [kind |-> kind, value |-> Null]

ExceptionKind ==
    {"unauthorized", "unlinked", "forbidden", "not found", "bad request", "conflict",
     "server error"}

\* Null stands for "no answer yet", which is not one.
ASSUME NoAnswerAssumption == \A kind \in ExceptionKind : Null # Exception(kind)

Unauthorized == Exception("unauthorized")   \* 401
Forbidden == Exception("forbidden")         \* 403
NotFound == Exception("not found")          \* 404
BadRequest == Exception("bad request")      \* 400
Conflict == Exception("conflict")           \* 409
ServerError == Exception("server error")    \* 500

=============================================================================
