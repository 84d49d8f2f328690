-------------------------------- MODULE Common --------------------------------
(***************************************************************************)
(* How functions of the library end (common/status_code.h, status.h,       *)
(* msgpack_rpc_exception.h): with a value, or with an exception that       *)
(* carries the code of a failure.  Messages of failures are left out.      *)
(***************************************************************************)

StatusCodes ==
    {"SUCCESS", "INVALID_ARGUMENT", "INVALID_MESSAGE", "TYPE_ERROR",
     "PRECONDITION_NOT_MET", "OPERATION_ABORTED", "OPERATION_FAILURE",
     "HOST_UNRESOLVED", "CONNECTION_FAILURE", "TIMEOUT", "SERVER_ERROR",
     "UNEXPECTED_ERROR"}

\* A Status of success holds no data; a value is returned beside it.
Returns(v) == [code |-> "SUCCESS", value |-> v]

\* A MsgpackRPCException holds the status of a failure and no value.
Throws(code) == [code |-> code, value |-> <<>>]

Failures == StatusCodes \ {"SUCCESS"}
Succeeded(r) == r.code \notin Failures
=============================================================================
