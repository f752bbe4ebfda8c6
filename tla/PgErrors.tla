----------------------------- MODULE PgErrors -----------------------------
(***************************************************************************)
(* Error codes (database/base/errors/db_error_codes.hpp) and how the       *)
(* PostgreSQL provider makes them from results and connections of libpq    *)
(* (postgresql/errors).                                                    *)
(*                                                                         *)
(* A SQLSTATE is a pair of its class and its last three characters.  The   *)
(* texts of an ErrorContext (message, detail, hint, context, position) are *)
(* left out; nothing depends on them.                                      *)
(***************************************************************************)
EXTENDS Naturals

ClientErrorCode ==
    [InvalidArgument |-> 100, SyntaxError |-> 101, InvalidParameter |-> 102,
     TypeMismatch |-> 103, NullConversion |-> 104, InvalidCast |-> 105, OutOfRange |-> 106,
     ConfigurationError |-> 200, ConnectionStringError |-> 201, AuthenticationError |-> 202,
     InvalidOption |-> 203, MissingParameter |-> 204,
     InvalidState |-> 300, NotConnected |-> 301, AlreadyConnected |-> 302,
     TransactionActive |-> 303, NoActiveTransaction |-> 304,
     PoolExhausted |-> 310, PoolShutdown |-> 311, WaitTimeout |-> 312]

ServerErrorCode ==
    [RuntimeError |-> 100, ConnectionError |-> 110, ConnectionLost |-> 111,
     ConnectionTimeout |-> 112, ConnectionRefused |-> 113, DeadlockDetected |-> 120,
     LockTimeout |-> 121, StatementTimeout |-> 122, SerializationFailure |-> 123,
     ConstraintViolation |-> 200, UniqueViolation |-> 201, ForeignKeyViolation |-> 202,
     CheckViolation |-> 203, NotNullViolation |-> 204, ExclusionViolation |-> 205,
     DataError |-> 300, DataTooLong |-> 301, NumericOverflow |-> 302, DivisionByZero |-> 303,
     InvalidDatetime |-> 304, InvalidEncoding |-> 305, InvalidTextFormat |-> 306,
     AccessError |-> 400, PermissionDenied |-> 401, ObjectNotFound |-> 402,
     DatabaseNotFound |-> 403, TableNotFound |-> 404, ColumnNotFound |-> 405,
     SchemaNotFound |-> 406, FunctionNotFound |-> 407,
     ResourceError |-> 500, OutOfMemory |-> 501, DiskFull |-> 502,
     TooManyConnections |-> 503, ConfigurationLimit |-> 504, QueryTooComplex |-> 505,
     TransactionError |-> 600, TransactionRollback |-> 601, TransactionAborted |-> 602,
     InvalidIsolationLevel |-> 603]

FatalErrorCode ==
    [InternalError |-> 1, CorruptionDetected |-> 2, ProtocolViolation |-> 3,
     AssertionFailure |-> 4, UnexpectedState |-> 5]

\* The constructors of ErrorCode.
Success   == [category |-> "success", code |-> 0]
Client(n) == [category |-> "client", code |-> ClientErrorCode[n]]
Server(n) == [category |-> "server", code |-> ServerErrorCode[n]]
Fatal(n)  == [category |-> "fatal", code |-> FatalErrorCode[n]]

\* ErrorCode::is_success() and operator bool.
is_success_code(c) == c.category = "success"

is_retryable(c) ==
    /\ c.category = "server"
    /\ \/ c.code \in 100..199
       \/ c.code \in 500..599
       \/ c.code \in {601, 602}

----------------------------------------------------------------------------
(* map_sqlstate: the codes of the classes that name some of theirs *)

NoCode == [category |-> "none"]

Class08(rest) ==
    CASE rest = "000" -> Server("ConnectionError")
      [] rest = "003" -> Client("NotConnected")
      [] rest = "006" -> Server("ConnectionLost")
      [] rest = "P01" -> Fatal("ProtocolViolation")
      [] OTHER        -> Server("ConnectionError")

Class22(rest) ==
    CASE rest = "000"            -> Server("DataError")
      [] rest = "001"            -> Server("DataTooLong")
      [] rest = "003"            -> Server("NumericOverflow")
      [] rest \in {"007", "008"} -> Server("InvalidDatetime")
      [] rest = "012"            -> Server("DivisionByZero")
      [] rest \in {"P02", "P04"} -> Server("InvalidTextFormat")
      [] rest = "P03"            -> Server("InvalidEncoding")
      [] OTHER                   -> Server("DataError")

Class23(rest) ==
    CASE rest \in {"000", "001"} -> Server("ConstraintViolation")
      [] rest = "502"            -> Server("NotNullViolation")
      [] rest = "503"            -> Server("ForeignKeyViolation")
      [] rest = "505"            -> Server("UniqueViolation")
      [] rest = "514"            -> Server("CheckViolation")
      [] rest = "P01"            -> Server("ExclusionViolation")
      [] OTHER                   -> Server("ConstraintViolation")

Class25(rest) ==
    CASE rest \in {"001", "P02"} -> Client("TransactionActive")
      [] rest \in {"P01", "P03"} -> Client("NoActiveTransaction")
      [] OTHER                   -> Client("InvalidState")

Class40(rest) ==
    CASE rest = "001"            -> Server("SerializationFailure")
      [] rest \in {"002", "003"} -> Server("TransactionAborted")
      [] rest = "P01"            -> Server("DeadlockDetected")
      [] OTHER                   -> Server("TransactionRollback")

Class42(rest) ==
    CASE rest = "501"                   -> Server("PermissionDenied")
      [] rest = "601"                   -> Client("SyntaxError")
      [] rest = "703"                   -> Server("ColumnNotFound")
      [] rest = "704"                   -> Server("ObjectNotFound")
      [] rest \in {"804", "846", "P18"} -> Client("TypeMismatch")
      [] rest = "830"                   -> Server("PermissionDenied")
      [] rest = "883"                   -> Server("FunctionNotFound")
      [] rest = "P01"                   -> Server("TableNotFound")
      [] rest = "P02"                   -> Client("InvalidParameter")
      [] rest = "P04"                   -> Server("DatabaseNotFound")
      [] rest \in {"P06", "P15"}        -> Server("SchemaNotFound")
      [] OTHER                          -> Client("SyntaxError")

Class53(rest) ==
    CASE rest = "100" -> Server("DiskFull")
      [] rest = "200" -> Server("OutOfMemory")
      [] rest = "300" -> Server("TooManyConnections")
      [] rest = "400" -> Server("ConfigurationLimit")
      [] OTHER        -> Server("ResourceError")

Class54(rest) ==
    CASE rest = "001"            -> Server("QueryTooComplex")
      [] rest \in {"011", "023"} -> Server("TooManyConnections")
      [] OTHER                   -> Server("ConfigurationLimit")

\* The SQLSTATEs of PostgreSQL that start with 57P.
Shutdown57 == {"P01", "P02", "P03", "P04", "P05"}

Class57(rest) ==
    CASE rest = "014"         -> Server("StatementTimeout")
      [] rest \in Shutdown57  -> Server("ConnectionError")
      [] OTHER                -> Server("RuntimeError")

ClassP0(rest) ==
    CASE rest = "002" -> Server("ObjectNotFound")
      [] rest = "003" -> Server("DataError")
      [] rest = "004" -> Client("InvalidParameter")
      [] OTHER        -> Server("RuntimeError")

map_sqlstate(sqlstate) ==
    LET class == sqlstate[1]
        rest  == sqlstate[2]
    IN  CASE class = "00" -> NoCode
          [] class = "08" -> Class08(rest)
          [] class = "0A" -> Client("InvalidOption")
          [] class = "20" -> Server("ObjectNotFound")
          [] class = "21" -> Server("DataError")
          [] class = "22" -> Class22(rest)
          [] class = "23" -> Class23(rest)
          [] class = "24" -> Client("InvalidState")
          [] class = "25" -> Class25(rest)
          [] class \in {"26", "34"} -> Client("InvalidArgument")
          [] class = "28" -> Client("AuthenticationError")
          [] class = "2B" -> Server("ConstraintViolation")
          [] class \in {"2D", "3B"} -> Server("TransactionError")
          [] class \in {"2F", "38", "39", "HV"} -> Server("RuntimeError")
          [] class = "3D" -> Server("DatabaseNotFound")
          [] class = "3F" -> Server("SchemaNotFound")
          [] class = "40" -> Class40(rest)
          [] class = "42" -> Class42(rest)
          [] class = "44" -> Server("CheckViolation")
          [] class = "53" -> Class53(rest)
          [] class = "54" -> Class54(rest)
          [] class = "55" -> IF rest \in {"P02", "P03"} THEN Server("LockTimeout") ELSE Client("InvalidState")
          [] class = "57" -> Class57(rest)
          [] class = "58" -> IF rest = "030" THEN Fatal("CorruptionDetected") ELSE Fatal("InternalError")
          [] class = "F0" -> Client("ConfigurationError")
          [] class = "P0" -> ClassP0(rest)
          [] class = "XX" -> IF rest \in {"001", "002"} THEN Fatal("CorruptionDetected") ELSE Fatal("InternalError")
          [] OTHER        -> Fatal("UnexpectedState")

----------------------------------------------------------------------------
(* Results and connections *)

NoSqlstate == <<"none", "none">>

map_exec_status(status) ==
    CASE status = "EMPTY_QUERY" -> Client("InvalidArgument")
      [] status \in {"COMMAND_OK", "TUPLES_OK", "COPY_OUT", "COPY_IN", "COPY_BOTH",
                     "SINGLE_TUPLE", "PIPELINE_SYNC", "TUPLES_CHUNK"} -> NoCode
      [] status = "PIPELINE_ABORTED" -> Server("TransactionAborted")
      [] status = "BAD_RESPONSE" -> Fatal("ProtocolViolation")
      [] status \in {"NONFATAL_ERROR", "FATAL_ERROR"} -> Server("RuntimeError")
      [] OTHER -> Fatal("UnexpectedState")

is_success_status(status) ==
    status \in {"COMMAND_OK", "TUPLES_OK", "COPY_OUT", "COPY_IN", "COPY_BOTH",
                "SINGLE_TUPLE", "PIPELINE_SYNC"}

\* extract_error_code, and the code of extract_error.
extract_error_code(result) ==
    IF is_success_status(result.status) THEN NoCode
    ELSE IF result.sqlstate # NoSqlstate THEN map_sqlstate(result.sqlstate)
    ELSE map_exec_status(result.status)

ErrorContext(code, sqlstate) == [type |-> "ErrorContext", code |-> code, sqlstate |-> sqlstate]

NoError == [type |-> "nullopt"]

extract_error(result) ==
    LET code == extract_error_code(result)
    IN  IF code = NoCode THEN NoError ELSE ErrorContext(code, result.sqlstate)

\* status: "null" for no connection, "OK", "BAD", or one of those a
\* connection passes through while it is made.
extract_connection_error(status) ==
    ErrorContext(CASE status = "null" -> Client("NotConnected")
                   [] status = "BAD"  -> Server("ConnectionLost")
                   [] OTHER           -> Server("RuntimeError"), NoSqlstate)

check_connection(status) ==
    CASE status = "null" -> Client("NotConnected")
      [] status = "OK"   -> Success
      [] status = "BAD"  -> Server("ConnectionLost")
      [] OTHER           -> Client("InvalidState")
============================================================================
