------------------------------ MODULE RpcCalls ------------------------------
(***************************************************************************)
(* The calls of the server (raleigh-server/raleighsl.c, stats.c): how each *)
(* one is carried out and what its answer reports.                         *)
(*                                                                         *)
(* exec: "lookup", "create", "unlink", "rename" on the semantic layer,     *)
(* "read", "write" on an object, "commit", "rollback" of a transaction,    *)
(* all as tasks; "now", answered by the thread that reads it; "drop",      *)
(* which closes the connection; "null", which has no handler.              *)
(* plug: the type of object it is for.  sets: the fields of its answer.    *)
(***************************************************************************)
Call(name, exec, plug, sets) ==
  [name |-> name, exec |-> exec, plug |-> plug, sets |-> sets]

SemanticCalls == {
  Call("semantic_open", "lookup", "any", {"oid"}),
  Call("semantic_create", "create", "any", {"oid"}),
  Call("semantic_delete", "unlink", "any", {}),
  Call("semantic_rename", "rename", "any", {})}

TransactionCalls == {
  Call("transaction_create", "now", "any", {"txn_id"}),
  Call("transaction_commit", "commit", "any", {}),
  Call("transaction_rollback", "rollback", "any", {})}

NumberCalls == {
  Call("number_get", "read", "number", {"value"}),
  Call("number_set", "write", "number", {}),
  Call("number_cas", "write", "number", {"value"}),
  Call("number_add", "write", "number", {"value"}),
  Call("number_mul", "write", "number", {"value"}),
  Call("number_div", "write", "number", {"mod", "value"})}

SSetCalls == {
  Call("sset_insert", "write", "sset", {}),
  Call("sset_update", "write", "sset", {"old_value"}),
  Call("sset_pop", "write", "sset", {"value"}),
  Call("sset_get", "read", "sset", {"value"}),
  Call("sset_scan", "read", "sset", {"keys", "values"})}

FlowCalls ==
  {Call("flow_read", "read", "flow", {"data"})} \cup
  {Call(n, "write", "flow", {"size"}) :
     n \in {"flow_append", "flow_inject", "flow_write", "flow_remove",
            "flow_truncate"}}

DequeCalls == {
  Call("deque_push", "write", "deque", {}),
  Call("deque_pop", "write", "deque", {"data"})}

ServerCalls == {
  Call("server_ping", "now", "any", {}),
  Call("server_info", "null", "any", {}),
  Call("server_quit", "drop", "any", {}),
  Call("server_debug", "now", "any", {})}

\* The usage of the process and of the poll, on a port of their own.
StatsCalls == {
  Call(n, "now", "any", {"usage"}) : n \in {"rusage", "memusage", "iopoll"}}

\* The table __raleighsl_protocol; any other type of message is dropped.
Calls ==
  SemanticCalls \cup TransactionCalls \cup NumberCalls \cup SSetCalls
    \cup FlowCalls \cup DequeCalls \cup ServerCalls \cup StatsCalls
    \cup {Call("unknown", "drop", "any", {})}

\* A create of an object whose type has no plugin is answered at once.
Scheduled(call, plug) ==
  /\ call.exec \notin {"now", "drop", "null"}
  /\ call.exec = "create" => plug # "unknown"

\* The answers of a call on an object of type plug, when the operation itself
\* ends with errno: the type is verified first, the fields are set last, and
\* an old value only when there is one.
Errno(call, plug, errno) ==
  CASE call.plug \notin {"any", plug} -> "OBJECT_WRONG_TYPE"
    [] call.plug \in {"any", plug} /\ call.exec = "create" /\ plug = "unknown" ->
         "PLUGIN_NOT_LOADED"
    [] OTHER -> errno

Fields(call, errno) ==
  CASE errno # "NONE" -> {{}}
    [] errno = "NONE" /\ call.sets = {"old_value"} -> {{}, call.sets}
    [] OTHER -> {call.sets}

Answers(call, plug, errno) ==
  LET e == Errno(call, plug, errno)
  IN  {[errno |-> e, fields |-> f] : f \in Fields(call, e)}

\* The answers that the thread that reads the call gives itself: it makes no
\* task of it, or there is no memory for a new transaction, or the transaction
\* of the call is not there or is closed.
Refusal == [errno |-> "FAILED", fields |-> {}]

AtOnce(call, plug) ==
  CASE call.exec = "now" ->
         Answers(call, plug, "NONE")
           \cup {a \in {Refusal} : call.name = "transaction_create"}
    [] call.exec = "create" /\ plug = "unknown" -> Answers(call, plug, "NONE")
    [] call.exec \in {"read", "write", "commit", "rollback"} -> {Refusal}
    [] OTHER -> {}
=============================================================================
