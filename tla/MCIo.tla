-------------------------------- MODULE MCIo --------------------------------
(***************************************************************************)
(* The input and the output of a connection for TLC: the bytes that come   *)
(* in (Connections), the requests and answers (RpcServer) and the redis    *)
(* service (Redis).  A behaviour runs the one that part names; the others  *)
(* stay in their first state.                                              *)
(***************************************************************************)
EXTENDS RpcServer, Redis

CONSTANTS ByteSize, HeadSize, BodySizes, MaxMessages

VARIABLES part, proto, bconn, ring, msgs, bstream, btaken, frames, echoed, bwants

B == INSTANCE Connections WITH Size <- ByteSize, conn <- bconn, stream <- bstream,
                               taken <- btaken, wants <- bwants

\* One request of each kind: a read of the object, a write for another type,
\* an answer at once or its refusal, a quit, a call without a handler, a create of an unknown
\* type.
CallNamed(n) == CHOOSE c \in Calls : c.name = n

AsksOfNumber ==
  {[call |-> CallNamed(n), plug |-> "number"] :
     n \in {"number_get", "sset_update", "transaction_create", "server_quit",
            "server_info"}}
  \cup {[call |-> CallNamed("semantic_create"), plug |-> "unknown"]}

bvars == <<proto, bconn, ring, msgs, bstream, btaken, frames, echoed, bwants>>
allVars == <<part, rvars, bvars, rdvars>>

AllInit ==
  /\ part \in {"bytes", "requests", "redis"}
  /\ Init /\ B!Init /\ RedisInit
  /\ part # "bytes" => proto = "rpc"   \* one first state of the other

OthersOfBytes == UNCHANGED <<part, rvars, rdvars>>
OthersOfRequests == UNCHANGED <<part, bvars, rdvars>>
OthersOfRedis == UNCHANGED <<part, rvars, bvars>>

AllNext ==
  \/ part = "bytes" /\ B!Next /\ OthersOfBytes
  \/ part = "requests" /\ Next /\ OthersOfRequests
  \/ part = "redis" /\ RedisNext /\ OthersOfRedis

\* The fairness of Connections and of RpcServer: the poll loop's thread runs
\* whatever it is at, and the workers run.
AllSpec ==
  /\ AllInit /\ [][AllNext]_allVars
  /\ WF_allVars(\/ part = "bytes" /\ (B!Read \/ B!RpcFull) /\ OthersOfBytes
                \/ part = "requests" /\ (Flush \/ Push(Io)) /\ OthersOfRequests)
  /\ WF_allVars(\/ part = "bytes" /\ B!Write /\ OthersOfBytes
                \/ part = "requests" /\ WriteEvent /\ OthersOfRequests)
  /\ \A w \in Workers :
       WF_allVars(/\ part = "requests"
                  /\ Push(w) \/ \E id \in tasks : Work(w, id)
                  /\ OthersOfRequests)

\* However the bytes are cut, the ring holds those that were read and not yet
\* used, over its end and its laps, the protocol is given the first messages,
\* in order, each once and with its own body, and what is echoed is what was
\* sent (Connections, for ringbuf.c, z_ipc_msgbuf_fetch and echo.c).
BytesExact ==
  part = "bytes" => B!TypeOK /\ B!RingExact /\ B!FramesExact /\ B!EchoExact

\* A whole frame is handed to the protocol, or the connection is closed, or
\* the ring has become full and is not looked at any more (Connections).
FramesArrive == B!FramesArrive
=============================================================================
