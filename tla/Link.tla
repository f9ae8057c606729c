------------------------------- MODULE Link --------------------------------
(***************************************************************************)
(* One authenticated connection between a host process and a client        *)
(* process (SecureConnection of src/src/transport.rs over TCP): a FIFO of  *)
(* messages in each direction, and which ends still hold their socket.     *)
(*                                                                         *)
(* A queue holds what was written and not yet read, in flight or buffered. *)
(* poll_receive may return None although its queue is not empty: the       *)
(* record has not arrived yet.  A cut link delivers nothing any more, not  *)
(* even the end of the stream; only timeouts notice it.                    *)
(***************************************************************************)
EXTENDS Naturals, Sequences

VARIABLES
  toClient,     \* messages from the host to the client
  toHost,       \* messages from the client to the host
  hostOpen,     \* the host process holds its end
  clientOpen,   \* the client process holds its end
  cut           \* the network silently drops everything

linkVars == <<toClient, toHost, hostOpen, clientOpen, cut>>

(***************************************************************************)
(* Messages (protocol.rs Message).  The field act is a history tag, never  *)
(* read by a guard: the portal activation during which the message was     *)
(* produced (by the host), or which the sender is answering (the client).  *)
(***************************************************************************)
NoBody == [tag |-> "None"]
Msg(kind, act, body) == [kind |-> kind, act |-> act, body |-> body]

InFlight(queue, kind) == \E i \in 1 .. Len(queue) : queue[i].kind = kind

LinkInit ==
  /\ toClient = <<>> /\ toHost = <<>>
  /\ hostOpen = FALSE /\ clientOpen = FALSE
  /\ cut = FALSE

\* SecureConnection::send.  What is written to a closed or cut connection is
\* lost; whether the writer is told is up to the operating system, so a write
\* on a broken connection may succeed like this or fail (see SendMayFail).
HostSend(m) ==
  toClient' = IF clientOpen /\ ~cut THEN Append(toClient, m) ELSE toClient
ClientSend(m) ==
  toHost' = IF hostOpen /\ ~cut THEN Append(toHost, m) ELSE toHost

HostSendMayFail   == ~clientOpen \/ cut
ClientSendMayFail == ~hostOpen \/ cut

\* The next record has arrived (poll_receive and receive return it).
HostCanRead   == ~cut /\ toHost # <<>>
ClientCanRead == ~cut /\ toClient # <<>>

\* The process at one end is gone or has dropped the connection: what the
\* other end sent and it did not read is discarded with the socket.
HostCloses   == hostOpen' = FALSE /\ toHost' = <<>>
ClientCloses == clientOpen' = FALSE /\ toClient' = <<>>

\* A new authenticated connection replaces the previous one.
LinkOpens ==
  /\ toClient' = <<>> /\ toHost' = <<>>
  /\ hostOpen' = TRUE /\ clientOpen' = TRUE
  /\ cut' = FALSE

LinkCut ==
  /\ hostOpen \/ clientOpen
  /\ ~cut
  /\ cut' = TRUE
  /\ UNCHANGED <<toClient, toHost, hostOpen, clientOpen>>
=============================================================================
