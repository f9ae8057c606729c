-------------------------- MODULE SeamlessInvariant --------------------------
(***************************************************************************)
(* The inductive invariant behind the safety properties of Seamless: what  *)
(* may be on its way in each direction at each point of the two processes. *)
(***************************************************************************)
EXTENDS Seamless

\* The points at which the host takes part in the protocol, and those at
\* which it forwards input.
Talking    == {"arm", "await", "loop", "recheck", "forward"}
Forwarding == {"loop", "recheck", "forward"}

\* What the host sends in the course of a handoff, and how the client
\* answers an Enter.
Benign  == {"Input", "Heartbeat", "DiagnosticPing"}
Replies == {"EnterAck", "EnterRejected"}

\* Facts about a queue q.
OnlyKinds(q, kinds) == \A i \in 1 .. Len(q) : q[i].kind \in kinds

AtMostOne(q, kinds) ==
  \A i, j \in 1 .. Len(q) : q[i].kind \in kinds /\ q[j].kind \in kinds => i = j

InputFirst(q) ==
  \A i \in 1 .. Len(q) :
    q[i].kind = "Input" => \A j \in 1 .. i : q[j].kind \in Benign

About(q, act) ==
  \A i \in 1 .. Len(q) : q[i].kind # "DiagnosticPong" => q[i].act = act

AllBenign == OnlyKinds(toClient, Benign)
OnlyPongs == OnlyKinds(toHost, {"DiagnosticPong"})

\* Input would be accepted or dropped, not taken for a violation.
ExpectsInput == remoteActive \/ returnPending

\* A handoff is not, or no longer, going on at the client.
Released == ~remoteActive \/ cpc \in {"exiting", "cleanup"}

-----------------------------------------------------------------------------
\* The sockets follow the processes, and what is queued for a closed one is
\* gone.
SocketsInv ==
  /\ hostOpen <=> hpc \in Talking \cup {"cleanup"}
  /\ clientOpen <=> cpc # "accept"
  /\ ~hostOpen => toHost = <<>>
  /\ ~clientOpen => toClient = <<>>

\* The controller follows the host's program, and the portal activation the
\* controller.
HostInv ==
  /\ hpc \in {"dead", "handshake", "arm"} => controller = Local /\ activation = 0
  /\ hpc = "await" => controller.tag = "EntryPending" /\ activation # 0
  /\ hpc \in Forwarding => controller = RemoteActive /\ activation # 0
  /\ hpc \in {"recheck", "forward"} => selected \in CapturedEvents
  /\ activation # 0 => lastActivation # 0

\* The client's flags follow its program.
ClientInv ==
  /\ remoteActive => entry \in Point /\ handoff # 0
  /\ pressed # {} => remoteActive
  /\ cpc = "accept" => ~remoteActive
  /\ remoteActive /\ returnPending => cpc = "exiting"
  /\ cpc = "exiting" => returnPending

\* On the way to the client: input comes first, and in a handoff; there is
\* one Enter at most, which finds the client released and is the last message
\* of a host that waits for its answer.
ToClientInv ==
  /\ InputFirst(toClient)
  /\ InFlight(toClient, "Input") => ExpectsInput
  /\ AtMostOne(toClient, {"Enter"})
  /\ InFlight(toClient, "Enter") =>
       /\ Released /\ OnlyPongs
       /\ hpc \in Talking =>
            /\ hpc = "await"
            /\ toClient[Len(toClient)].kind = "Enter"
            /\ toClient[Len(toClient)].act = lastActivation

\* On the way to the host: about this handoff, once each, in its time.
ToHostInv ==
  hpc \in Talking =>
    /\ About(toHost, lastActivation)
    /\ AtMostOne(toHost, Replies) /\ AtMostOne(toHost, {"ExitRequest"})
    /\ \A k \in Replies : InFlight(toHost, k) => hpc = "await"
    /\ InFlight(toHost, "EnterRejected") =>
         cpc \in {"cleanup", "accept"} /\ ~InFlight(toHost, "ExitRequest")
    /\ InFlight(toHost, "ExitRequest") =>
         hpc # "arm" /\ (clientOpen => returnPending /\ AllBenign)
    /\ InFlight(toHost, "EnterAck") /\ clientOpen => ExpectsInput /\ AllBenign

\* The handoff the two sides are in.
HandoffInv ==
  clientOpen =>
    /\ hpc = "arm" => Released
    /\ hpc \in Forwarding => ExpectsInput /\ AllBenign
    /\ hpc \in {"await"} \cup Forwarding /\ ~Released =>
         handoff = lastActivation /\ AllBenign

ProtocolInv ==
  SocketsInv /\ HostInv /\ ClientInv /\ ToClientInv /\ ToHostInv /\ HandoffInv
=============================================================================
