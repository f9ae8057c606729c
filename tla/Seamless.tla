------------------------------ MODULE Seamless ------------------------------
(***************************************************************************)
(* The seamless mode: one host and one client process, the connection      *)
(* between them, and what may go wrong around them.                        *)
(***************************************************************************)
EXTENDS SeamlessHost, SeamlessClient

CONSTANT MaxFaults   \* bound: crashes, lost portal sessions, cut links

ASSUME FaultAssumption == MaxFaults \in Nat

VARIABLE faults

vars == <<hostVars, clientVars, linkVars, faults>>

Init == HostInit /\ ClientInit /\ LinkInit /\ faults = 0

-----------------------------------------------------------------------------
\* The client accepts the host's connection and both handshakes complete.
\* The client has dropped its previous connection by then, the host process
\* is a new one.
SessionStarts ==
  /\ HostSessionStarts
  /\ ClientSessionStarts
  /\ LinkOpens
  /\ UNCHANGED faults

\* A step of one side leaves the other side's own state alone.
HostDoes(A)   == A /\ UNCHANGED <<clientVars, faults>>
ClientDoes(A) == A /\ UNCHANGED <<hostVars, faults>>

HostActs   == HostDoes(HostStep)
ClientActs == ClientDoes(ClientStep)

User    == UserInput /\ UNCHANGED <<clientVars, faults>>
Barrier == BarrierHit /\ UNCHANGED <<hostVars, faults>>

\* A host that cannot finish its handshake (wrong key, connect window over)
\* ends like a killed one; the client goes on accepting.
Fault ==
  /\ faults < MaxFaults
  /\ faults' = faults + 1
  /\ \/ HostCrash /\ UNCHANGED clientVars
     \/ CaptureEnds /\ UNCHANGED clientVars
     \/ PollExitFails /\ UNCHANGED hostVars
     \/ ClientCrash /\ UNCHANGED hostVars
     \/ LinkCut /\ UNCHANGED <<hostVars, clientVars>>

Next == SessionStarts \/ HostActs \/ ClientActs \/ User \/ Barrier \/ Fault

Spec == Init /\ [][Next]_vars

(***************************************************************************)
(* Fairness.  Each process keeps running its loop, the network delivers    *)
(* what a connection that is not cut carries, and timeouts expire.  Nothing*)
(* is assumed of the user, the pointer at the barrier, or of faults.       *)
(*   Every turn of a loop polls the connection, but the process is at other*)
(* points of the loop in between: strong fairness for reading a message.   *)
(* A read at the end of the stream fails at the next turn (ClientIoError   *)
(* when the host has gone); on a cut connection only the writer is told, by*)
(* the retransmission timeout of TCP (HostIoError: the heartbeats write),  *)
(* and the client's own five-second limit ends an active handoff.  A client*)
(* without an active handoff is never told: there is no fairness for it.   *)
(***************************************************************************)
HandleMessage ==
  \/ HandleEnter \/ HandleEnterFails \/ HandleInput \/ HandleInputFails
  \/ HandleHeartbeat \/ HandlePing \/ HandleRelease

Fairness ==
  /\ WF_vars(SessionStarts)
  /\ WF_vars(HostDoes(HostConnect))
  /\ WF_vars(HostDoes(ReceiveReply \/ ReplyFails))
  /\ SF_vars(HostDoes(PollControl))
  /\ WF_vars(HostDoes(hpc = "forward" /\ Forward))
  /\ WF_vars(HostDoes(HostIoError))
  /\ WF_vars(HostDoes(HostCleanup))
  /\ WF_vars(ClientDoes(PollExit))
  /\ WF_vars(ClientDoes(FinishExit))
  /\ WF_vars(ClientDoes(ClientCleanup))
  /\ SF_vars(ClientDoes(HandleMessage))
  /\ SF_vars(ClientDoes(~hostOpen /\ ~cut /\ ClientIoError))
  /\ SF_vars(ClientDoes(cut /\ PeerTimeout))

LiveSpec == Spec /\ Fairness

-----------------------------------------------------------------------------
(***************************************************************************)
(* Safety.                                                                 *)
(***************************************************************************)

Acts == 0 .. MaxActivations

\* Type invariant: every variable of both processes and of the connection
\* stays in its range.
TypeOK ==
  /\ hpc \in HostPoints /\ cpc \in ClientPoints
  /\ controller \in ControllerStates
  /\ activation \in Acts /\ lastActivation \in Acts /\ handoff \in Acts
  /\ captured \in Seq(CapturedEvents)
  /\ selected \in CapturedEvents \cup {NoEvent}
  /\ entry \in Point \cup {NoEntry}
  /\ pressed \subseteq [control : Controls, act : Acts]
  /\ barrier \in Seq(Acts)
  /\ toClient \in Seq(HostMessages) /\ toHost \in Seq(ClientMessages)
  /\ {pendingProbe, remoteActive, returnPending, hostOpen, clientOpen, cut}
       \subseteq BOOLEAN
  /\ faults \in 0 .. MaxFaults

\* The client is in a session with the host that now runs.
InSession == hostOpen /\ clientOpen /\ cpc \in {"top", "recv", "exiting"}

ClientReads(kind) == cpc = "recv" /\ ClientCanRead /\ Head(toClient).kind = kind

\* The client never meets input outside a handoff, its InputBeforeEntry error
\* (SeamlessClient::handle): the host forwards only after the acknowledgement,
\* and what it forwards after the client has asked for the return arrives
\* before the release that clears return_pending.
NoInputBeforeEntry == ClientReads("Input") => remoteActive \/ returnPending

\* Nor does it meet an Enter in the course of a handoff: the EnterRejected
\* branch of handle is never taken, because the host's release of the last
\* handoff is always read first.
NoEnterWhileActive == ClientReads("Enter") => ~remoteActive

\* A client that is under remote control is controlled by the handoff the
\* host believes in, or its release is on the way, or the host or the network
\* has gone (then PEER_TIMEOUT_MS or the end of the stream frees it).
ClientNotOrphaned ==
  remoteActive /\ hostOpen /\ ~cut /\ cpc # "cleanup" =>
    \/ controller # Local /\ handoff = lastActivation
    \/ InFlight(toClient, "HandoffRelease")
    \/ hpc = "cleanup"

\* A host whose user types to the peer has a client that takes the input, in
\* this handoff, or an ExitRequest on the way that brings the user back, or
\* an error to be found on the connection.
HostNotOrphaned ==
  controller = RemoteActive /\ hpc # "cleanup" /\ InSession /\ ~cut =>
    \/ remoteActive /\ handoff = lastActivation
    \/ InFlight(toHost, "ExitRequest")

\* A control the injector holds down is held in a handoff: every way out of
\* one releases it (the safety invariant of the session loop, main.rs).
NoStuckControls == pressed # {} => remoteActive

\* The compositor gives the physical input to the peer (an activation is
\* live) only while the controller has left Local, or the host is on its way
\* out; and a controller that has left Local always has one to release.
CaptureMatchesController ==
  hpc # "cleanup" => (activation # 0 <=> controller # Local)

\* What the client answers or asks is about the handoff the host is in: no
\* acknowledgement, refusal or return of an earlier handoff is still on its
\* way when the next one starts.  (A late DiagnosticPong may be: see
\* ProbeHarmless.)
AnswersThisActivation ==
  hpc \notin {"dead", "handshake", "cleanup"} =>
    \A i \in 1 .. Len(toHost) :
      toHost[i].kind # "DiagnosticPong" => /\ toHost[i].act = lastActivation
                                          /\ hpc # "arm"

-----------------------------------------------------------------------------
(***************************************************************************)
(* Liveness.                                                               *)
(***************************************************************************)

\* A return the client has asked for is carried out, whatever else is queued
\* and whichever side then fails: the user's input comes back to the host.
ExitHonoured == InFlight(toHost, "ExitRequest") ~> controller = Local

\* When the client has gone or the network has failed, an activation the host
\* holds is released: the user is not left without a working pointer.
InputComesBack == activation # 0 /\ (~clientOpen \/ cut) ~> activation = 0

\* When the host has gone or the network has failed, a client under remote
\* control lets go of it (and so of every control it holds down).
ClientFreed == remoteActive /\ (~hostOpen \/ cut) ~> ~remoteActive

\* A host process that connects gets its session, unless the network failed
\* under the client's previous one: the client serves one connection at a
\* time and notices the end of the last by reading it.
Reconnects == hpc = "handshake" ~> hpc # "handshake" \/ cut

-----------------------------------------------------------------------------
(***************************************************************************)
(* What the comments say of the code and its runs refute.                  *)
(***************************************************************************)

\* A latency probe "has no effect on the active handoff" (protocol.rs): the
\* host that reads its echo goes on as it was.
ProbeHarmless ==
  [][ HostCanRead /\ Head(toHost).kind = "DiagnosticPong" /\ toHost' = Tail(toHost)
        => hpc' # "cleanup" ]_vars

\* Input that the user made in one handoff is not injected after the client
\* has been released from it ("Never inject it after releasing the client
\* side", seamless.rs): what the client injects belongs to its handoff.
InjectsThisHandoff ==
  ClientReads("Input") /\ remoteActive => Head(toClient).act = handoff
=============================================================================
