---------------------------- MODULE SeamlessHost ----------------------------
(***************************************************************************)
(* The input-owning side: SeamlessHost (src/src/seamless.rs) driven by     *)
(* run_seamless_host_with_capture (src/src/main.rs), with the controller   *)
(* of Handoff and the portal capture behind the CaptureBackend trait.      *)
(*                                                                         *)
(* The capture backend is kept at the level its trait promises: the        *)
(* compositor gives each activation a fresh id, the adapter remembers the  *)
(* id it must release, and what the user types while an activation is      *)
(* live waits, in order, in the EIS socket and the adapter's own queue.    *)
(***************************************************************************)
EXTENDS Handoff, Link

CONSTANTS
  Layout,          \* displays and edge of the host's HandoffController
  ActivationYs,    \* rounded cursor heights a barrier activation may report
  Controls,        \* keys and buttons the user presses
  MaxActivations,  \* bound: activations explored
  MaxCaptured,     \* bound: events waiting in the capture at once
  MaxInFlight      \* bound: messages to the client beyond which the
                   \* (blocking) writer waits for input and heartbeats

ASSUME HostAssumption ==
  /\ Layout \in Layouts
  /\ ActivationYs \subseteq Int
  /\ MaxActivations \in Nat /\ MaxCaptured \in Nat /\ MaxInFlight \in Nat

VARIABLES
  hpc,             \* where the host process is
  activation,      \* active_activation: the activation to release, 0 for None
  lastActivation,  \* the compositor's last activation id
  captured,        \* events captured and not yet taken by next_input
  selected,        \* the event next_input returned and forward has not sent
  pendingProbe     \* pending_probe is Some

hostVars ==
  <<hpc, controller, activation, lastActivation, captured, selected,
    pendingProbe>>

\* "dead": no process.  "handshake": TCP connected, Noise handshake running.
\* "arm": wait_for_left_activation.  "await": receive() after Enter.
\* "loop": head of the forward_next loop.  "recheck": an event is selected,
\* control not yet polled again.  "forward": control polled, still active.
\* "cleanup": the loop ended with an error, host.close() is next.
HostPoints == {"dead", "handshake", "arm", "await", "loop", "recheck",
               "forward", "cleanup"}

\* A captured event: the state change of a control, and the activation in
\* whose course the user made it.  Events without lasting effect (motion,
\* scroll, a repeated release) behave as the release of a control not held.
CapturedEvents == [act : 1 .. MaxActivations, control : Controls, down : BOOLEAN]
NoEvent == [act |-> 0, control |-> "none", down |-> FALSE]

\* What the host may write.
HostMessages ==
  [kind : {"Enter"}, act : 1 .. MaxActivations, body : Point] \cup
  [kind : {"Input"}, act : 1 .. MaxActivations,
   body : [control : Controls, down : BOOLEAN]] \cup
  [kind : {"Heartbeat", "DiagnosticPing", "HandoffRelease"},
   act : 0 .. MaxActivations, body : {NoBody}]

HostInit ==
  /\ HandoffInit
  /\ hpc = "dead"
  /\ activation = 0 /\ lastActivation = 0
  /\ captured = <<>> /\ selected = NoEvent
  /\ pendingProbe = FALSE

-----------------------------------------------------------------------------
(***************************************************************************)
(* The user and the compositor.                                            *)
(***************************************************************************)

\* While an activation is live every event goes to the capture session, from
\* the moment of the activation and not only once the peer has acknowledged.
UserInput ==
  /\ activation # 0
  /\ Len(captured) < MaxCaptured
  /\ \E c \in Controls, d \in BOOLEAN :
       captured' = Append(captured, [act |-> activation, control |-> c, down |-> d])
  /\ UNCHANGED <<hpc, controller, activation, lastActivation, selected,
                 pendingProbe, linkVars>>

-----------------------------------------------------------------------------
(***************************************************************************)
(* Starting up.                                                            *)
(***************************************************************************)

\* The user service starts the process and TcpStream::connect succeeds: the
\* client's kernel accepts the connection even while its process is busy.
HostConnect ==
  /\ hpc = "dead"
  /\ hpc' = "handshake"
  /\ UNCHANGED <<controller, activation, lastActivation, captured, selected,
                 pendingProbe, linkVars>>

\* The host's half of an established session: capture armed, state Local.
HostSessionStarts ==
  /\ hpc = "handshake"
  /\ hpc' = "arm"
  /\ UNCHANGED <<controller, activation, lastActivation, captured, selected,
                 pendingProbe>>

-----------------------------------------------------------------------------
(***************************************************************************)
(* activate_once.                                                          *)
(***************************************************************************)

HostCloseKeeps ==   \* mutant: the portal activation is not released
  /\ UNCHANGED activation
  /\ DisconnectOrCancel
  /\ IF controller.tag = "Local" THEN UNCHANGED toClient
     ELSE HostSend(Msg("HandoffRelease", lastActivation, NoBody))

\* SeamlessHost::close: release local input first, then tell the peer.
HostClose ==
  /\ activation' = 0
  /\ DisconnectOrCancel
  /\ IF controller.tag = "Local" THEN UNCHANGED toClient
     ELSE HostSend(Msg("HandoffRelease", lastActivation, NoBody))

BarrierPoint(y) == [x |-> EdgeX(Layout.local, Layout.edge), y |-> y]

\* wait_for_left_activation returns; ask the peer.  The socket is not read
\* while the host waits for an activation.
Activate(y) ==
  /\ hpc = "arm"
  /\ lastActivation < MaxActivations
  /\ lastActivation' = lastActivation + 1
  /\ activation' = lastActivation'
  /\ LocalEdgeActivated(Layout, BarrierPoint(y))
  /\ \/ /\ HostSend(Msg("Enter", lastActivation', controller'.entry))
        /\ hpc' = "await"
     \/ /\ HostSendMayFail
        /\ hpc' = "cleanup"
        /\ UNCHANGED toClient
  /\ UNCHANGED <<captured, selected, pendingProbe, toHost, hostOpen,
                 clientOpen, cut>>

\* The reported height is outside the configured display: InvalidActivation.
ActivateOutside(y) ==
  /\ hpc = "arm"
  /\ lastActivation < MaxActivations
  /\ lastActivation' = lastActivation + 1
  /\ activation' = lastActivation'
  /\ ~OnDepartureEdge(Layout, BarrierPoint(y))
  /\ hpc' = "cleanup"
  /\ UNCHANGED <<controller, captured, selected, pendingProbe, linkVars>>

\* The blocking receive() after Enter.  The capture may fail to begin, or the
\* portal to release: then the call has done its part and the host ends.
ReceiveReply ==
  /\ hpc = "await"
  /\ HostCanRead
  /\ toHost' = Tail(toHost)
  /\ \/ /\ Head(toHost).kind = "EnterAck"
        /\ PeerEntryAcknowledged
        /\ hpc' \in {"loop", "cleanup"}
        /\ UNCHANGED <<activation, toClient>>
     \/ /\ Head(toHost).kind = "EnterRejected"
        /\ PeerEntryRejected
        /\ activation' = 0            \* return_to_local
        /\ hpc' \in {"arm", "cleanup"}
        /\ UNCHANGED toClient
     \/ /\ Head(toHost).kind \notin {"EnterAck", "EnterRejected"}
        /\ HostClose                  \* UnexpectedControl
        /\ hpc' = "cleanup"
  /\ UNCHANGED <<lastActivation, captured, selected, pendingProbe, hostOpen,
                 clientOpen, cut>>

ReplyFailsLocally ==   \* mutant: a timeout is treated like a rejection
  /\ hpc = "await"
  /\ PeerEntryRejected
  /\ activation' = 0
  /\ hpc' = "arm"
  /\ UNCHANGED <<lastActivation, captured, selected, pendingProbe, linkVars>>

\* receive() fails: five seconds without an answer, end of stream, reset.
ReplyFails ==
  /\ hpc = "await"
  /\ hpc' = "cleanup"
  /\ UNCHANGED <<controller, activation, lastActivation, captured, selected,
                 pendingProbe, linkVars>>

-----------------------------------------------------------------------------
(***************************************************************************)
(* forward_next.  A call that polls an empty queue, has no event and sends *)
(* no heartbeat changes nothing; so its parts that do change something are *)
(* actions of their own, in the order the code runs them.                  *)
(***************************************************************************)

AfterControlUnchecked ==   \* mutant: the state is not tested after the second poll
  IF hpc = "recheck" THEN "forward"
  ELSE IF controller'.tag = "Local" THEN "arm" ELSE "loop"

\* What poll_control leads to: back to activate_once when the handoff ended,
\* else on with the call that polled.
AfterControl == IF controller'.tag = "Local" THEN "arm"
                ELSE IF hpc = "loop" THEN "loop" ELSE "forward"

PollPointsLate == {"recheck"}   \* mutant: only after an event

\* Where forward_next polls: before and after it waits for an event.
PollPoints == {"loop", "recheck"}

\* poll_control with one message.  Only ExitRequest can end the handoff, and
\* an event selected before it is dropped.  (The code also accepts Heartbeat,
\* and closes on HandoffRelease, ReleaseAll and Goodbye: no client sends them.)
PollControl ==
  /\ hpc \in PollPoints
  /\ HostCanRead
  /\ toHost' = Tail(toHost)
  /\ LET m == Head(toHost) IN
     \/ /\ m.kind = "DiagnosticPong"
        /\ pendingProbe' = FALSE
        /\ UNCHANGED <<controller, activation, selected, toClient>>
        /\ hpc' = AfterControl
     \/ /\ m.kind = "ExitRequest"
        /\ PeerExitActivated(Layout, m.body.edge, m.body.at)
        /\ activation' = 0            \* return_to_local
        /\ \/ /\ HostSend(Msg("HandoffRelease", lastActivation, NoBody))
              /\ hpc' = AfterControl
           \/ /\ hpc' = "cleanup"     \* the portal does not release
              /\ UNCHANGED toClient
        /\ selected' = NoEvent
        /\ UNCHANGED pendingProbe
     \/ /\ \/ m.kind \notin {"DiagnosticPong", "ExitRequest"}
           \/ m.kind = "ExitRequest" /\ ~OnReturnEdge(Layout, m.body.edge, m.body.at)
        /\ HostClose                  \* UnexpectedControl
        /\ hpc' = "cleanup"
        /\ selected' = NoEvent
        /\ UNCHANGED pendingProbe
  /\ UNCHANGED <<lastActivation, captured, hostOpen, clientOpen, cut>>

\* maybe_send_latency_probe: at most one probe outstanding.
SendProbe ==
  /\ hpc = "loop"
  /\ ~pendingProbe
  /\ pendingProbe' = TRUE
  /\ HostSend(Msg("DiagnosticPing", lastActivation, NoBody))
  /\ UNCHANGED <<hpc, controller, activation, lastActivation, captured,
                 selected, toHost, hostOpen, clientOpen, cut>>

NextInput ==
  /\ hpc = "loop"
  /\ captured # <<>>
  /\ selected' = Head(captured)
  /\ captured' = Tail(captured)
  /\ hpc' = "recheck"
  /\ UNCHANGED <<controller, activation, lastActivation, pendingProbe, linkVars>>

\* No event for a second.  MaxInFlight bounds the heartbeats not yet read.
SendHeartbeat ==
  /\ hpc = "loop"
  /\ Len(toClient) < MaxInFlight /\ ~InFlight(toClient, "Heartbeat")
  /\ HostSend(Msg("Heartbeat", lastActivation, NoBody))
  /\ UNCHANGED <<hostVars, toHost, hostOpen, clientOpen, cut>>

ForwardNothing ==   \* mutant: forwards although no event was selected
  /\ hpc \in {"loop", "recheck", "forward"}
  /\ Len(toClient) < MaxInFlight
  /\ HostSend(Msg("Input", selected.act,
                  [control |-> selected.control, down |-> selected.down]))
  /\ selected' = NoEvent
  /\ hpc' = "loop"
  /\ UNCHANGED <<controller, activation, lastActivation, captured,
                 pendingProbe, toHost, hostOpen, clientOpen, cut>>

\* forward, after the second poll_control found nothing or left it active.
Forward ==
  /\ hpc \in {"recheck", "forward"}
  /\ Len(toClient) < MaxInFlight
  /\ HostSend(Msg("Input", selected.act,
                  [control |-> selected.control, down |-> selected.down]))
  /\ selected' = NoEvent
  /\ hpc' = "loop"
  /\ UNCHANGED <<controller, activation, lastActivation, captured,
                 pendingProbe, toHost, hostOpen, clientOpen, cut>>

-----------------------------------------------------------------------------
(***************************************************************************)
(* Failures.                                                               *)
(***************************************************************************)

\* A poll, probe, heartbeat or forward fails on a broken connection.
HostIoError ==
  /\ hpc \in {"loop", "recheck", "forward"}
  /\ HostSendMayFail
  /\ hpc' = "cleanup"
  /\ selected' = NoEvent
  /\ UNCHANGED <<controller, activation, lastActivation, captured,
                 pendingProbe, linkVars>>

\* The compositor ends the capture session: wait_for_left_activation or
\* next_input returns BrokenPipe.
CaptureEnds ==
  /\ hpc \in {"arm", "loop"}
  /\ hpc' = "cleanup"
  /\ UNCHANGED <<controller, activation, lastActivation, captured, selected,
                 pendingProbe, linkVars>>

\* The process is gone: its portal session and its socket go with it.
HostProcessEnds ==
  /\ hpc' = "dead"
  /\ HostCloses
  /\ captured' = <<>> /\ selected' = NoEvent
  /\ pendingProbe' = FALSE
  /\ UNCHANGED <<lastActivation, clientOpen, cut>>

\* host.close() after the loop, then the process exits with the error.
HostCleanup ==
  /\ hpc = "cleanup"
  /\ HostClose
  /\ HostProcessEnds

\* Killed at any point: no HandoffRelease is sent.
HostCrash ==
  /\ hpc # "dead"
  /\ activation' = 0
  /\ controller' = Local
  /\ UNCHANGED toClient
  /\ HostProcessEnds

HostStep ==
  \/ HostConnect
  \/ \E y \in ActivationYs : Activate(y)
  \/ \E y \in ActivationYs : ActivateOutside(y)
  \/ ReceiveReply \/ ReplyFails
  \/ PollControl \/ SendProbe \/ NextInput \/ SendHeartbeat \/ Forward
  \/ HostIoError \/ HostCleanup
=============================================================================

