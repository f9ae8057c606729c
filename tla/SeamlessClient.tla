--------------------------- MODULE SeamlessClient ---------------------------
(***************************************************************************)
(* The controlled side: SeamlessClient (src/src/seamless.rs) driven by     *)
(* run_seamless_client_with_sessions (src/src/main.rs), with the barrier   *)
(* signals of EdgeReturnWatcher and the injector's ledger of held controls *)
(* behind the InjectBackend trait.                                         *)
(***************************************************************************)
EXTENDS Link, Integers

CONSTANTS
  ReturnEdge,   \* the client edge whose barrier asks for the return
  ExitYs,       \* cursor heights a barrier activation may report
  MaxBarrier    \* bound: barrier signals not yet polled

ASSUME ClientAssumption ==
  /\ ReturnEdge \in {"Left", "Right"}
  /\ ExitYs \subseteq Int
  /\ MaxBarrier \in Nat

VARIABLES
  cpc,           \* where the client process is
  remoteActive,  \* SeamlessClient.remote_active
  entry,         \* SeamlessClient.entry
  returnPending, \* SeamlessClient.return_pending
  pressed,       \* controls the injector holds down, with the activation
                 \* of the input that pressed them
  barrier,       \* unread Activated signals of the return barrier: for each
                 \* the handoff it interrupted, 0 when none was active
  handoff        \* history: the activation that the last Enter asked for

clientVars ==
  <<cpc, remoteActive, entry, returnPending, pressed, barrier, handoff>>

\* "accept": no host.  "top": head of the session loop, poll_exit is next.
\* "recv": poll_next is next.  "exiting": ExitRequest sent, close() is next.
\* "cleanup": the session loop ended, client.close() is next.
ClientPoints == {"accept", "top", "recv", "exiting", "cleanup"}

NoEntry == [tag |-> "None"]

\* What the client may write.
ClientMessages ==
  [kind : {"EnterAck", "EnterRejected", "DiagnosticPong"}, act : Nat,
   body : {NoBody}] \cup
  [kind : {"ExitRequest"}, act : Nat,
   body : [edge : {ReturnEdge}, at : [x : Int, y : ExitYs]]]

ClientInit ==
  /\ cpc = "accept"
  /\ remoteActive = FALSE /\ entry = NoEntry /\ returnPending = FALSE
  /\ pressed = {} /\ barrier = <<>> /\ handoff = 0

-----------------------------------------------------------------------------
\* The pointer reaches the return barrier, moved by the injected motion or by
\* a mouse of the client's own.
BarrierHit ==
  /\ Len(barrier) < MaxBarrier
  /\ barrier' = Append(barrier, IF remoteActive THEN handoff ELSE 0)
  /\ UNCHANGED <<cpc, remoteActive, entry, returnPending, pressed, handoff,
                 linkVars>>

\* The client's half of an established session: a new SeamlessClient.
ClientSessionStarts ==
  /\ cpc = "accept"
  /\ cpc' = "top"
  /\ returnPending' = FALSE
  /\ UNCHANGED <<remoteActive, entry, pressed, barrier, handoff>>

-----------------------------------------------------------------------------
ClientCloseKeeps ==   \* mutant: the ledger is not released
  /\ remoteActive' = FALSE
  /\ entry' = NoEntry
  /\ UNCHANGED pressed

\* SeamlessClient::close: release_all is what empties the ledger.
ClientClose ==
  /\ remoteActive' = FALSE
  /\ entry' = NoEntry
  /\ pressed' = {}

\* The coordinate the composition loop reports with a return.
ReturnX == IF ReturnEdge = "Right" THEN -1 ELSE entry.x

\* poll_exit reads one signal per turn of the loop.  One that arrives while
\* no handoff is active is drained and forgotten; request_exit sends first
\* and closes afterwards.
PollExit ==
  /\ cpc = "top"
  /\ \/ /\ barrier = <<>>
        /\ cpc' = "recv"
        /\ UNCHANGED <<barrier, returnPending, toHost>>
     \/ /\ barrier # <<>> /\ ~remoteActive
        /\ barrier' = Tail(barrier)
        /\ cpc' = "recv"
        /\ UNCHANGED <<returnPending, toHost>>
     \/ /\ barrier # <<>> /\ remoteActive
        /\ barrier' = Tail(barrier)
        /\ \E y \in ExitYs :
             ClientSend(Msg("ExitRequest", handoff,
               [edge |-> ReturnEdge, at |-> [x |-> ReturnX, y |-> y]]))
        /\ returnPending' = TRUE
        /\ cpc' = "exiting"
     \/ /\ barrier # <<>> /\ remoteActive
        /\ barrier' = Tail(barrier)
        /\ ClientSendMayFail          \* the ExitRequest cannot be sent
        /\ cpc' = "cleanup"
        /\ UNCHANGED <<returnPending, toHost>>
  /\ UNCHANGED <<remoteActive, entry, pressed, handoff, toClient, hostOpen,
                 clientOpen, cut>>

\* The compositor ends the session of the return barrier: poll_exit fails.
PollExitFails ==
  /\ cpc = "top"
  /\ cpc' = "cleanup"
  /\ UNCHANGED <<remoteActive, entry, returnPending, pressed, barrier, handoff,
                 linkVars>>

FinishExitActive ==   \* mutant: request_exit does not close
  /\ cpc = "exiting"
  /\ cpc' = "top"
  /\ UNCHANGED <<remoteActive, entry, returnPending, pressed, barrier, handoff,
                 linkVars>>

FinishExit ==
  /\ cpc = "exiting"
  /\ ClientClose
  /\ cpc' = "top"
  /\ UNCHANGED <<returnPending, barrier, handoff, linkVars>>

-----------------------------------------------------------------------------
(***************************************************************************)
(* handle: one action per kind of message the host sends.                  *)
(***************************************************************************)

Receives(kind) ==
  /\ cpc = "recv"
  /\ ClientCanRead
  /\ Head(toClient).kind = kind
  /\ toClient' = Tail(toClient)
  /\ UNCHANGED <<barrier, hostOpen, clientOpen, cut>>

\* An Enter in the course of a handoff is refused; otherwise the entry is
\* prepared and acknowledged before the session becomes active.
HandleEnter ==
  /\ Receives("Enter")
  /\ IF remoteActive
     THEN /\ ClientSend(Msg("EnterRejected", Head(toClient).act, NoBody))
          /\ cpc' = "top"
          /\ UNCHANGED <<remoteActive, entry, returnPending, pressed, handoff>>
     ELSE /\ ClientSend(Msg("EnterAck", Head(toClient).act, NoBody))
          /\ remoteActive' = TRUE
          /\ returnPending' = FALSE
          /\ entry' = Head(toClient).body
          /\ handoff' = Head(toClient).act
          /\ cpc' = "top"
          /\ UNCHANGED pressed

\* prepare_entry fails: refuse, release, and end the session with the error.
HandleEnterFails ==
  /\ Receives("Enter")
  /\ ~remoteActive
  /\ ClientSend(Msg("EnterRejected", Head(toClient).act, NoBody))
  /\ pressed' = {}
  /\ cpc' = "cleanup"
  /\ UNCHANGED <<remoteActive, entry, returnPending, handoff>>

\* The injector's ledger after one event.
Inject(m) ==
  IF m.body.down
  THEN IF \E p \in pressed : p.control = m.body.control THEN pressed
       ELSE pressed \cup {[control |-> m.body.control, act |-> m.act]}
  ELSE {p \in pressed : p.control # m.body.control}

\* Input, PointerMotion and Touch are treated alike.
HandleInput ==
  /\ Receives("Input")
  /\ IF remoteActive
     THEN /\ pressed' = Inject(Head(toClient))
          /\ cpc' = "top"
          /\ UNCHANGED <<remoteActive, entry>>
     ELSE IF returnPending
     THEN /\ cpc' = "top"
          /\ UNCHANGED <<remoteActive, entry, pressed>>
     ELSE /\ ClientClose              \* InputBeforeEntry
          /\ cpc' = "cleanup"
  /\ UNCHANGED <<returnPending, handoff, toHost>>

\* The injector refuses the event (device gone or paused, value out of range).
HandleInputFails ==
  /\ Receives("Input")
  /\ remoteActive
  /\ cpc' = "cleanup"
  /\ UNCHANGED <<remoteActive, entry, returnPending, pressed, handoff, toHost>>

HandleHeartbeat ==
  /\ Receives("Heartbeat")
  /\ cpc' = "top"
  /\ UNCHANGED <<remoteActive, entry, returnPending, pressed, handoff, toHost>>

HandlePing ==
  /\ Receives("DiagnosticPing")
  /\ ClientSend(Msg("DiagnosticPong", handoff, NoBody))
  /\ cpc' = "top"
  /\ UNCHANGED <<remoteActive, entry, returnPending, pressed, handoff>>

HandleRelease ==
  /\ Receives("HandoffRelease")
  /\ ClientClose
  /\ returnPending' = FALSE
  /\ cpc' = "top"
  /\ UNCHANGED <<handoff, toHost>>

\* poll_next returned None.
NothingReceived ==
  /\ cpc = "recv"
  /\ cpc' = "top"
  /\ UNCHANGED <<remoteActive, entry, returnPending, pressed, barrier, handoff,
                 linkVars>>

-----------------------------------------------------------------------------
(***************************************************************************)
(* Failures.                                                               *)
(***************************************************************************)

PeerTimeoutStays ==   \* mutant: input is released, the session goes on
  /\ cpc = "recv"
  /\ remoteActive
  /\ ClientClose
  /\ cpc' = "top"
  /\ UNCHANGED <<returnPending, barrier, handoff, linkVars>>

PeerTimeoutReturning ==   \* mutant: the limit applies while a return is pending
  /\ cpc = "recv"
  /\ remoteActive /\ returnPending
  /\ cpc' = "cleanup"
  /\ UNCHANGED <<remoteActive, entry, returnPending, pressed, barrier, handoff,
                 linkVars>>

\* poll_next returned None and the last message is five seconds old.  The
\* limit applies to an active handoff only.
PeerTimeout ==
  /\ cpc = "recv"
  /\ remoteActive
  /\ cpc' = "cleanup"
  /\ UNCHANGED <<remoteActive, entry, returnPending, pressed, barrier, handoff,
                 linkVars>>

ClientIoErrorActive ==   \* mutant: the end of the stream is ignored outside a handoff
  /\ cpc = "recv"
  /\ ClientSendMayFail /\ remoteActive
  /\ cpc' = "cleanup"
  /\ UNCHANGED <<remoteActive, entry, returnPending, pressed, barrier, handoff,
                 linkVars>>

\* poll_next or an answer fails on a broken connection.
ClientIoError ==
  /\ cpc = "recv"
  /\ ClientSendMayFail
  /\ cpc' = "cleanup"
  /\ UNCHANGED <<remoteActive, entry, returnPending, pressed, barrier, handoff,
                 linkVars>>

\* After every session: release, drop the connection, accept the next host.
ClientCleanup ==
  /\ cpc = "cleanup"
  /\ ClientClose
  /\ ClientCloses
  /\ cpc' = "accept"
  /\ UNCHANGED <<returnPending, barrier, handoff, toHost, hostOpen, cut>>

\* The process is killed and started again; the compositor releases what its
\* virtual devices held.
ClientCrash ==
  /\ ClientClose
  /\ ClientCloses
  /\ returnPending' = FALSE
  /\ barrier' = <<>>
  /\ cpc' = "accept"
  /\ UNCHANGED <<handoff, toHost, hostOpen, cut>>

ClientStep ==
  \/ PollExit \/ FinishExit
  \/ HandleEnter \/ HandleEnterFails \/ HandleInput \/ HandleInputFails
  \/ HandleHeartbeat \/ HandlePing \/ HandleRelease \/ NothingReceived
  \/ PeerTimeout \/ ClientIoError \/ ClientCleanup
=============================================================================

