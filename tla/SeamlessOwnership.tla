------------------------- MODULE SeamlessOwnership -------------------------
(***************************************************************************)
(* The two processes and their connection implement Ownership.             *)
(***************************************************************************)
EXTENDS SeamlessInvariant

\* The host's part, read off its program: a process that is connecting or on
\* its way out takes no part in a handoff.
HostRole ==
  CASE hpc = "arm"         -> "home"
    [] hpc = "await"       -> "asking"
    [] hpc \in Forwarding  -> "away"
    [] OTHER               -> "gone"

\* The client's part: once it has sent its ExitRequest or met an error, close
\* is the next thing it does.
ClientRole ==
  CASE cpc = "accept"                 -> "absent"
    [] cpc \in {"exiting", "cleanup"} -> "leaving"
    [] OTHER -> IF remoteActive THEN "driven" ELSE "idle"

Owner == INSTANCE Ownership
         WITH host <- HostRole, client <- ClientRole,
              lease <- lastActivation, driver <- handoff

\* The seamless mode keeps what Ownership promises: the host goes away only
\* in a handoff the client has taken, puts the user's pointer back only when
\* the client has asked for it or is gone (although ExitRequest is sent before
\* the client has let go, seamless.rs request_exit), and never starts a
\* handoff while an earlier one drives the client.
ImplementsOwnership == Owner!Spec
=============================================================================
