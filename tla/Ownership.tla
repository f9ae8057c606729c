------------------------------ MODULE Ownership ------------------------------
(***************************************************************************)
(* What the seamless mode promises of the user's input, without messages,  *)
(* queues or sockets: at any time one machine has it.  The host gives it   *)
(* away under a numbered lease; the client is driven by it only under that *)
(* lease, and the host takes it back only from a client that is letting go.*)
(***************************************************************************)
EXTENDS Naturals

VARIABLES
  host,     \* what the host does with the user's input
  client,   \* whether the client is driven by it
  lease,    \* the handoff the host is in, or was in last
  driver    \* the handoff the client is in, or was in last

ownerVars == <<host, client, lease, driver>>

\* "gone": no host process, or one that connects or ends.  "home": the user
\* works here.  "asking": input is withheld, the client not yet heard of.
\* "away": input goes to the client.
Hosts == {"gone", "home", "asking", "away"}

\* "absent": no session.  "idle": no remote input is accepted.  "driven": it
\* is.  "leaving": the client has decided to stop, release_all is next.
Clients == {"absent", "idle", "driven", "leaving"}

Init == host = "gone" /\ client = "absent" /\ lease = 0 /\ driver = 0

-----------------------------------------------------------------------------
\* A session begins between a new host process and a client with no session.
Connect ==
  /\ host = "gone" /\ client = "absent"
  /\ host' = "home" /\ client' = "idle"
  /\ UNCHANGED <<lease, driver>>

\* The host asks under a new lease, or fails in trying; nothing drives the
\* client then.
Ask ==
  /\ host = "home" /\ client # "driven"
  /\ lease' = lease + 1
  /\ host' \in {"asking", "gone"}
  /\ UNCHANGED <<client, driver>>

\* The client accepts the lease the host is asking for; with the host gone it
\* may still find the request of a host that is no more.
Take ==
  /\ client = "idle"
  /\ client' = "driven"
  /\ \/ host = "asking" /\ driver' = lease
     \/ host = "gone" /\ driver' \in Nat
  /\ UNCHANGED <<host, lease>>

\* Input goes to the client once it has taken this lease.
Begin ==
  /\ host = "asking" /\ driver = lease
  /\ host' = "away"
  /\ UNCHANGED <<client, lease, driver>>

\* The client gives up the lease by itself; it does not take it up again.
Leave ==
  /\ client \in {"idle", "driven"}
  /\ client' = "leaving"
  /\ UNCHANGED <<host, lease, driver>>

LetGo ==
  /\ client = "leaving"
  /\ client' = "idle"
  /\ UNCHANGED <<host, lease, driver>>

\* A working host never takes the lease from a client that is driven.
Dismiss ==
  /\ host = "gone" /\ client = "driven"
  /\ client' = "idle"
  /\ UNCHANGED <<host, lease, driver>>

\* The user's input comes back when the client has left or is leaving.
Return ==
  /\ host \in {"asking", "away"} /\ client # "driven"
  /\ host' = "home"
  /\ UNCHANGED <<client, lease, driver>>

\* Either process, or its part in the session, ends.
HostGone ==
  /\ host' = "gone"
  /\ UNCHANGED <<client, lease, driver>>

ClientGone ==
  /\ client' = "absent"
  /\ UNCHANGED <<host, lease, driver>>

Next ==
  \/ Connect \/ Ask \/ Take \/ Begin \/ Leave \/ LetGo \/ Dismiss \/ Return
  \/ HostGone \/ ClientGone

Spec == Init /\ [][Next]_ownerVars

-----------------------------------------------------------------------------
\* One owner: nothing drives the client while the user works on the host, and
\* what drives it otherwise is the lease of the host.
OneOwner ==
  /\ host = "home" => client # "driven"
  /\ host = "away" => driver = lease
  /\ host = "asking" /\ client = "driven" => driver = lease
=============================================================================
