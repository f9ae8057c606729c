--------------------------------- MODULE Setup --------------------------------
(***************************************************************************)
(* What two desktops know of each other: the private configuration file of *)
(* each (src/config.rs) and the processes that load it, change their copy  *)
(* and save it whole: pairing (src/pairing.rs, run_pair_client and         *)
(* run_pair_host), the placement transaction (run_topology_apply and the   *)
(* control listener), the configured sessions, which must store the portal *)
(* tokens they are given, and the commands that edit the file.             *)
(*                                                                         *)
(* The file is a sequence of lines; Parse and Render say what loading and  *)
(* saving do to it.  A peer's id stands for its key too: both are made     *)
(* together, fresh and random.  Names of peers, the host's endpoint and    *)
(* the schema version are not told apart.                                  *)
(***************************************************************************)
EXTENDS Integers, Sequences, FiniteSets

CONSTANTS
  MaxPairings,   \* bound on the peer ids made
  Addresses,     \* addresses the client has over time: its endpoints
  Asked,         \* placements the host's user may ask for
  MaxFailures,   \* attempts after which a pairing code is given up (5)
  MaxStarts,     \* bound on the processes started
  MaxFaults      \* bound on crashes, failing writes and lost connections

Machines == {"host", "client"}
Ids == 1..MaxPairings
Placements == {"left", "right", "above", "below"}

\* opposite_placement
Opposite(s) == CASE s = "left"  -> "right" [] s = "right" -> "left"
                 [] s = "above" -> "below" [] s = "below" -> "above"

\* horizontal_placement
Horizontal(s) == s \in {"left", "right"}

ASSUME SetupAssumption ==
  /\ MaxPairings \in Nat \ {0} /\ MaxFailures \in Nat \ {0}
  /\ MaxStarts \in Nat /\ MaxFaults \in Nat
  /\ Asked \subseteq Placements /\ Addresses # {}

\* The processes, and the thread of the client's session that takes requests.
Jobs == {"pairHost", "apply", "hostSession", "hostEdit",
         "pairClient", "control", "clientSession", "clientEdit"}
On(j) == IF j \in {"pairHost", "apply", "hostSession", "hostEdit"}
         THEN "host" ELSE "client"

VARIABLES
  file,     \* [Machines -> lines of the configuration file]
  tmp,      \* [Machines -> BOOLEAN]: the temporary file of a save exists
  job,      \* [Jobs -> what the process is doing, and its copy of the file]
  failures, \* failed attempts of the running pair-client
  pairLink, \* the record on its way between the two ends of a pairing
  topoLink, \* the same for the placement transaction
  restart,  \* the client's session has been told to end
  portal,   \* [Machines -> [Ids -> the tokens the portal would accept]]
  made,     \* ids made so far
  starts, faults,
  behind,   \* history: jobs whose copy is older than the file
  torn,     \* history: machines where a save was lost or undid another one
  unpaired, \* history: a grant was committed at one end only
  removed   \* history: ids the user removed

network == <<pairLink, topoLink>>
store == <<file, tmp, behind, torn>>
vars == <<file, tmp, job, failures, pairLink, topoLink, restart, portal, made,
          starts, faults, behind, torn, unpaired, removed>>

-----------------------------------------------------------------------------
(* The configuration file *)

\* A peer as PeerConfig::new makes it: no token, permissions not persistent.
Peer(id, at, side) == [id |-> id, at |-> at, side |-> side, keep |-> FALSE,
                       capture |-> 0, remote |-> 0]

Line(key, val) == [key |-> key, val |-> val]

\* The elements of s at the positions in I, in their order.
Those(s, I) ==
  LET some[i \in 0..Len(s)] ==
        IF i = 0 THEN <<>>
        ELSE IF i \in I THEN Append(some[i - 1], s[i]) ELSE some[i - 1]
  IN  some[Len(s)]

\* mutant: the second token is written under the key of the first
PeerLinesCopied(p) ==
  <<Line("[[peer]]", "none"), Line("id", p.id), Line("client_endpoint", p.at),
    Line("placement", p.side), Line("persistent_permissions", p.keep)>>
  \o (IF p.capture = 0 THEN <<>> ELSE <<Line("capture_restore_token", p.capture)>>)
  \o (IF p.remote = 0 THEN <<>> ELSE <<Line("capture_restore_token", p.remote)>>)

\* render: a line for each field; a token the peer does not have has no line.
PeerLines(p) ==
  <<Line("[[peer]]", "none"), Line("id", p.id), Line("client_endpoint", p.at),
    Line("placement", p.side), Line("persistent_permissions", p.keep)>>
  \o (IF p.capture = 0 THEN <<>> ELSE <<Line("capture_restore_token", p.capture)>>)
  \o (IF p.remote = 0 THEN <<>> ELSE <<Line("remote_restore_token", p.remote)>>)

Render(c) ==
  LET lines[i \in 0..Len(c.peers)] ==
        IF i = 0 THEN <<Line("local_name", c.name)>>
                 ELSE lines[i - 1] \o PeerLines(c.peers[i])
  IN  lines[Len(c.peers)]

HeaderKeys == {"local_name"}
RequiredKeys == {"id", "client_endpoint", "placement"}
PeerKeys == RequiredKeys \cup
  {"persistent_permissions", "capture_restore_token", "remote_restore_token"}

IsStart(l) == l.key = "[[peer]]"

\* The lines of the section that begins at line i, 0 for those before a peer.
Section(ls, i) ==
  {j \in (i + 1)..Len(ls) : \A k \in (i + 1)..j : ~IsStart(ls[k])}

\* Known keys only, none of them twice.
ValidSection(ls, sec, keys) ==
  /\ \A j \in sec : ls[j].key \in keys
  /\ \A j, k \in sec : ls[j].key = ls[k].key => j = k

Field(ls, sec, key, default) ==
  IF \E j \in sec : ls[j].key = key
  THEN ls[CHOOSE j \in sec : ls[j].key = key].val
  ELSE default

\* UnvalidatedPeer::finish; files of early previews have no permissions line.
Finish(ls, sec) ==
  [id      |-> Field(ls, sec, "id", 0),
   at      |-> Field(ls, sec, "client_endpoint", "none"),
   side    |-> Field(ls, sec, "placement", "left"),
   keep    |-> Field(ls, sec, "persistent_permissions", FALSE),
   capture |-> Field(ls, sec, "capture_restore_token", 0),
   remote  |-> Field(ls, sec, "remote_restore_token", 0)]

\* parse refuses what render does not write, early previews' gaps aside.
Loads(ls) ==
  LET peers == {i \in DOMAIN ls : IsStart(ls[i])}
      Id(i) == Field(ls, Section(ls, i), "id", 0)
  IN
  /\ ValidSection(ls, Section(ls, 0), HeaderKeys)
  /\ \A i \in peers : LET sec == Section(ls, i) IN
       /\ ValidSection(ls, sec, PeerKeys)
       /\ \A key \in RequiredKeys : \E j \in sec : ls[j].key = key
  /\ \A i, k \in peers : i # k => Id(i) # Id(k)

Parse(ls) ==
  [name  |-> Field(ls, Section(ls, 0), "local_name", "This computer"),
   peers |-> LET at == Those([i \in DOMAIN ls |-> i], {i \in DOMAIN ls : IsStart(ls[i])})
             IN  [n \in DOMAIN at |-> Finish(ls, Section(ls, at[n]))]]

-----------------------------------------------------------------------------
(* Changing a copy of it *)

Has(c, id) == \E n \in DOMAIN c.peers : c.peers[n].id = id
PeerOf(c, id) == c.peers[CHOOSE n \in DOMAIN c.peers : c.peers[n].id = id]

\* add_peer: a new pairing supersedes the record for the same client endpoint.
AddPeer(c, p) ==
  [c EXCEPT !.peers = Append(Those(@, {n \in DOMAIN @ : @[n].at # p.at}), p)]

RemovePeer(c, id) == [c EXCEPT !.peers = Those(@, {n \in DOMAIN @ : @[n].id # id})]

Update(c, id, p) ==
  [c EXCEPT !.peers = [n \in DOMAIN @ |-> IF @[n].id = id THEN p ELSE @[n]]]

SetPlacement(c, id, s) == Update(c, id, [PeerOf(c, id) EXCEPT !.side = s])

\* apply_restore_token_updates for the given kinds of token.
SetTokens(c, id, kinds, tokens) ==
  Update(c, id, [PeerOf(c, id) EXCEPT
    !.capture = IF "capture" \in kinds THEN tokens.capture ELSE @,
    !.remote  = IF "remote"  \in kinds THEN tokens.remote  ELSE @])

-----------------------------------------------------------------------------
(* Processes: load, and save through a temporary file *)

NoCopy == [name |-> "none", peers |-> <<>>]
Nobody == [pc |-> "idle", cfg |-> NoCopy, id |-> 0, side |-> "left", then |-> "idle"]
NoRecord == [kind |-> "none"]

Working(j) == job[j].pc \notin {"idle", "running", "listening"}
Holds(j) == job[j].pc \notin {"idle", "running"}     \* has a copy it may save

\* load_or_default, and the process goes on with its copy.
Start(j, state) ==
  /\ job[j].pc = "idle" /\ starts < MaxStarts
  /\ starts' = starts + 1
  /\ job' = [job EXCEPT ![j] = state]
  /\ behind' = behind \ {j}

\* A job that cannot go on ends; pair-client waits for another attempt.
EndOf(j) ==
  IF j = "pairClient" /\ failures + 1 < MaxFailures
  THEN [job[j] EXCEPT !.pc = "listening"] ELSE Nobody
Failed(j) ==
  /\ job' = [job EXCEPT ![j] = EndOf(j)]
  /\ failures' = IF j = "pairClient" THEN failures + 1 ELSE failures

LosesGrant(j) == unpaired' = (unpaired \/ j \in {"pairHost", "pairClient"})

\* save: the temporary file must not exist yet.
CreateTmp(j) ==
  LET m == On(j) IN
  /\ job[j].pc = "create"
  /\ IF tmp[m]
     THEN /\ Failed(j) /\ LosesGrant(j)
          /\ torn' = [torn EXCEPT ![m] = TRUE]
          /\ UNCHANGED tmp
     ELSE /\ tmp' = [tmp EXCEPT ![m] = TRUE]
          /\ job' = [job EXCEPT ![j].pc = "write"]
          /\ UNCHANGED <<failures, torn, unpaired>>
  /\ UNCHANGED <<file, network, restart, portal, made, starts, faults, behind, removed>>

\* The rename puts the whole copy in place of the file, whatever was saved
\* since the copy was loaded.
Rename(j) ==
  LET m == On(j) IN
  /\ job[j].pc = "write"
  /\ file' = [file EXCEPT ![m] = Render(job[j].cfg)]
  /\ tmp' = [tmp EXCEPT ![m] = FALSE]
  /\ job' = [job EXCEPT ![j] = IF @.then = "idle" THEN Nobody
                                     ELSE [@ EXCEPT !.pc = job[j].then, !.cfg = NoCopy]]
  /\ behind' = (behind \cup {k \in Jobs : On(k) = m /\ Holds(k)}) \ {j}
  /\ torn' = [torn EXCEPT ![m] = @ \/ j \in behind]
  /\ UNCHANGED <<failures, network, restart, portal, made, starts, faults,
                 unpaired, removed>>

\* Writing or syncing fails: the error returns with the temporary file there.
WriteFails(j) ==
  /\ job[j].pc = "write" /\ faults < MaxFaults
  /\ faults' = faults + 1
  /\ Failed(j) /\ LosesGrant(j)
  /\ torn' = [torn EXCEPT ![On(j)] = TRUE]
  /\ UNCHANGED <<file, tmp, network, restart, portal, made, starts, behind, removed>>

\* A process is killed; the control listener is a thread of the session, and
\* a request it has not read is lost with the connection.  A process that waits
\* for its peer is one whose connection is lost, below.
Unread(link, dies) == IF dies /\ link.kind = "request" THEN NoRecord ELSE link

Kill(j) ==
  LET dead == IF j = "clientSession" THEN {j, "control"} ELSE {j} IN
  /\ job' = [k \in Jobs |-> IF k \in dead THEN Nobody ELSE job[k]]
  /\ torn' = [torn EXCEPT ![On(j)] = @ \/ \E k \in dead : Working(k)]
  /\ restart' = (restart /\ j # "clientSession")
  /\ topoLink' = Unread(topoLink, j = "clientSession")
  /\ pairLink' = Unread(pairLink, j = "pairClient")

Crash(j) ==
  /\ j # "control" /\ job[j].pc \notin {"idle", "asked"} /\ faults < MaxFaults
  /\ faults' = faults + 1
  /\ Kill(j)
  /\ IF Working(j) THEN LosesGrant(j) ELSE UNCHANGED unpaired
  /\ UNCHANGED <<file, tmp, failures, portal, made, starts, behind, removed>>

-----------------------------------------------------------------------------
(* Pairing *)

\* run_pair_client: its copy is loaded now and kept for all attempts.
PairClientStarts ==
  /\ Start("pairClient", [Nobody EXCEPT !.pc = "listening", !.cfg = Parse(file["client"])])
  /\ failures' = 0
  /\ UNCHANGED <<file, tmp, network, restart, portal, made, faults, torn, unpaired, removed>>

\* Between two attempts: the code expires, or somebody tries another code.
Waiting == job["pairClient"].pc = "listening" /\ pairLink.kind # "request"

PairClientGivesUp ==
  /\ Waiting
  /\ job' = [job EXCEPT !["pairClient"] = Nobody]
  /\ UNCHANGED <<store, failures, network, restart, portal, made, starts, faults,
                 unpaired, removed>>

WrongCode ==
  /\ Waiting
  /\ Failed("pairClient")
  /\ UNCHANGED <<store, network, restart, portal, made, starts, faults, unpaired, removed>>

\* run_pair_host: the code is right and the request sent.
PairHostStarts(side, keep) ==
  /\ Waiting /\ pairLink = NoRecord
  /\ Start("pairHost", [Nobody EXCEPT !.pc = "asked"])
  /\ pairLink' = [kind |-> "request", side |-> side, keep |-> keep]
  /\ UNCHANGED <<file, tmp, failures, topoLink, restart, portal, made, faults,
                 torn, unpaired, removed>>

\* The client makes the key, sends the grant, then adds the peer and saves.
Grant(at, keep) ==
  LET id   == made + 1
      kept == keep \/ pairLink.keep
  IN
  /\ job["pairClient"].pc = "listening" /\ pairLink.kind = "request"
  /\ made < MaxPairings
  /\ made' = id
  /\ pairLink' = [kind |-> "grant", id |-> id, side |-> pairLink.side, at |-> at, keep |-> kept]
  /\ job' = [job EXCEPT !["pairClient"] =
       [@ EXCEPT !.pc = "create",
                 !.cfg = AddPeer(job["pairClient"].cfg,
                           [Peer(id, at, Opposite(pairLink.side)) EXCEPT !.keep = kept])]]
  /\ UNCHANGED <<store, failures, topoLink, restart, portal, starts, faults, unpaired, removed>>

\* mutant: the host turns the placement round as well
HostPeerOpposite(g) == Peer(g.id, g.at, Opposite(g.side))

\* The host's record of the client; the grant's permission is not looked at.
HostPeer(g) == Peer(g.id, g.at, g.side)

\* The host takes the grant: load, add the peer, save.
TakeGrant ==
  /\ job["pairHost"].pc = "asked" /\ pairLink.kind = "grant"
  /\ pairLink' = NoRecord
  /\ job' = [job EXCEPT !["pairHost"] =
       [@ EXCEPT !.pc = "create", !.cfg = AddPeer(Parse(file["host"]), HostPeer(pairLink))]]
  /\ behind' = behind \ {"pairHost"}
  /\ UNCHANGED <<file, tmp, failures, topoLink, restart, portal, made, starts, faults,
                 torn, unpaired, removed>>

\* The client's process is gone, and its end of the connection with it.
PairRefused ==
  /\ job["pairHost"].pc = "asked" /\ pairLink = NoRecord
  /\ job' = [job EXCEPT !["pairHost"] = Nobody]
  /\ UNCHANGED <<store, failures, network, restart, portal, made, starts, faults,
                 unpaired, removed>>

\* The pairing connection is lost, or ten seconds pass: with the grant under
\* way the client has committed it or will.
PairLinkLost ==
  /\ job["pairHost"].pc = "asked" /\ faults < MaxFaults
  /\ faults' = faults + 1
  /\ pairLink' = NoRecord
  /\ LET asking == pairLink.kind = "request" /\ job["pairClient"].pc = "listening" IN
     /\ unpaired' = (unpaired \/ ~asking)
     /\ job' = [job EXCEPT !["pairHost"] = Nobody,
                           !["pairClient"] = IF asking THEN EndOf("pairClient") ELSE @]
     /\ failures' = IF asking THEN failures + 1 ELSE failures
  /\ UNCHANGED <<store, topoLink, restart, portal, made, starts, removed>>

-----------------------------------------------------------------------------
(* The placement transaction *)

\* run_topology_apply: its copy is loaded before the client is asked, whose
\* session must be running for the same peer.
ApplyStarts(id, side) ==
  LET c == Parse(file["host"]) IN
  /\ Has(c, id) /\ Horizontal(side)
  /\ job["clientSession"].pc = "running" /\ job["clientSession"].id = id
  /\ job["control"].pc = "idle" /\ topoLink = NoRecord
  /\ Start("apply", [Nobody EXCEPT !.pc = "asked", !.cfg = c, !.id = id, !.side = side])
  /\ topoLink' = [kind |-> "request", side |-> side]
  /\ UNCHANGED <<file, tmp, failures, pairLink, restart, portal, made, faults,
                 torn, unpaired, removed>>

\* The control listener loads the file and turns the placement round; a peer
\* that has been removed meanwhile is an error.
ControlTakes ==
  LET c  == Parse(file["client"])
      id == job["clientSession"].id
  IN
  /\ job["clientSession"].pc = "running" /\ topoLink.kind = "request"
  /\ topoLink' = NoRecord
  /\ IF Has(c, id)
     THEN /\ job' = [job EXCEPT !["control"] =
               [Nobody EXCEPT !.pc = "create", !.then = "ack",
                              !.cfg = SetPlacement(c, id, Opposite(topoLink.side))]]
          /\ behind' = behind \ {"control"}
     ELSE UNCHANGED <<job, behind>>
  /\ UNCHANGED <<file, tmp, failures, pairLink, restart, portal, made, starts, faults,
                 torn, unpaired, removed>>

\* mutant: the session is not told
Untold(sent) == FALSE

\* The session is told to end once the acknowledgement has been sent.
Told(sent) == sent

\* The acknowledgement, which fails only when the host has given up.
ControlAck(sent) ==
  /\ job["control"].pc = "ack"
  /\ sent \/ job["apply"].pc # "asked"
  /\ topoLink' = IF job["apply"].pc = "asked" THEN [kind |-> "ack"] ELSE topoLink
  /\ restart' = (restart \/ Told(sent))
  /\ job' = [job EXCEPT !["control"] = Nobody]
  /\ UNCHANGED <<store, failures, pairLink, portal, made, starts, faults, unpaired, removed>>

\* mutant: the host commits without waiting
Unacknowledged == TRUE

Acknowledged == topoLink.kind = "ack"

\* The acknowledged placement goes into the copy loaded before.
TakeAck ==
  /\ job["apply"].pc = "asked" /\ Acknowledged
  /\ topoLink' = NoRecord
  /\ job' = [job EXCEPT !["apply"] =
       [@ EXCEPT !.pc = "create",
                 !.cfg = SetPlacement(job["apply"].cfg, job["apply"].id, job["apply"].side)]]
  /\ UNCHANGED <<store, failures, pairLink, restart, portal, made, starts, faults,
                 unpaired, removed>>

\* The listener ended the connection without an acknowledgement.
ApplyRefused ==
  /\ job["apply"].pc = "asked" /\ topoLink = NoRecord /\ job["control"].pc = "idle"
  /\ job' = [job EXCEPT !["apply"] = Nobody]
  /\ UNCHANGED <<store, failures, network, restart, portal, made, starts, faults,
                 unpaired, removed>>

\* Eight seconds pass or the connection is lost, at any point of the exchange.
TopoLinkLost ==
  /\ job["apply"].pc = "asked" /\ faults < MaxFaults
  /\ faults' = faults + 1
  /\ topoLink' = NoRecord
  /\ job' = [job EXCEPT !["apply"] = Nobody]
  /\ UNCHANGED <<store, failures, pairLink, restart, portal, made, starts, unpaired, removed>>

-----------------------------------------------------------------------------
(* Configured sessions: what they do with the file *)

Session(m) == IF m = "host" THEN "hostSession" ELSE "clientSession"
Chosen(j) == PeerOf(job[j].cfg, job[j].id)

\* run_seamless_host_config and run_seamless_client_config: load, then ask the
\* portal, which may wait for the user's consent.
SessionStarts(m, id) ==
  LET c == Parse(file[m]) IN
  /\ Has(c, id) /\ Horizontal(PeerOf(c, id).side)
  /\ Start(Session(m), [Nobody EXCEPT !.pc = "portals", !.cfg = c, !.id = id,
                                      !.side = PeerOf(c, id).side, !.then = "running"])
  /\ UNCHANGED <<file, tmp, failures, network, restart, portal, made, faults,
                 torn, unpaired, removed>>

\* A portal session starts and, for a peer with persistent permissions, its
\* single-use token is replaced.
Restored(m, id, kind) ==
  portal' = IF Chosen(Session(m)).keep THEN [portal EXCEPT ![m][id][kind] = @ + 1] ELSE portal

\* persist_returned_tokens, if there is anything to persist.
Persist(j, kinds, then) ==
  job' = [job EXCEPT ![j] =
    IF Chosen(j).keep
    THEN [@ EXCEPT !.pc = "create", !.then = then,
                   !.cfg = SetTokens(job[j].cfg, job[j].id, kinds, portal'[On(j)][job[j].id])]
    ELSE IF then = "idle" THEN Nobody ELSE [@ EXCEPT !.pc = then, !.cfg = NoCopy]]

Elsewhere == <<store, failures, network, restart, made, starts, faults, unpaired, removed>>

HostPortalStarts ==
  LET j == "hostSession" IN
  /\ job[j].pc = "portals"
  /\ Restored("host", job[j].id, "capture")
  /\ Persist(j, {"capture"}, "running")
  /\ UNCHANGED Elsewhere

RemoteDesktopStarts ==
  LET j == "clientSession" IN
  /\ job[j].pc = "portals"
  /\ Restored("client", job[j].id, "remote")
  /\ job' = [job EXCEPT ![j].pc = "watcher"]
  /\ UNCHANGED Elsewhere

WatcherStarts ==
  LET j == "clientSession" IN
  /\ job[j].pc = "watcher"
  /\ Restored("client", job[j].id, "capture")
  /\ Persist(j, {"capture", "remote"}, "running")
  /\ UNCHANGED Elsewhere

\* The first portal session is refused: its token is as it was.
PortalRefused(j) ==
  /\ job[j].pc = "portals"
  /\ job' = [job EXCEPT ![j] = Nobody]
  /\ UNCHANGED <<Elsewhere, portal>>

\* mutant: the error returns at once
Forgotten(j) == job' = [job EXCEPT ![j] = Nobody]

\* The token of the session that did start is stored before the error returns.
Remembered(j) == Persist(j, {"remote"}, "idle")

WatcherRefused ==
  /\ job["clientSession"].pc = "watcher"
  /\ UNCHANGED <<Elsewhere, portal>>
  /\ Remembered("clientSession")

\* A session is stopped by its user, or the client's because it was told to;
\* its control thread ends with the process, whatever it is doing.
SessionEnds(m) ==
  /\ job[Session(m)].pc = "running"
  /\ Kill(Session(m))
  /\ UNCHANGED <<file, tmp, behind, failures, portal, made, starts, faults,
                 unpaired, removed>>

-----------------------------------------------------------------------------
(* Commands that edit the file *)

Edit(m) == IF m = "host" THEN "hostEdit" ELSE "clientEdit"

SetLocalName(m, name) ==
  /\ Start(Edit(m), [Nobody EXCEPT !.pc = "create",
                                   !.cfg = [Parse(file[m]) EXCEPT !.name = name]])
  /\ UNCHANGED <<file, tmp, failures, network, restart, portal, made, faults,
                 torn, unpaired, removed>>

PeerRemove(m, id) ==
  /\ Has(Parse(file[m]), id)
  /\ Start(Edit(m), [Nobody EXCEPT !.pc = "create", !.cfg = RemovePeer(Parse(file[m]), id)])
  /\ removed' = removed \cup {id}
  /\ UNCHANGED <<file, tmp, failures, network, restart, portal, made, faults,
                 torn, unpaired>>

-----------------------------------------------------------------------------

\* What peer-add leaves when both desktops were given the same id and key by
\* hand, and the same in a file of an early preview, without permissions.
Added(m) == PeerLines([Peer(1, CHOOSE a \in Addresses : TRUE,
                            IF m = "host" THEN "left" ELSE "right") EXCEPT !.keep = TRUE])
Preview(m) ==
  Those(Added(m), {i \in DOMAIN Added(m) : Added(m)[i].key # "persistent_permissions"})

Init ==
  /\ \/ file = [m \in Machines |-> <<>>] /\ made = 0
     \/ made = 1 /\ file \in {[m \in Machines |-> Added(m)], [m \in Machines |-> Preview(m)]}
  /\ tmp = [m \in Machines |-> FALSE]
  /\ job = [j \in Jobs |-> Nobody]
  /\ failures = 0
  /\ pairLink = NoRecord /\ topoLink = NoRecord
  /\ restart = FALSE
  /\ portal = [m \in Machines |-> [id \in Ids |-> [capture |-> 0, remote |-> 0]]]
  /\ starts = 0 /\ faults = 0
  /\ behind = {} /\ torn = [m \in Machines |-> FALSE] /\ unpaired = FALSE /\ removed = {}

Pairing ==
  \/ PairClientStarts \/ PairClientGivesUp \/ WrongCode
  \/ \E side \in Asked, keep \in BOOLEAN : PairHostStarts(side, keep)
  \/ \E at \in Addresses, keep \in BOOLEAN : Grant(at, keep)
  \/ TakeGrant \/ PairRefused \/ PairLinkLost

Topology ==
  \/ \E id \in Ids, side \in Asked : ApplyStarts(id, side)
  \/ ControlTakes \/ (\E sent \in BOOLEAN : ControlAck(sent))
  \/ TakeAck \/ ApplyRefused \/ TopoLinkLost

Sessions ==
  \/ \E m \in Machines : \/ \E id \in Ids : SessionStarts(m, id)
                         \/ PortalRefused(Session(m)) \/ SessionEnds(m)
  \/ HostPortalStarts \/ RemoteDesktopStarts \/ WatcherStarts \/ WatcherRefused

Next ==
  \/ Pairing \/ Topology \/ Sessions
  \/ \E j \in Jobs : CreateTmp(j) \/ Rename(j) \/ WriteFails(j) \/ Crash(j)
  \/ \E m \in Machines : \/ SetLocalName(m, "renamed")
                         \/ \E id \in Ids : PeerRemove(m, id)

Spec == Init /\ [][Next]_vars

-----------------------------------------------------------------------------
(* Properties *)

Stored(m) == Parse(file[m])
Records(m) == {Stored(m).peers[n] : n \in DOMAIN Stored(m).peers}
AtRest(jobs) == \A j \in jobs : ~Working(j)
Intact == \A m \in Machines : ~torn[m]

\* A peer with persistent permissions has the portal tokens that will be
\* accepted next, also after a start that failed half-way, unless a save was
\* lost, interrupted or overtaken (src/main.rs:1640, 1686-1712).
TokensCurrent ==
  \A m \in Machines :
    ~torn[m] /\ AtRest({Session(m)}) =>
      \A p \in Records(m) : p.keep =>
        [capture |-> p.capture, remote |-> p.remote] = portal[m][p.id]

\* "The remote side saves first and acknowledges; only then is the local config
\* committed" (src/main.rs:1083): when the host's placement of a peer changes,
\* the client's file has the opposite one, whatever connection is lost.
CommitAfterClient ==
  [][file'["host"] # file["host"] /\ Intact' =>
       \A p \in Records("host"), q \in Records("host")', r \in Records("client")' :
         p.id = q.id /\ q.id = r.id /\ p.side # q.side => r.side = Opposite(q.side)]_vars

\* Pairing and placement leave the two desktops with the same peers in opposite
\* places: whenever nothing is under way and no pairing or save was cut short
\* (src/main.rs:957-960, 1037-1052).
PairingAgrees ==
  Intact /\ ~unpaired /\ faults = 0 /\ AtRest({"pairHost", "pairClient", "apply", "control"}) =>
    \A m, n \in Machines : \A p \in Records(m) :
      m = n \/ p.id \in removed
            \/ \E q \in Records(n) : q.id = p.id /\ q.side = Opposite(p.side)

\* A running client session watches the edge its file names, or has been told
\* to end (src/main.rs:1085), as long as no connection was lost.
SessionFollowsFile ==
  ~torn["client"] /\ faults = 0 /\ job["clientSession"].pc = "running" =>
    \A p \in Records("client") :
      p.id = job["clientSession"].id =>
        p.side = job["clientSession"].side \/ restart \/ job["control"].pc = "ack"

\* What any process has saved, any process can load again (render and parse,
\* src/config.rs:299, 327): a file that does not load would stop both desktops.
\* And one process at a time has the temporary file.
TypeOK ==
  /\ \A m \in Machines : Loads(file[m])
  /\ DOMAIN job = Jobs
  /\ \A m \in Machines : tmp[m] \/ \A j \in Jobs : On(j) = m => job[j].pc # "write"
  /\ restart \in BOOLEAN /\ unpaired \in BOOLEAN
  /\ made \in 0..MaxPairings /\ starts \in 0..MaxStarts /\ faults \in 0..MaxFaults
=============================================================================
