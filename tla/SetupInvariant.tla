---------------------------- MODULE SetupInvariant ----------------------------
(***************************************************************************)
(* The inductive invariant of Setup.                                       *)
(*                                                                         *)
(* A process that has loaded the file works on a copy of it; as long as    *)
(* nothing else was saved, what it will save is the file with one change   *)
(* (Fresh).  A record that one desktop has saved and the other has yet to  *)
(* save is on its way in a link or in a copy, and the two files agree when *)
(* what is on its way is taken as saved (FilesAgree).                      *)
(***************************************************************************)
EXTENDS Setup

-----------------------------------------------------------------------------
(* Types *)

PeerRecs == [id : Nat \ {0}, at : Addresses, side : Placements, keep : BOOLEAN,
             capture : Nat, remote : Nat]

Names == {"none", "This computer", "renamed"}
Configs == [name : Names, peers : Seq(PeerRecs)]

\* A configuration as add_peer leaves it: no id twice.
Config(c) ==
  /\ c \in Configs
  /\ \A n, k \in DOMAIN c.peers : c.peers[n].id = c.peers[k].id => n = k

Recs(c) == {c.peers[n] : n \in DOMAIN c.peers}

Saving == {"create", "write"}

Pcs(j) ==
  CASE j = "pairHost"      -> Saving \cup {"idle", "asked"}
    [] j = "apply"         -> Saving \cup {"idle", "asked"}
    [] j = "pairClient"    -> Saving \cup {"idle", "listening"}
    [] j = "control"       -> Saving \cup {"idle", "ack"}
    [] j = "hostSession"   -> Saving \cup {"idle", "portals", "running"}
    [] j = "clientSession" -> Saving \cup {"idle", "portals", "watcher", "running"}
    [] OTHER               -> Saving \cup {"idle"}

Thens(j) ==
  CASE j = "control" -> {"ack"}
    [] j \in {"hostSession", "clientSession"} -> {"running", "idle"}
    [] OTHER -> {"idle"}

JobRecs == [pc : UNION {Pcs(j) : j \in Jobs}, cfg : Configs, id : Nat, side : Placements,
            then : {"idle", "running", "ack"}]

JobOk(j, r) ==
  /\ r \in JobRecs /\ r.pc \in Pcs(j) /\ Config(r.cfg)
  /\ r.pc \in Saving \/ j # "control" => r.then \in Thens(j)

JobsOk == DOMAIN job = Jobs /\ \A j \in Jobs : JobOk(j, job[j])

PairRecords ==
  {NoRecord} \cup [kind : {"request"}, side : Placements, keep : BOOLEAN]
    \cup [kind : {"grant"}, id : Ids, side : Placements, at : Addresses, keep : BOOLEAN]
TopoRecords == {NoRecord, [kind |-> "ack"]} \cup [kind : {"request"}, side : Placements]

Typing ==
  /\ \A m \in Machines : Loads(file[m]) /\ Config(Stored(m))
  /\ DOMAIN file = Machines
  /\ tmp \in [Machines -> BOOLEAN] /\ torn \in [Machines -> BOOLEAN]
  /\ JobsOk
  /\ failures \in Nat
  /\ pairLink \in PairRecords /\ topoLink \in TopoRecords
  /\ restart \in BOOLEAN /\ unpaired \in BOOLEAN
  /\ portal \in [Machines -> [Ids -> [capture : Nat, remote : Nat]]]
  /\ made \in 0..MaxPairings /\ starts \in 0..MaxStarts /\ faults \in 0..MaxFaults
  /\ behind \subseteq Jobs /\ removed \subseteq Ids

\* One process at a time has the temporary file of a machine.
OneWriter ==
  /\ \A j \in Jobs : job[j].pc = "write" => tmp[On(j)]
  /\ \A j, k \in Jobs : job[j].pc = "write" /\ job[k].pc = "write" /\ On(j) = On(k) => j = k

-----------------------------------------------------------------------------
(* Ids *)

Copies(m) == {Stored(m)} \cup {job[j].cfg : j \in {k \in Jobs : On(k) = m}}

NoTokens == [capture |-> 0, remote |-> 0]

\* Ids are made one after the other, and a permission is never changed.
IdsMade ==
  /\ \A m \in Machines : \A c \in Copies(m) : \A p \in Recs(c) : p.id <= made
  /\ \A j \in Jobs : job[j].id <= made
  /\ \A m \in Machines, i \in Ids : i > made => portal[m][i] = NoTokens
  /\ \A m \in Machines : \A c, d \in Copies(m) : \A p \in Recs(c), q \in Recs(d) :
       p.id = q.id => p.keep = q.keep

\* The grant that a desktop has yet to save is the last one made, and nothing
\* else there knows of it.
HostPending == pairLink.kind = "grant" \/ job["pairHost"].pc \in Saving
ClientPending == job["pairClient"].pc \in Saving

Unknown(m, pairing) ==
  /\ \A p \in Records(m) : p.id # made
  /\ \A j \in Jobs : On(j) = m /\ j # pairing => \A p \in Recs(job[j].cfg) : p.id # made
  /\ portal[m][made] = NoTokens

Pairings ==
  /\ pairLink # NoRecord => job["pairHost"].pc = "asked"
  /\ pairLink.kind = "grant" => pairLink.id = made
  /\ HostPending => made > 0 /\ Unknown("host", "pairHost") /\ job["apply"].id # made
  /\ pairLink.kind = "grant" => \A p \in Recs(job["pairHost"].cfg) : p.id # made
  /\ ClientPending =>
       /\ made > 0 /\ Unknown("client", "pairClient")
       /\ job["clientSession"].id # made /\ job["apply"].id # made

-----------------------------------------------------------------------------
(* Copies *)

Joined(R, p) == {q \in R : q.at # p.at} \cup {p}
Placed(R, id, s) == {IF q.id = id THEN [q EXCEPT !.side = s] ELSE q : q \in R}
Without(R, id) == {q \in R : q.id # id}

\* The same peers, but for the tokens of one.
SameBut(R, S, id) ==
  /\ \A q \in S : \E p \in R : q.id = p.id /\ q.at = p.at /\ q.side = p.side /\ q.keep = p.keep
                              /\ (p.id # id => q = p)
  /\ \A p \in R : \E q \in S : q.id = p.id /\ q.at = p.at /\ q.side = p.side /\ q.keep = p.keep
                              /\ (p.id # id => q = p)

\* What a process that is not behind has, or will save.
Change(j, R, S) ==
  LET id == job[j].id IN
  IF job[j].pc \notin Saving
  THEN j \in {"pairClient", "apply", "hostSession", "clientSession"} => S = R
  ELSE CASE j \in {"pairHost", "pairClient"} ->
              \E p \in S : /\ p.id = made /\ p.capture = 0 /\ p.remote = 0
                           /\ S = Joined(R, p)
         [] j = "apply" -> S = Placed(R, id, job[j].side)
         [] j = "control" -> \E s \in Placements : S = Placed(R, job["clientSession"].id, s)
         [] j \in {"hostSession", "clientSession"} -> SameBut(R, S, id)
         [] OTHER -> S = R \/ \E i \in removed : S = Without(R, i)

Fresh ==
  \A j \in Jobs : ~torn[On(j)] /\ j \notin behind /\ Holds(j) =>
    Change(j, Records(On(j)), Recs(job[j].cfg))

\* A process that has chosen a peer has it in its copy.
ChosenThere ==
  /\ job["apply"].pc = "asked" => Has(job["apply"].cfg, job["apply"].id)
  /\ \A j \in {"hostSession", "clientSession"} :
       job[j].pc \in {"portals", "watcher"} => Has(job[j].cfg, job[j].id)
  /\ \A j \in {"hostSession", "clientSession"} : job[j].pc # "idle" => job[j].id \in Ids

-----------------------------------------------------------------------------
(* Tokens *)

Current(m, p) == [capture |-> p.capture, remote |-> p.remote] = portal[m][p.id]

\* Tokens are those the portal expects, but for the peer of a session that has
\* been given others and has yet to save them.
Tokens ==
  \A m \in Machines : ~torn[m] =>
    LET s == Session(m) IN
    /\ \A p \in Records(m) :
         p.keep /\ (p.id # job[s].id \/ job[s].pc \notin Saving \cup {"watcher"}) => Current(m, p)
    /\ job[s].pc = "watcher" =>
         \A p \in Records(m) :
           p.keep /\ p.id = job[s].id => p.capture = portal[m][p.id].capture
    /\ job[s].pc \in Saving /\ s \notin behind =>
         \A p \in Recs(job[s].cfg) : p.keep => Current(m, p)

-----------------------------------------------------------------------------
(* Placements *)

Applying == job["apply"].pc = "asked"
Controlling == job["control"].pc # "idle"

Exchange ==
  /\ topoLink.kind = "request" =>
       /\ Applying /\ topoLink.side = job["apply"].side /\ ~Controlling
       /\ job["clientSession"].pc = "running" /\ job["clientSession"].id = job["apply"].id
  /\ topoLink.kind = "ack" => Applying /\ ~Controlling
  /\ Controlling => job["clientSession"].pc = "running"
  /\ Controlling /\ Applying => job["clientSession"].id = job["apply"].id
  /\ Controlling /\ faults = 0 => Applying
  /\ job["apply"].pc \in Saving => ~Controlling

\* The client saves the placement opposite to the one asked for.
ClientTurns ==
  ~torn["client"] /\ job["control"].pc \in Saving /\ "control" \notin behind /\ Applying =>
    Recs(job["control"].cfg) =
      Placed(Records("client"), job["apply"].id, Opposite(job["apply"].side))

\* The client has saved it.
ClientTurned ==
  \/ Applying /\ (job["control"].pc = "ack" \/ topoLink.kind = "ack")
  \/ job["apply"].pc \in Saving
ClientFirst ==
  ~torn["client"] /\ ClientTurned =>
    \A r \in Records("client") : r.id = job["apply"].id => r.side = Opposite(job["apply"].side)

\* A session watches the edge its file names until it is told.
Watches ==
  ~torn["client"] /\ faults = 0 /\ job["clientSession"].pc # "idle" =>
    \A p \in Records("client") : p.id = job["clientSession"].id =>
      \/ p.side = job["clientSession"].side
      \/ job["clientSession"].pc = "running" /\ (restart \/ job["control"].pc = "ack")

-----------------------------------------------------------------------------
(* Agreement *)

Undisturbed == Intact /\ ~unpaired /\ faults = 0

\* The peer that is on its way into a file.
HostAdds ==
  IF pairLink.kind = "grant" THEN {HostPeer(pairLink)}
  ELSE IF job["pairHost"].pc \in Saving
       THEN {p \in Recs(job["pairHost"].cfg) : p.id = made} ELSE {}
ClientAdds ==
  IF ClientPending THEN {p \in Recs(job["pairClient"].cfg) : p.id = made} ELSE {}

Coming(R, New) == {q \in R : \A p \in New : q.at # p.at} \cup New

\* The placement that is on its way into a file.
HostSide(p) ==
  IF p.id = job["apply"].id /\ (ClientTurned \/ (Applying /\ Controlling))
  THEN job["apply"].side ELSE p.side
ClientSide(q) ==
  IF q.id = job["apply"].id /\ Applying /\ job["control"].pc \in Saving
  THEN Opposite(job["apply"].side) ELSE q.side

Mirrored(p, q) ==
  p.id = q.id /\ p.at = q.at /\ ClientSide(q) = Opposite(HostSide(p))

FilesAgree ==
  Undisturbed =>
    LET H == Coming(Records("host"), HostAdds)
        C == Coming(Records("client"), ClientAdds)
    IN  /\ \A p \in H : p.id \in removed \/ \E q \in C : Mirrored(p, q)
        /\ \A q \in C : q.id \in removed \/ \E p \in H : Mirrored(p, q)

SetupInv ==
  /\ Typing /\ OneWriter /\ IdsMade /\ Pairings
  /\ Fresh /\ ChosenThere /\ Tokens
  /\ Exchange /\ ClientTurns /\ ClientFirst /\ Watches
  /\ FilesAgree
=============================================================================
