-------------------------------- MODULE Capture --------------------------------
(***************************************************************************)
(* zergmap.c and the file loop of zergmap-driver.c: packets are decoded    *)
(* header by header, and each zerg heard becomes a vertex and, but for a   *)
(* status packet, a point.  What a read returns is chosen by the           *)
(* environment: one action per header and per value that steers the code.  *)
(* malloc succeeds.                                                        *)
(***************************************************************************)
EXTENDS Points, FiniteSets

CONSTANTS Id,          \* source ids packets carry
          Fix,         \* the positions GPS payloads carry
          Health,      \* what -h may be given, 0 for no -h
          Percent,     \* percents of health status payloads carry
          NoFix,       \* no position: NAN in a vertex, NULL in the header
          MaxFiles,    \* bound: files named on the command line
          MaxPackets   \* bound: packets of the first file, each later one has one less

ASSUME CaptureAssumption == MaxFiles \in Nat /\ MaxPackets \in Nat

VARIABLES pc,         \* what is read next, or how the run went
          threshold,  \* -h and its argument, 0 without
          files_left, \* files the loop has not opened yet
          stats,      \* the counters of struct stats
          headers,    \* the packet headers that are allocated
          zhdr,       \* the one zerg header all packets are read into
          nodes,      \* g->nodes, head first
          points,     \* the points of the tree
          adj         \* the edges of the graph

vars == <<pc, threshold, files_left, stats, headers, zhdr, nodes, points, adj>>

Bump(field) == [stats EXCEPT ![field] = @ + 1]

Ids == {nodes[k].id : k \in 1 .. Len(nodes)}

Init ==
  /\ pc = "file"
  /\ threshold \in Health
  /\ files_left \in 1 .. MaxFiles
  /\ stats = [packet_count |-> 0, bad |-> 0, total |-> 0, files |-> 0]
  /\ headers = {}
  /\ zhdr = [type |-> "MESSAGE", srcid |-> 0, status |-> FALSE, gps |-> NoFix, low_health |-> FALSE]
  /\ nodes = <<>> /\ points = <<>> /\ adj = <<>>

kept == <<threshold, files_left, stats, zhdr, nodes, points, adj>>
-----------------------------------------------------------------------------
(* A file that cannot be opened or whose header is not a capture's, or not *)
(* Ethernet's, ends the run, whatever was decoded before.                  *)
BadFile ==
  /\ pc = "file"
  /\ \E bad \in {0, 1} : stats' = [stats EXCEPT !.packet_count = 0, !.bad = @ + bad]
  /\ pc' = "failed"
  /\ UNCHANGED <<threshold, files_left, headers, zhdr, nodes, points, adj>>

OpenFile ==
  /\ pc = "file"
  /\ stats' = [stats EXCEPT !.packet_count = 0, !.files = @ + 1]
  /\ files_left' = files_left - 1
  /\ pc' = "packet"
  /\ UNCHANGED <<threshold, headers, zhdr, nodes, points, adj>>

NextPacket ==
  /\ pc = "packet"
  /\ stats.packet_count + stats.files <= MaxPackets
  /\ stats' = Bump("packet_count")
  /\ pc' = "eth"
  /\ UNCHANGED <<threshold, files_left, headers, zhdr, nodes, points, adj>>

AfterFile == IF files_left = 0 THEN "link" ELSE "file"

EndOfFile ==
  /\ pc = "packet"
  /\ stats' = Bump("packet_count")
  /\ pc' = AfterFile
  /\ UNCHANGED <<threshold, files_left, headers, zhdr, nodes, points, adj>>
-----------------------------------------------------------------------------
(* A header is allocated and read, and the next one is chosen by it. *)
Parse(at, header, next) ==
  /\ pc = at
  /\ headers' = headers \cup {header}
  /\ pc' = next
  /\ UNCHANGED kept

(* Nothing left to read: the run ends. *)
Cut ==
  /\ pc \in {"eth", "vlan"}
  /\ headers' = {}
  /\ pc' = "failed"
  /\ UNCHANGED kept

ParseEth  == \E next \in {"vlan", "ipv4", "ipv6", "udp"} : Parse("eth", "eth", next)
ParseVlan == \E next \in {"ipv4 in vlan", "ipv6", "udp"} : Parse("vlan", "eth_802q", next)

ParseIpv4 == \E at \in {"ipv4", "ipv4 in vlan"}, next \in {"udp", "ipv6"} : Parse(at, "ipv4", next)
ParseIpv6 == Parse("ipv6", "ipv6", "udp")
ParseUdp  == Parse("udp", "udp", "zerg")

(* Not the code: the headers of the packet are kept. *)
RefusedOnly ==
  /\ stats' = Bump("bad")
  /\ pc' = "packet"
  /\ UNCHANGED headers

(* A packet that is refused is counted and its headers are freed. *)
Refused ==
  /\ stats' = Bump("bad")
  /\ headers' = {}
  /\ pc' = "packet"

(* The wrong protocol or port; in a VLAN the protocol of IPv4 is let pass. *)
Skip ==
  /\ pc \in {"ipv4", "ipv6", "udp"}
  /\ Refused
  /\ UNCHANGED <<threshold, files_left, zhdr, nodes, points, adj>>

(* Reads into the header that is there; a wrong length refuses the packet. *)
ParseZerg ==
  /\ pc = "zerg"
  /\ \E type \in {"MESSAGE", "STATUS", "COMMAND", "GPS", "other"}, id \in Id :
       zhdr' = [zhdr EXCEPT !.type = type, !.srcid = id]
  /\ \/ pc' = "payload" /\ UNCHANGED <<stats, headers>>
     \/ Refused
  /\ UNCHANGED <<threshold, files_left, nodes, points, adj>>
-----------------------------------------------------------------------------
(* Not the code: only a zerg with a position becomes a vertex. *)
NodesWithFix(header) ==
  IF header.srcid \in Ids \/ header.gps = NoFix THEN nodes
  ELSE <<[id |-> header.srcid, fix |-> header.gps, health |-> header.low_health]>> \o nodes

(* graph_add_vertex, for an id that is not in the graph. *)
NodesWith(header) ==
  IF header.srcid \in Ids THEN nodes
  ELSE <<[id |-> header.srcid, fix |-> header.gps, health |-> header.low_health]>> \o nodes

(* The rest of packet_hdr_parse's turn. *)
PacketDone(counted) ==
  /\ headers' = {}
  /\ stats' = [counted EXCEPT !.total = @ + counted.packet_count]
  /\ pc' = "packet"
  /\ UNCHANGED <<threshold, files_left, adj>>

(* A message or a command counts twice. *)
Message ==
  /\ pc = "payload" /\ zhdr.type \in {"MESSAGE", "COMMAND"}
  /\ nodes' = NodesWith(zhdr)
  /\ points' = Inserted(points, PlainPoint(zhdr.srcid))
  /\ PacketDone(Bump("packet_count"))
  /\ UNCHANGED zhdr

OtherType ==
  /\ pc = "payload" /\ zhdr.type = "other"
  /\ PacketDone(Bump("bad"))
  /\ UNCHANGED <<nodes, points, zhdr>>

(* Not the code: the payload is left in the header. *)
NotDestroyed(header) == header

(* destroy_zerg: what is freed goes by the type of the header. *)
Destroyed(header) ==
  CASE header.type = "STATUS" -> [header EXCEPT !.status = FALSE]
    [] header.type = "GPS"    -> [header EXCEPT !.gps = NoFix]
    [] OTHER -> header

(* A payload of which nothing can be read, and a status without a name. *)
ShortPayload ==
  /\ pc = "payload" /\ zhdr.type \in {"STATUS", "GPS"}
  /\ zhdr' = Destroyed(zhdr)
  /\ \/ PacketDone(stats)
     \/ zhdr.type = "STATUS" /\ PacketDone(Bump("bad"))
  /\ UNCHANGED <<nodes, points>>

Low(percent) == percent < IF threshold # 0 THEN threshold ELSE 10

Status(percent) ==
  /\ pc = "payload" /\ zhdr.type = "STATUS"
  /\ LET read == [zhdr EXCEPT !.status = TRUE, !.low_health = @ \/ Low(percent)] IN
       /\ nodes' = NodesWith(read)
       /\ zhdr' = Destroyed(read)
  /\ PacketDone(stats)
  /\ UNCHANGED points

Position(fix) == Inserted(points, ZergPoint(zhdr.srcid, fix))

(* The first position of a zerg is taken; a later one is taken unless it   *)
(* is farther from the last than the accuracy allows.                      *)
Gps(fix) ==
  /\ pc = "payload" /\ zhdr.type = "GPS"
  /\ LET read == [zhdr EXCEPT !.gps = fix] IN
       /\ nodes' = IF zhdr.srcid \in Ids
                   THEN [k \in 1 .. Len(nodes) |->
                           IF nodes[k].id = zhdr.srcid THEN [nodes[k] EXCEPT !.fix = fix] ELSE nodes[k]]
                   ELSE NodesWith(read)
       /\ zhdr' = Destroyed(read)
  /\ points' = Position(fix)
  /\ PacketDone(stats)

(* A position too far from the last one ends the run without a report. *)
Conflict(fix) ==
  /\ pc = "payload" /\ zhdr.type = "GPS"
  /\ \E k \in 1 .. Len(nodes) : nodes[k].id = zhdr.srcid /\ nodes[k].fix # NoFix
  /\ points' = Position(fix)
  /\ zhdr' = [zhdr EXCEPT !.gps = fix]
  /\ pc' = "conflict"
  /\ UNCHANGED <<threshold, files_left, stats, headers, nodes, adj>>
-----------------------------------------------------------------------------
(* All files are read: print_quadTree_points links the vertices. *)
Link ==
  /\ pc = "link"
  /\ adj' = AllLinked([id \in Ids |-> <<>>], points)
  /\ pc' = "linked"
  /\ UNCHANGED <<threshold, files_left, stats, headers, zhdr, nodes, points>>

Payload == Message \/ OtherType \/ ShortPayload
           \/ (\E percent \in Percent : Status(percent)) \/ (\E fix \in Fix : Gps(fix) \/ Conflict(fix))

Next ==
  \/ BadFile \/ OpenFile \/ NextPacket \/ EndOfFile
  \/ Cut \/ ParseEth \/ ParseVlan \/ ParseIpv4 \/ ParseIpv6 \/ ParseUdp \/ Skip \/ ParseZerg
  \/ Payload
  \/ Link

Spec == Init /\ [][Next]_vars
-----------------------------------------------------------------------------
Known == Fix \cup {NoFix}

ZergHeader == [type : {"MESSAGE", "STATUS", "COMMAND", "GPS", "other"}, srcid : Id \cup {0},
               status : BOOLEAN, gps : Known, low_health : BOOLEAN]
Node       == [id : Id, fix : Known, health : BOOLEAN]
Point      == [zerg_id : Id, at : {Nowhere} \cup {ZergPoint(0, fix).at : fix \in Fix}]

TypeOK ==
  /\ pc \in {"file", "packet", "eth", "vlan", "ipv4", "ipv4 in vlan", "ipv6", "udp", "zerg",
             "payload", "link", "linked", "failed", "conflict"}
  /\ threshold \in Health
  /\ files_left \in 0 .. MaxFiles
  /\ stats \in [packet_count : Nat, bad : Nat, total : Nat, files : Nat]
  /\ headers \subseteq {"eth", "eth_802q", "ipv4", "ipv6", "udp"}
  /\ zhdr \in ZergHeader
  /\ nodes \in Seq(Node) /\ points \in Seq(Point)

(* No way through a packet leaves an allocated header behind, for the next *)
(* packet to take for its own: a VLAN header that stayed would send every  *)
(* later packet down the VLAN's branch (zergmap.c:169-171, 640-662).       *)
HeadersFreed ==
  pc \in {"file", "packet", "link", "linked", "failed"} => headers = {}

(* Every point belongs to a zerg that is in the graph: graph_add_edge would *)
(* silently drop its links (zergmap.c:429-458, 607-619; graph.c:349).       *)
PointsHaveNodes == \A i \in 1 .. Len(points) : points[i].zerg_id \in Ids

(* Links are mutual, with one distance both ways, although the two         *)
(* directions are decided apart, with different thresholds, and a zerg may *)
(* be at several points (quadTree.c:422-451).  Pathfinding and the count   *)
(* of links rely on it.                                                    *)
LinksMutual ==
  pc = "linked" =>
    \A s \in Ids : \A i \in 1 .. Len(adj[s]) :
      \E j \in 1 .. Len(adj[adj[s][i].to]) :
        adj[adj[s][i].to][j] = [to |-> s, distance |-> adj[s][i].distance]

(* The distance the comment at quadTree.c:409-411 means: the altitude      *)
(* counts "when zerg are in the same exact lat and lon".                   *)
Separation(a, b) == IF Metres(a, b) = 0 THEN AltGap(a, b) ELSE Metres(a, b)

(* "Edges are added if the distance is greater than 0 and less than 15m"   *)
(* (quadTree.c:411-412): all such zerg are linked.                         *)
NearLinked ==
  pc = "linked" =>
    \A i, j \in 1 .. Len(points) :
      /\ 0 \notin {points[i].zerg_id, points[j].zerg_id}
      /\ SameCell(points[i].at, points[j].at) /\ Separation(points[i].at, points[j].at) \in 1 .. 14
      => \E e \in 1 .. Len(adj[points[i].zerg_id]) : adj[points[i].zerg_id][e].to = points[j].zerg_id
=============================================================================
