---------------------------- MODULE CaptureProofs ----------------------------
(***************************************************************************)
(* Theorems about Capture and ZergMap for any ids, positions and number of *)
(* files and packets: what the decoder's shared header and its early       *)
(* returns may never mix up, that the links made of the points are mutual, *)
(* and that the reports at the end of a run forget no zerg.                *)
(***************************************************************************)
EXTENDS ZergMap, TLAPS, NaturalsInduction, WellFoundedInduction, SequenceTheorems

(* A file is only opened while there is one left, and a payload is only    *)
(* decoded for a source id that was read.                                  *)
InStep ==
  /\ pc = "file" => files_left > 0
  /\ pc = "payload" => zhdr.srcid \in Id

TypeInv == TypeOK /\ InStep

(* What a vertex list becomes when a packet is heard.                      *)
LEMMA NodesWithFacts ==
  ASSUME nodes \in Seq(Node),
         NEW header, header.srcid \in Id, header.gps \in Known, header.low_health \in BOOLEAN
  PROVE  /\ NodesWith(header) \in Seq(Node)
         /\ \A k \in 1 .. Len(NodesWith(header)) :
              \/ \E j \in 1 .. Len(nodes) : NodesWith(header)[k] = nodes[j]
              \/ /\ header.srcid \notin Ids
                 /\ NodesWith(header)[k].id = header.srcid
                 /\ NodesWith(header)[k].fix = header.gps
         /\ \A id \in Ids \cup {header.srcid} :
              \E k \in 1 .. Len(NodesWith(header)) : NodesWith(header)[k].id = id
<1>1. CASE header.srcid \in Ids
  BY <1>1 DEF NodesWith, Ids
<1>2. CASE header.srcid \notin Ids
  <2> DEFINE new == [id |-> header.srcid, fix |-> header.gps, health |-> header.low_health]
             longer == <<new>> \o nodes
  <2>1. NodesWith(header) = longer
    BY <1>2 DEF NodesWith
  <2>2. new \in Node
    BY DEF Node
  <2>3. /\ longer \in Seq(Node)
        /\ Len(longer) = Len(nodes) + 1
        /\ longer[1] = new
        /\ \A k \in 1 .. Len(nodes) : longer[k + 1] = nodes[k]
    BY <2>2
  <2>4. \A k \in 1 .. Len(longer) : k = 1 \/ (k - 1 \in 1 .. Len(nodes) /\ longer[k] = nodes[k - 1])
    BY <2>3
  <2>5. \A k \in 1 .. Len(nodes) : k + 1 \in 1 .. Len(longer)
    BY <2>3
  <2>6. 1 \in 1 .. Len(longer)
    BY <2>3
  <2>7. new.id = header.srcid /\ new.fix = header.gps
    OBVIOUS
  <2>8. \A id \in Ids \cup {header.srcid} : \E k \in 1 .. Len(longer) : longer[k].id = id
    BY <2>3, <2>5, <2>6, <2>7 DEF Ids
  <2>9. \A k \in 1 .. Len(longer) :
              \/ \E j \in 1 .. Len(nodes) : longer[k] = nodes[j]
              \/ /\ header.srcid \notin Ids
                 /\ longer[k].id = header.srcid
                 /\ longer[k].fix = header.gps
    BY <1>2, <2>3, <2>4, <2>7
  <2> HIDE DEF longer
  <2> QED BY <2>1, <2>3, <2>8, <2>9
<1> QED BY <1>1, <1>2

(* A position taken over by the vertex of its zerg. *)
Moved(id, fix) ==
  [k \in 1 .. Len(nodes) |-> IF nodes[k].id = id THEN [nodes[k] EXCEPT !.fix = fix] ELSE nodes[k]]

LEMMA MovedFacts ==
  ASSUME nodes \in Seq(Node), NEW id \in Id, NEW fix \in Fix
  PROVE  /\ Moved(id, fix) \in Seq(Node)
         /\ Len(Moved(id, fix)) = Len(nodes)
         /\ \A k \in 1 .. Len(nodes) :
              /\ Moved(id, fix)[k].id = nodes[k].id
              /\ Moved(id, fix)[k].fix = IF nodes[k].id = id THEN fix ELSE nodes[k].fix
<1>1. \A k \in 1 .. Len(nodes) : nodes[k] \in Node
  OBVIOUS
<1>2. \A k \in 1 .. Len(nodes) : Moved(id, fix)[k] \in Node
  BY <1>1 DEF Moved, Node, Known
<1>3. Moved(id, fix) \in [1 .. Len(nodes) -> Node]
  BY <1>2 DEF Moved
<1>4. Moved(id, fix) \in Seq(Node) /\ Len(Moved(id, fix)) = Len(nodes)
  BY <1>3
<1> QED BY <1>1, <1>4 DEF Moved, Node

(* A point more, if it lies in the box of the tree. *)
LEMMA InsertedFacts ==
  ASSUME points \in Seq(Point), NEW p \in Point
  PROVE  /\ Inserted(points, p) \in Seq(Point)
         /\ \A i \in 1 .. Len(Inserted(points, p)) :
              \/ Inserted(points, p)[i] = p
              \/ \E j \in 1 .. Len(points) : Inserted(points, p)[i] = points[j]
BY DEF Inserted

LEMMA PlainPointType == ASSUME NEW id \in Id PROVE PlainPoint(id) \in Point /\ PlainPoint(id).zerg_id = id
BY DEF PlainPoint, Point

LEMMA ZergPointType ==
  ASSUME NEW id \in Id, NEW fix \in Fix
  PROVE  ZergPoint(id, fix) \in Point /\ ZergPoint(id, fix).zerg_id = id
<1>1. ZergPoint(id, fix).at = ZergPoint(0, fix).at
  BY DEF ZergPoint
<1> QED BY <1>1 DEF ZergPoint, Point

Stats == [packet_count : Nat, bad : Nat, total : Nat, files : Nat]

LEMMA BumpType ==
  ASSUME stats \in Stats, NEW field \in {"packet_count", "bad"}
  PROVE  Bump(field) \in Stats
BY DEF Stats, Bump

LEMMA PacketDoneType ==
  ASSUME NEW counted \in Stats, PacketDone(counted), TypeInv
  PROVE  /\ stats' \in Stats
         /\ pc' = "packet" /\ headers' = {}
         /\ threshold' \in Health /\ files_left' \in 0 .. MaxFiles
<1>1. counted.total + counted.packet_count \in Nat
  BY DEF Stats
<1>2. stats' \in Stats
  BY <1>1 DEF PacketDone, Stats
<1> QED BY <1>2 DEF PacketDone, TypeInv, TypeOK
-----------------------------------------------------------------------------
(* Between packets the shared header holds no position, so that the next   *)
(* zerg to be heard cannot be given it.                                    *)
GpsFreed == pc # "conflict" => zhdr.gps = NoFix

Inv == TypeInv /\ HeadersFreed /\ PointsHaveNodes /\ GpsFreed

LEMMA InvInit == Init => Inv
<1> SUFFICES ASSUME Init PROVE Inv
  OBVIOUS
<1>1. TypeInv
  BY CaptureAssumption DEF Init, TypeInv, TypeOK, InStep, ZergHeader, Known
<1> QED BY <1>1 DEF Init, Inv, HeadersFreed, PointsHaveNodes, GpsFreed

(* Opening files and reading headers leaves the vertices, the points and   *)
(* what the zerg header points at alone.                                   *)
Reading ==
  \/ BadFile \/ OpenFile \/ NextPacket \/ EndOfFile
  \/ Cut \/ ParseEth \/ ParseVlan \/ ParseIpv4 \/ ParseIpv6 \/ ParseUdp \/ Skip

LEMMA ReadingKeepsInv == Inv /\ Reading => Inv'
<1> SUFFICES ASSUME Inv, Reading PROVE Inv'
  OBVIOUS
<1>1. UNCHANGED <<threshold, zhdr, nodes, points>>
  BY DEF Reading, BadFile, OpenFile, NextPacket, EndOfFile, Cut, ParseEth, ParseVlan, ParseIpv4,
         ParseIpv6, ParseUdp, Skip, Parse, kept
<1>2. pc # "conflict" /\ pc' \notin {"payload", "conflict"}
  BY DEF Reading, BadFile, OpenFile, NextPacket, EndOfFile, Cut, ParseEth, ParseVlan, ParseIpv4,
         ParseIpv6, ParseUdp, Skip, Parse, Refused, AfterFile
<1>3. stats \in Stats /\ files_left \in 0 .. MaxFiles /\ MaxFiles \in Nat
  BY CaptureAssumption DEF Inv, TypeInv, TypeOK, Stats
<1>4. stats' \in Stats
  <2>1. CASE BadFile
    <3>1. PICK bad \in {0, 1} : stats' = [stats EXCEPT !.packet_count = 0, !.bad = @ + bad]
      BY <2>1 DEF BadFile
    <3>2. stats.bad + bad \in Nat
      BY <1>3 DEF Stats
    <3> QED BY <1>3, <3>1, <3>2 DEF Stats
  <2>2. CASE OpenFile
    <3>1. stats.files + 1 \in Nat
      BY <1>3 DEF Stats
    <3> QED BY <1>3, <2>2, <3>1 DEF OpenFile, Stats
  <2>3. CASE NextPacket \/ EndOfFile \/ Skip
    BY <1>3, <2>3, BumpType DEF NextPacket, EndOfFile, Skip, Refused
  <2>4. CASE Cut \/ ParseEth \/ ParseVlan \/ ParseIpv4 \/ ParseIpv6 \/ ParseUdp
    BY <1>3, <2>4 DEF Cut, ParseEth, ParseVlan, ParseIpv4, ParseIpv6, ParseUdp, Parse, kept
  <2> QED BY <2>1, <2>2, <2>3, <2>4 DEF Reading
<1>5. /\ files_left' \in 0 .. MaxFiles
      /\ pc' = "file" => files_left' > 0
  <2>1. CASE OpenFile
    BY <1>3, <2>1 DEF Inv, TypeInv, InStep, OpenFile
  <2>2. CASE EndOfFile
    BY <1>3, <2>2 DEF EndOfFile, AfterFile
  <2>3. CASE Cut \/ ParseEth \/ ParseVlan \/ ParseIpv4 \/ ParseIpv6 \/ ParseUdp
    BY <1>3, <2>3 DEF Cut, ParseEth, ParseVlan, ParseIpv4, ParseIpv6, ParseUdp, Parse, kept
  <2>4. CASE BadFile \/ NextPacket \/ Skip
    BY <1>3, <2>4 DEF BadFile, NextPacket, Skip, Refused
  <2> QED BY <2>1, <2>2, <2>3, <2>4 DEF Reading
<1>6. /\ pc' \in {"file", "packet", "eth", "vlan", "ipv4", "ipv4 in vlan", "ipv6", "udp", "zerg",
                  "link", "failed"}
      /\ headers' \subseteq {"eth", "eth_802q", "ipv4", "ipv6", "udp"}
      /\ HeadersFreed'
  BY DEF Inv, TypeInv, TypeOK, HeadersFreed, Reading, BadFile, OpenFile, NextPacket, EndOfFile, Cut,
         ParseEth, ParseVlan, ParseIpv4, ParseIpv6, ParseUdp, Skip, Parse, kept, Refused, AfterFile
<1>7. TypeInv'
  BY <1>1, <1>2, <1>4, <1>5, <1>6 DEF Inv, TypeInv, TypeOK, InStep, Stats
<1>8. PointsHaveNodes' /\ GpsFreed'
  BY <1>1, <1>2 DEF Inv, PointsHaveNodes, GpsFreed, Ids
<1> QED BY <1>6, <1>7, <1>8 DEF Inv

(* The zerg header is read: type and source id are new, what it points at  *)
(* is not.                                                                 *)
LEMMA ParseZergKeepsInv == Inv /\ ParseZerg => Inv'
<1> SUFFICES ASSUME Inv, ParseZerg PROVE Inv'
  OBVIOUS
<1>1. zhdr' \in ZergHeader /\ zhdr'.srcid \in Id /\ zhdr'.gps = zhdr.gps
  BY DEF Inv, TypeInv, TypeOK, ParseZerg, ZergHeader
<1>2. stats' \in Stats
  BY BumpType DEF Inv, TypeInv, TypeOK, ParseZerg, Refused, Stats
<1>3. TypeInv'
  BY <1>1, <1>2 DEF Inv, TypeInv, TypeOK, InStep, Stats, ParseZerg, Refused
<1>4. HeadersFreed' /\ PointsHaveNodes' /\ GpsFreed'
  BY <1>1 DEF Inv, HeadersFreed, PointsHaveNodes, GpsFreed, Ids, ParseZerg, Refused
<1> QED BY <1>3, <1>4 DEF Inv

LEMMA LinkKeepsInv == Inv /\ Link => Inv'
BY DEF Link, Inv, TypeInv, TypeOK, InStep, HeadersFreed, PointsHaveNodes, GpsFreed, Ids
-----------------------------------------------------------------------------
(* What the payload handlers have in common: the packet's headers are      *)
(* freed, the counters stay numbers, and no file is opened.                *)
LEMMA PayloadDone ==
  ASSUME NEW counted \in Stats, PacketDone(counted), Inv,
         zhdr' \in ZergHeader, zhdr'.gps = NoFix, nodes' \in Seq(Node), points' \in Seq(Point)
  PROVE  TypeInv' /\ HeadersFreed' /\ GpsFreed'
<1>1. TypeInv
  BY DEF Inv
<1> QED BY <1>1, PacketDoneType DEF TypeInv, TypeOK, InStep, HeadersFreed, GpsFreed, Stats

(* Every point had a vertex, the new one is of the zerg just heard, and no *)
(* vertex went away.                                                       *)
LEMMA PointsKeepNodes ==
  ASSUME PointsHaveNodes, Ids \subseteq Ids', NEW id \in Ids',
         \A i \in 1 .. Len(points') :
            points'[i].zerg_id = id \/ \E j \in 1 .. Len(points) : points'[i] = points[j]
  PROVE  PointsHaveNodes'
BY DEF PointsHaveNodes

(* The vertices after a packet of a zerg, in terms of ids. *)
LEMMA HeardIds ==
  ASSUME TypeOK, NEW header \in ZergHeader, header.srcid \in Id, nodes' = NodesWith(header)
  PROVE  nodes' \in Seq(Node) /\ Ids' = Ids \cup {header.srcid}
<1>1. header.gps \in Known /\ header.low_health \in BOOLEAN
  BY DEF ZergHeader
<1>2. nodes \in Seq(Node)
  BY DEF TypeOK
<1>3. nodes' \in Seq(Node)
  BY <1>1, <1>2, NodesWithFacts
<1>4. Ids \cup {header.srcid} \subseteq Ids'
  <2>1. \A id \in Ids \cup {header.srcid} : \E k \in 1 .. Len(nodes') : nodes'[k].id = id
    BY <1>1, <1>2, NodesWithFacts
  <2>2. Ids' = {nodes'[k].id : k \in 1 .. Len(nodes')}
    BY DEF Ids
  <2> QED BY <2>1, <2>2
<1>5. Ids' \subseteq Ids \cup {header.srcid}
  <2>1. SUFFICES ASSUME NEW k \in 1 .. Len(nodes') PROVE nodes'[k].id \in Ids \cup {header.srcid}
    BY DEF Ids
  <2>2. \/ \E j \in 1 .. Len(nodes) : nodes'[k] = nodes[j]
        \/ nodes'[k].id = header.srcid
    BY <1>1, <1>2, <2>1, NodesWithFacts
  <2> QED BY <2>2 DEF Ids
<1> QED BY <1>3, <1>4, <1>5

LEMMA MessageKeepsInv == Inv /\ Message => Inv'
<1> SUFFICES ASSUME Inv, Message PROVE Inv'
  OBVIOUS
<1>1. TypeOK /\ zhdr \in ZergHeader /\ zhdr.srcid \in Id /\ points \in Seq(Point) /\ stats \in Stats
  BY DEF Inv, TypeInv, TypeOK, InStep, Message, Stats
<1>2. nodes' = NodesWith(zhdr) /\ points' = Inserted(points, PlainPoint(zhdr.srcid)) /\ zhdr' = zhdr
  BY DEF Message
<1>3. nodes' \in Seq(Node) /\ Ids' = Ids \cup {zhdr.srcid}
  BY <1>1, <1>2, HeardIds
<1>4. /\ points' \in Seq(Point)
      /\ \A i \in 1 .. Len(points') :
           points'[i].zerg_id = zhdr.srcid \/ \E j \in 1 .. Len(points) : points'[i] = points[j]
  BY <1>1, <1>2, PlainPointType, InsertedFacts
<1>5. PointsHaveNodes'
  BY <1>3, <1>4, PointsKeepNodes DEF Inv
<1>6. zhdr.gps = NoFix
  BY DEF Inv, GpsFreed, Message
<1>7. PacketDone(Bump("packet_count")) /\ Bump("packet_count") \in Stats
  BY <1>1, BumpType DEF Message
<1> QED BY <1>1, <1>2, <1>3, <1>4, <1>5, <1>6, <1>7, PayloadDone DEF Inv

LEMMA OtherTypeKeepsInv == Inv /\ OtherType => Inv'
<1> SUFFICES ASSUME Inv, OtherType PROVE Inv'
  OBVIOUS
<1>1. /\ zhdr' \in ZergHeader /\ zhdr'.gps = NoFix
      /\ nodes' \in Seq(Node) /\ points' \in Seq(Point)
  BY DEF Inv, TypeInv, TypeOK, GpsFreed, OtherType
<1>2. PacketDone(Bump("bad")) /\ Bump("bad") \in Stats
  BY BumpType DEF Inv, TypeInv, TypeOK, OtherType, Stats
<1>3. PointsHaveNodes'
  BY DEF Inv, PointsHaveNodes, Ids, OtherType
<1> QED BY <1>1, <1>2, <1>3, PayloadDone DEF Inv

(* destroy_zerg leaves the header well formed, and never with a position   *)
(* that was read for a packet of type GPS.                                 *)
LEMMA DestroyedFacts ==
  ASSUME NEW header \in ZergHeader
  PROVE  /\ Destroyed(header) \in ZergHeader
         /\ header.gps = NoFix \/ header.type = "GPS" => Destroyed(header).gps = NoFix
BY DEF Destroyed, ZergHeader, Known

LEMMA ShortPayloadKeepsInv == Inv /\ ShortPayload => Inv'
<1> SUFFICES ASSUME Inv, ShortPayload PROVE Inv'
  OBVIOUS
<1>1. /\ zhdr \in ZergHeader /\ zhdr.gps = NoFix
      /\ nodes' \in Seq(Node) /\ points' \in Seq(Point)
  BY DEF Inv, TypeInv, TypeOK, GpsFreed, ShortPayload
<1>2. zhdr' \in ZergHeader /\ zhdr'.gps = NoFix
  BY <1>1, DestroyedFacts DEF ShortPayload
<1>3. PICK counted \in Stats : PacketDone(counted)
  BY BumpType DEF Inv, TypeInv, TypeOK, ShortPayload, Stats
<1>4. PointsHaveNodes'
  BY DEF Inv, PointsHaveNodes, Ids, ShortPayload
<1> QED BY <1>1, <1>2, <1>3, <1>4, PayloadDone DEF Inv

LEMMA StatusKeepsInv == ASSUME NEW percent \in Percent PROVE Inv /\ Status(percent) => Inv'
<1> SUFFICES ASSUME Inv, Status(percent) PROVE Inv'
  OBVIOUS
<1> DEFINE read == [zhdr EXCEPT !.status = TRUE, !.low_health = @ \/ Low(percent)]
<1>1. TypeOK /\ zhdr \in ZergHeader /\ zhdr.srcid \in Id /\ points \in Seq(Point) /\ stats \in Stats
  BY DEF Inv, TypeInv, TypeOK, InStep, Status, Stats
<1>2. read \in ZergHeader /\ read.srcid = zhdr.srcid /\ read.gps = NoFix
  <2>1. (zhdr.low_health \/ Low(percent)) \in BOOLEAN
    OBVIOUS
  <2> HIDE DEF Low
  <2> QED BY <1>1, <2>1 DEF ZergHeader, Inv, GpsFreed, Status
<1>3. nodes' = NodesWith(read) /\ zhdr' = Destroyed(read) /\ points' = points /\ PacketDone(stats)
  BY DEF Status
<1> HIDE DEF read
<1>4. nodes' \in Seq(Node) /\ Ids \subseteq Ids'
  BY <1>1, <1>2, <1>3, HeardIds
<1>5. zhdr' \in ZergHeader /\ zhdr'.gps = NoFix
  BY <1>2, <1>3, DestroyedFacts
<1>6. PointsHaveNodes'
  BY <1>3, <1>4 DEF Inv, PointsHaveNodes
<1> QED BY <1>1, <1>3, <1>4, <1>5, <1>6, PayloadDone DEF Inv

LEMMA GpsKeepsInv == ASSUME NEW fix \in Fix PROVE Inv /\ Gps(fix) => Inv'
<1> SUFFICES ASSUME Inv, Gps(fix) PROVE Inv'
  OBVIOUS
<1> DEFINE read == [zhdr EXCEPT !.gps = fix]
<1>1. /\ TypeOK /\ zhdr \in ZergHeader /\ zhdr.srcid \in Id
      /\ nodes \in Seq(Node) /\ points \in Seq(Point) /\ stats \in Stats
  BY DEF Inv, TypeInv, TypeOK, InStep, Gps, Stats
<1>2. read \in ZergHeader /\ read.srcid = zhdr.srcid /\ read.type = "GPS"
  BY <1>1 DEF ZergHeader, Known, Gps
<1>3. /\ nodes' = IF zhdr.srcid \in Ids THEN Moved(zhdr.srcid, fix) ELSE NodesWith(read)
      /\ zhdr' = Destroyed(read) /\ PacketDone(stats)
      /\ points' = Inserted(points, ZergPoint(zhdr.srcid, fix))
  BY DEF Gps, Moved, Position
<1> HIDE DEF read
<1>4. nodes' \in Seq(Node) /\ Ids \subseteq Ids' /\ zhdr.srcid \in Ids'
  <2>1. CASE zhdr.srcid \in Ids
    <3>1. nodes' \in Seq(Node) /\ Len(nodes') = Len(nodes)
          /\ \A k \in 1 .. Len(nodes) : nodes'[k].id = nodes[k].id
      BY <1>1, <1>3, <2>1, MovedFacts
    <3>2. Ids' = Ids
      BY <3>1 DEF Ids
    <3> QED BY <2>1, <3>1, <3>2
  <2>2. CASE zhdr.srcid \notin Ids
    BY <1>1, <1>2, <1>3, <2>2, HeardIds
  <2> QED BY <2>1, <2>2
<1>5. zhdr' \in ZergHeader /\ zhdr'.gps = NoFix
  BY <1>2, <1>3, DestroyedFacts
<1>6. /\ points' \in Seq(Point)
      /\ \A i \in 1 .. Len(points') :
           points'[i].zerg_id = zhdr.srcid \/ \E j \in 1 .. Len(points) : points'[i] = points[j]
  <2>1. /\ ZergPoint(zhdr.srcid, fix) \in Point
        /\ ZergPoint(zhdr.srcid, fix).zerg_id = zhdr.srcid
    BY <1>1, ZergPointType
  <2> QED BY <1>1, <1>3, <2>1, InsertedFacts
<1>7. PointsHaveNodes'
  BY <1>4, <1>6, PointsKeepNodes DEF Inv
<1> QED BY <1>1, <1>3, <1>4, <1>5, <1>6, <1>7, PayloadDone DEF Inv

LEMMA ConflictKeepsInv == ASSUME NEW fix \in Fix PROVE Inv /\ Conflict(fix) => Inv'
<1> SUFFICES ASSUME Inv, Conflict(fix) PROVE Inv'
  OBVIOUS
<1>1. /\ zhdr \in ZergHeader /\ zhdr.srcid \in Id /\ points \in Seq(Point)
      /\ zhdr.srcid \in Ids /\ Ids' = Ids
  BY DEF Inv, TypeInv, TypeOK, InStep, Conflict, Ids
<1>2. zhdr' \in ZergHeader
  BY <1>1 DEF Conflict, ZergHeader, Known
<1>3. /\ points' \in Seq(Point)
      /\ \A i \in 1 .. Len(points') :
           points'[i].zerg_id = zhdr.srcid \/ \E j \in 1 .. Len(points) : points'[i] = points[j]
  BY <1>1, ZergPointType, InsertedFacts DEF Conflict, Position
<1>4. PointsHaveNodes'
  BY <1>1, <1>3, PointsKeepNodes DEF Inv
<1>5. TypeInv'
  BY <1>2, <1>3 DEF Inv, TypeInv, TypeOK, InStep, Conflict
<1> QED BY <1>4, <1>5 DEF Inv, HeadersFreed, GpsFreed, Conflict

LEMMA InvStep == Inv /\ [Next]_vars => Inv'
<1> SUFFICES ASSUME Inv, [Next]_vars PROVE Inv'
  OBVIOUS
<1>1. CASE Next
  BY <1>1, ReadingKeepsInv, ParseZergKeepsInv, LinkKeepsInv, MessageKeepsInv, OtherTypeKeepsInv,
     ShortPayloadKeepsInv, StatusKeepsInv, GpsKeepsInv, ConflictKeepsInv DEF Next, Payload, Reading
<1>2. CASE UNCHANGED vars
  BY <1>2 DEF vars, Inv, TypeInv, TypeOK, InStep, HeadersFreed, PointsHaveNodes, GpsFreed, Ids
<1> QED BY <1>1, <1>2

LEMMA InvAlways == Spec => []Inv
BY InvInit, InvStep, PTL DEF Spec

(* Every variable of the decoder keeps its type, and a file is opened only *)
(* while one is left (zergmap.c:81-234, zergmap-driver.c:73-118).          *)
THEOREM TypeCorrect == Spec => []TypeOK
<1>1. Inv => TypeOK
  BY DEF Inv, TypeInv
<1> QED BY <1>1, InvAlways, PTL

(* However many packets are decoded, refused or cut short, no header that  *)
(* one of them allocated is there when the next one is read                *)
(* (zergmap.c:151-232, 640-662).                                           *)
THEOREM NoHeaderLeft == Spec => []HeadersFreed
<1>1. Inv => HeadersFreed
  BY DEF Inv
<1> QED BY <1>1, InvAlways, PTL

(* Every point in the tree is of a zerg that is in the graph, whatever     *)
(* order its packets come in (zergmap.c:429-458, 607-619).                 *)
THEOREM PointsAreKnown == Spec => []PointsHaveNodes
<1>1. Inv => PointsHaveNodes
  BY DEF Inv
<1> QED BY <1>1, InvAlways, PTL
-----------------------------------------------------------------------------
(* With the record of what was sent: a vertex has the position its zerg    *)
(* sent last, and a zerg without a vertex has sent none.                   *)
SilentSentNone == \A id \in Id \ Ids : sent_fix[id] = NoFix

OwnInv == sent_fix \in [Id -> Known] /\ FixIsOwn /\ SilentSentNone

LEMMA OwnUnchanged ==
  ASSUME OwnInv, UNCHANGED <<nodes, sent_fix>> PROVE OwnInv'
BY DEF OwnInv, FixIsOwn, SilentSentNone, Ids

(* A zerg is heard by a packet without a position. *)
LEMMA HeardKeepsOwn ==
  ASSUME TypeOK, OwnInv, NEW header \in ZergHeader, header.srcid \in Id, header.gps = NoFix,
         nodes' = NodesWith(header), UNCHANGED sent_fix
  PROVE  OwnInv'
<1>1. header.gps \in Known /\ header.low_health \in BOOLEAN /\ nodes \in Seq(Node)
  BY DEF ZergHeader, TypeOK
<1>2. Ids' = Ids \cup {header.srcid}
  BY HeardIds
<1>3. ASSUME NEW k \in 1 .. Len(nodes') PROVE nodes'[k].fix = sent_fix[nodes'[k].id]
  <2>1. CASE \E j \in 1 .. Len(nodes) : nodes'[k] = nodes[j]
    BY <2>1 DEF OwnInv, FixIsOwn
  <2>2. CASE header.srcid \notin Ids /\ nodes'[k].id = header.srcid /\ nodes'[k].fix = header.gps
    BY <2>2 DEF OwnInv, SilentSentNone
  <2> QED BY <1>1, <1>3, <2>1, <2>2, NodesWithFacts
<1> QED BY <1>2, <1>3 DEF OwnInv, FixIsOwn, SilentSentNone

LEMMA GpsKeepsOwn ==
  ASSUME Inv, OwnInv, NEW fix \in Fix, Gps(fix), sent_fix' = [sent_fix EXCEPT ![zhdr.srcid] = fix]
  PROVE  OwnInv'
<1> DEFINE read == [zhdr EXCEPT !.gps = fix]
<1>1. TypeOK /\ zhdr \in ZergHeader /\ zhdr.srcid \in Id /\ nodes \in Seq(Node)
  BY DEF Inv, TypeInv, TypeOK, InStep, Gps
<1>2. read \in ZergHeader /\ read.srcid = zhdr.srcid /\ read.gps = fix
  BY <1>1 DEF ZergHeader, Known
<1>3. nodes' = IF zhdr.srcid \in Ids THEN Moved(zhdr.srcid, fix) ELSE NodesWith(read)
  BY DEF Gps, Moved
<1>4. sent_fix' \in [Id -> Known]
  BY <1>1 DEF OwnInv, Known
<1> HIDE DEF read
<1>5. CASE zhdr.srcid \in Ids
  <2>1. /\ Len(nodes') = Len(nodes)
        /\ \A k \in 1 .. Len(nodes) :
             /\ nodes'[k].id = nodes[k].id
             /\ nodes'[k].fix = IF nodes[k].id = zhdr.srcid THEN fix ELSE nodes[k].fix
    BY <1>1, <1>3, <1>5, MovedFacts
  <2>2. Ids' = Ids
    BY <2>1 DEF Ids
  <2>3. ASSUME NEW k \in 1 .. Len(nodes) PROVE nodes[k].id \in Id
    <3>1. nodes[k] \in Node
      BY <1>1
    <3> QED BY <3>1 DEF Node
  <2> QED BY <1>1, <1>4, <1>5, <2>1, <2>2, <2>3 DEF OwnInv, FixIsOwn, SilentSentNone
<1>6. CASE zhdr.srcid \notin Ids
  <2>1. Ids' = Ids \cup {zhdr.srcid}
    BY <1>1, <1>2, <1>3, <1>6, HeardIds
  <2>2. ASSUME NEW k \in 1 .. Len(nodes') PROVE nodes'[k].fix = sent_fix'[nodes'[k].id]
    <3>1. \/ \E j \in 1 .. Len(nodes) : nodes'[k] = nodes[j]
          \/ nodes'[k].id = read.srcid /\ nodes'[k].fix = read.gps
      <4>1. read.gps \in Known /\ read.low_health \in BOOLEAN
        BY <1>2 DEF ZergHeader
      <4> QED BY <1>1, <1>2, <1>3, <1>6, <2>2, <4>1, NodesWithFacts
    <3>2. ASSUME NEW j \in 1 .. Len(nodes) PROVE nodes[j].id \in Id /\ nodes[j].id # zhdr.srcid
      <4>1. nodes[j] \in Node
        BY <1>1
      <4>2. nodes[j].id \in Ids
        BY DEF Ids
      <4> QED BY <1>6, <4>1, <4>2 DEF Node
    <3> QED BY <1>1, <1>2, <3>1, <3>2 DEF OwnInv, FixIsOwn
  <2> QED BY <1>1, <1>4, <2>1, <2>2 DEF OwnInv, FixIsOwn, SilentSentNone
<1> QED BY <1>5, <1>6

LEMMA OwnInvStep == Inv /\ OwnInv /\ [MCNext]_mcvars => OwnInv'
<1> SUFFICES ASSUME Inv, OwnInv, [MCNext]_mcvars PROVE OwnInv'
  OBVIOUS
<1>1. ASSUME NEW fix \in Fix, Gps(fix), sent_fix' = [sent_fix EXCEPT ![zhdr.srcid] = fix] PROVE OwnInv'
  BY <1>1, GpsKeepsOwn
<1>2. ASSUME NEW percent \in Percent, Status(percent), UNCHANGED sent_fix PROVE OwnInv'
  <2> DEFINE read == [zhdr EXCEPT !.status = TRUE, !.low_health = @ \/ Low(percent)]
  <2>1. TypeOK /\ zhdr \in ZergHeader /\ zhdr.srcid \in Id
    BY <1>2 DEF Inv, TypeInv, TypeOK, InStep, Status
  <2>2. read \in ZergHeader /\ read.srcid = zhdr.srcid /\ read.gps = NoFix
    BY <1>2, <2>1 DEF ZergHeader, Inv, GpsFreed, Status
  <2>3. nodes' = NodesWith(read)
    BY <1>2 DEF Status
  <2> HIDE DEF read
  <2> QED BY <1>2, <2>1, <2>2, <2>3, HeardKeepsOwn
<1>3. ASSUME Message, UNCHANGED sent_fix PROVE OwnInv'
  <2>1. TypeOK /\ zhdr \in ZergHeader /\ zhdr.srcid \in Id /\ zhdr.gps = NoFix
    BY <1>3 DEF Inv, TypeInv, TypeOK, InStep, Message, GpsFreed
  <2> QED BY <1>3, <2>1, HeardKeepsOwn DEF Message
<1>4. ASSUME Reading \/ ParseZerg \/ OtherType \/ ShortPayload \/ (\E fix \in Fix : Conflict(fix)) \/ Link,
             UNCHANGED sent_fix
      PROVE OwnInv'
  <2>1. UNCHANGED nodes
    BY <1>4 DEF Reading, BadFile, OpenFile, NextPacket, EndOfFile, Cut, ParseEth, ParseVlan, ParseIpv4,
           ParseIpv6, ParseUdp, Skip, Parse, kept, ParseZerg, OtherType, ShortPayload, Conflict, Link
  <2> QED BY <1>4, <2>1, OwnUnchanged
<1>5. CASE UNCHANGED mcvars
  BY <1>5, OwnUnchanged DEF mcvars, vars
<1> QED BY <1>1, <1>2, <1>3, <1>4, <1>5 DEF MCNext, Reading

LEMMA MCRefines == MCInit => Init
BY DEF MCInit

LEMMA MCStepRefines == [MCNext]_mcvars => [Next]_vars
BY DEF MCNext, Next, Payload, mcvars

(* The position of a vertex is the last one its own zerg sent: one header  *)
(* shared by all packets never carries a position from one zerg to another *)
(* (zergmap.c:563-624, 666-688; graph.c:86-131).                           *)
THEOREM FixesAreOwn == MCSpec => []FixIsOwn
<1>1. MCInit => Inv /\ OwnInv
  <2>1. MCInit => Inv
    BY InvInit, MCRefines
  <2>2. MCInit => OwnInv
    BY DEF MCInit, Init, OwnInv, FixIsOwn, SilentSentNone, Known
  <2> QED BY <2>1, <2>2
<1>2. Inv /\ OwnInv /\ [MCNext]_mcvars => Inv' /\ OwnInv'
  BY InvStep, OwnInvStep, MCStepRefines
<1>3. OwnInv => FixIsOwn
  BY DEF OwnInv
<1> QED BY <1>1, <1>2, <1>3, PTL DEF MCSpec
-----------------------------------------------------------------------------
(***************************************************************************)
(* The loops that make links: whatever they pair, links stay mutual.       *)
(***************************************************************************)

(* Induction over the natural numbers, for a set instead of a predicate.   *)
LEMMA SetInduction ==
  ASSUME NEW S, 0 \in S, \A i \in Nat : i \in S => i + 1 \in S
  PROVE  Nat \subseteq S
<1> DEFINE Missing == Nat \ S
<1> SUFFICES ASSUME Missing # {} PROVE FALSE
  OBVIOUS
<1>1. PICK m \in Missing : \A k \in Missing : ~ (<<k, m>> \in OpToRel(<, Nat))
  BY NatLessThanWellFounded, WFMin
<1>2. m # 0 /\ m - 1 \in Nat /\ m - 1 < m
  OBVIOUS
<1>3. m - 1 \notin Missing
  BY <1>1, <1>2 DEF OpToRel
<1>4. m - 1 + 1 \in S
  BY <1>2, <1>3
<1> QED BY <1>2, <1>4

Bodies(last, S) == [1 .. last -> [S -> S]]

(* A loop whose body stays in a set runs to its end, and stays in it.      *)
LEMMA LoopRuns ==
  ASSUME NEW S, NEW a \in S, NEW last \in Nat, NEW step \in Bodies(last, S)
  PROVE  \E f : f[0] = a /\ \A k \in 1 .. last : f[k] = step[k][f[k - 1]] /\ f[k - 1] \in S /\ f[k] \in S
<1> DEFINE Run(f, m) == f[0] = a /\ \A k \in 1 .. m : f[k] = step[k][f[k - 1]] /\ f[k - 1] \in S /\ f[k] \in S
           Lengths == {m \in Nat : m <= last => \E f : Run(f, m)}
<1>1. 0 \in Lengths
  <2> DEFINE f == [k \in 0 .. 0 |-> a]
  <2>1. Run(f, 0)
    OBVIOUS
  <2> QED BY <2>1
<1>2. ASSUME NEW m \in Nat, m \in Lengths PROVE m + 1 \in Lengths
  <2> SUFFICES ASSUME m + 1 <= last PROVE \E f : Run(f, m + 1)
    OBVIOUS
  <2>1. PICK f : Run(f, m)
    BY <1>2
  <2>2. f[m] \in S
    <3>1. CASE m = 0
      BY <2>1, <3>1
    <3>2. CASE m # 0
      <4>1. m \in 1 .. m
        BY <3>2
      <4> QED BY <2>1, <4>1
    <3> QED BY <3>1, <3>2
  <2> DEFINE g == [k \in 0 .. m + 1 |-> IF k <= m THEN f[k] ELSE step[k][f[m]]]
  <2>3. g[0] = a
    BY <2>1
  <2>4. ASSUME NEW k \in 1 .. m + 1
        PROVE g[k] = step[k][g[k - 1]] /\ g[k - 1] \in S /\ g[k] \in S
    <3>1. CASE k <= m
      BY <2>1, <3>1
    <3>2. CASE k = m + 1
      <4>1. k - 1 = m /\ g[k - 1] = f[m] /\ g[k] = step[k][f[m]] /\ k \in 1 .. last
        BY <3>2
      <4>2. step[k] \in [S -> S]
        BY <4>1 DEF Bodies
      <4> QED BY <2>2, <4>1, <4>2
    <3> QED BY <3>1, <3>2
  <2> HIDE DEF g
  <2>5. Run(g, m + 1)
    BY <2>3, <2>4
  <2> QED BY <2>5
<1>3. last \in Lengths
  <2> HIDE DEF Lengths
  <2> QED BY <1>1, <1>2, SetInduction
<1> QED BY <1>3

-----------------------------------------------------------------------------
Has(net, s, t, d) == \E i \in 1 .. Len(net[s]) : net[s][i] = [to |-> t, distance |-> d]

EdgeLists(V, D) == [V -> Seq([to : V, distance : D])]

(* The edges between vertices with distances of D, each with one back.     *)
MutualLinks(V, D) ==
  {net \in EdgeLists(V, D) :
     \A s, t \in V, d \in D : Has(net, s, t, d) => Has(net, t, s, d)}

Joined(net, s, t) == \E i \in 1 .. Len(net[s]) : net[s][i].to = t

LEMMA EdgeFacts ==
  ASSUME NEW V, NEW D, NEW net \in EdgeLists(V, D), NEW s \in V, NEW t
  PROVE  /\ Len(net[s]) \in Nat
         /\ \A i \in 1 .. Len(net[s]) : net[s][i] \in [to : V, distance : D]
         /\ Joined(net, s, t) <=> \E d \in D : Has(net, s, t, d)
<1>1. net[s] \in Seq([to : V, distance : D])
  BY DEF EdgeLists
<1>2. Len(net[s]) \in Nat /\ \A i \in 1 .. Len(net[s]) : net[s][i] \in [to : V, distance : D]
  BY <1>1, ElementOfSeq, LenProperties
<1>3. ASSUME Joined(net, s, t) PROVE \E d \in D : Has(net, s, t, d)
  <2>1. PICK i \in 1 .. Len(net[s]) : net[s][i].to = t
    BY <1>3 DEF Joined
  <2>2. net[s][i] = [to |-> t, distance |-> net[s][i].distance] /\ net[s][i].distance \in D
    BY <1>2, <2>1
  <2> QED BY <2>2 DEF Has
<1>4. ASSUME NEW d \in D, Has(net, s, t, d) PROVE Joined(net, s, t)
  BY <1>4 DEF Has, Joined
<1> QED BY <1>2, <1>3, <1>4

(* graph_add_edge either leaves the lists alone or puts one edge in front. *)
LEMMA WithEdgeFacts ==
  ASSUME NEW V, NEW D, NEW net \in EdgeLists(V, D), NEW s, NEW t, NEW d \in D
  PROVE  /\ s = 0 \/ t = 0 \/ s \notin V \/ t \notin V \/ Joined(net, s, t)
              => WithEdge(net, s, t, d) = net
         /\ ~ (s = 0 \/ t = 0 \/ s \notin V \/ t \notin V \/ Joined(net, s, t))
              => /\ WithEdge(net, s, t, d) \in EdgeLists(V, D)
                 /\ \A u, v \in V, e \in D :
                      Has(WithEdge(net, s, t, d), u, v, e) <=>
                        Has(net, u, v, e) \/ (u = s /\ v = t /\ e = d)
<1> DEFINE new == [to |-> t, distance |-> d]
           list == <<new>> \o net[s]
<1>1. CASE s = 0 \/ t = 0 \/ s \notin V \/ t \notin V \/ Joined(net, s, t)
  <2>1. DOMAIN net = V
    BY DEF EdgeLists
  <2>2. CASE s \in V /\ Joined(net, s, t)
    <3>1. DOMAIN net[s] = 1 .. Len(net[s])
      BY <2>2 DEF EdgeLists
    <3> QED BY <2>2, <3>1 DEF WithEdge, Joined
  <2>3. CASE s = 0 \/ t = 0 \/ s \notin V \/ t \notin V
    BY <2>1, <2>3 DEF WithEdge
  <2> QED BY <1>1, <2>2, <2>3
<1>2. CASE ~ (s = 0 \/ t = 0 \/ s \notin V \/ t \notin V \/ Joined(net, s, t))
  <2>1. WithEdge(net, s, t, d) = [net EXCEPT ![s] = list] /\ s \in V /\ t \in V
    BY <1>2 DEF WithEdge, Joined, EdgeLists
  <2>2. new \in [to : V, distance : D] /\ net[s] \in Seq([to : V, distance : D])
    BY <2>1 DEF EdgeLists
  <2>3. <<new>> \in Seq([to : V, distance : D]) /\ Len(<<new>>) = 1 /\ <<new>>[1] = new
    BY <2>2
  <2>4. /\ list \in Seq([to : V, distance : D]) /\ Len(list) = 1 + Len(net[s])
        /\ \A i \in 1 .. 1 + Len(net[s]) : list[i] = IF i <= 1 THEN <<new>>[i] ELSE net[s][i - 1]
    BY <2>2, <2>3, ConcatProperties
  <2>5. Len(net[s]) \in Nat
    BY <2>2, LenProperties
  <2>6. /\ list[1] = new /\ 1 \in 1 .. Len(list)
        /\ \A i \in 1 .. Len(net[s]) : i + 1 \in 1 .. Len(list) /\ list[i + 1] = net[s][i]
        /\ \A i \in 1 .. Len(list) : i = 1 \/ (i - 1 \in 1 .. Len(net[s]) /\ list[i] = net[s][i - 1])
    BY <2>3, <2>4, <2>5
  <2> HIDE DEF list
  <2> DEFINE after == WithEdge(net, s, t, d)
  <2>7. after \in EdgeLists(V, D) /\ after[s] = list /\ \A u \in V \ {s} : after[u] = net[u]
    BY <2>1, <2>4 DEF EdgeLists
  <2> HIDE DEF after
  <2>8. ASSUME NEW u \in V, NEW v \in V, NEW e \in D
        PROVE Has(after, u, v, e) <=> Has(net, u, v, e) \/ (u = s /\ v = t /\ e = d)
    <3>1. CASE u # s
      BY <2>7, <3>1 DEF Has
    <3>2. CASE u = s
      <4>1. ASSUME Has(after, u, v, e) PROVE Has(net, u, v, e) \/ (v = t /\ e = d)
        <5>1. PICK i \in 1 .. Len(list) : list[i] = [to |-> v, distance |-> e]
          BY <2>7, <3>2, <4>1 DEF Has
        <5>2. CASE i = 1
          BY <2>6, <5>1, <5>2
        <5>3. CASE i # 1
          BY <2>6, <3>2, <5>1, <5>3 DEF Has
        <5> QED BY <5>2, <5>3
      <4>2. ASSUME Has(net, u, v, e) PROVE Has(after, u, v, e)
        <5>1. PICK i \in 1 .. Len(net[s]) : net[s][i] = [to |-> v, distance |-> e]
          BY <3>2, <4>2 DEF Has
        <5> QED BY <2>6, <2>7, <3>2, <5>1 DEF Has
      <4>3. ASSUME v = t, e = d PROVE Has(after, u, v, e)
        BY <2>6, <2>7, <3>2, <4>3 DEF Has
      <4> QED BY <3>2, <4>1, <4>2, <4>3
    <3> QED BY <3>1, <3>2
  <2> QED BY <1>2, <2>7, <2>8 DEF after
<1> QED BY <1>1, <1>2

(* The body of the inner loop keeps the edges mutual: when there is no way *)
(* to make the first of the two edges, there is none to make the second.   *)
LEMMA PairMutual ==
  ASSUME NEW V, NEW D, NEW net \in MutualLinks(V, D), NEW p, NEW q, Distance(p.at, q.at) \in D
  PROVE  PairLinked(net, p, q) \in MutualLinks(V, D)
<1> DEFINE s == p.zerg_id
           t == q.zerg_id
           d == Distance(p.at, q.at)
           there == WithEdge(net, s, t, d)
           back == WithEdge(there, t, s, d)
           Lists == EdgeLists(V, D)
<1>a. ASSUME NEW a \in Lists, NEW u \in V, NEW v
      PROVE  Joined(a, u, v) <=> \E e \in D : Has(a, u, v, e)
  BY EdgeFacts
<1>b. ASSUME NEW a \in Lists, NEW u, NEW v, NEW e \in D,
             u = 0 \/ v = 0 \/ u \notin V \/ v \notin V \/ Joined(a, u, v)
      PROVE  WithEdge(a, u, v, e) = a
  BY <1>b, WithEdgeFacts
<1>c. ASSUME NEW a \in Lists, NEW u, NEW v, NEW e \in D,
             u # 0, v # 0, u \in V, v \in V, ~ Joined(a, u, v)
      PROVE  /\ WithEdge(a, u, v, e) \in Lists
             /\ \A x, y \in V, f \in D :
                  Has(WithEdge(a, u, v, e), x, y, f) <=> Has(a, x, y, f) \/ (x = u /\ y = v /\ f = e)
  BY <1>c, WithEdgeFacts
<1>1. net \in Lists /\ \A u, v \in V, e \in D : Has(net, u, v, e) => Has(net, v, u, e)
  BY DEF MutualLinks, Lists
<1>2. d \in D
  OBVIOUS
<1> HIDE DEF d, s, t, Lists
<1>3. CASE s = 0 \/ t = 0 \/ s \notin V \/ t \notin V
  <2>1. there = net
    BY <1>1, <1>2, <1>3, <1>b
  <2>2. back = net
    BY <1>1, <1>2, <1>3, <2>1, <1>b
  <2> QED BY <2>2 DEF PairLinked, s, t, d
<1>4. CASE s # 0 /\ t # 0 /\ s \in V /\ t \in V
  <2>1. Joined(net, s, t) <=> Joined(net, t, s)
    <3>1. Joined(net, s, t) <=> \E e \in D : Has(net, s, t, e)
      BY <1>1, <1>4, <1>a
    <3>2. Joined(net, t, s) <=> \E e \in D : Has(net, t, s, e)
      BY <1>1, <1>4, <1>a
    <3> QED BY <1>1, <1>4, <3>1, <3>2
  <2>2. CASE Joined(net, s, t)
    <3>1. there = net
      BY <1>1, <1>2, <2>2, <1>b
    <3>2. back = net
      BY <1>1, <1>2, <2>1, <2>2, <3>1, <1>b
    <3> QED BY <3>2 DEF PairLinked, s, t, d
  <2>3. CASE ~ Joined(net, s, t)
    <3>1. /\ there \in Lists
          /\ \A u, v \in V, e \in D :
               Has(there, u, v, e) <=> Has(net, u, v, e) \/ (u = s /\ v = t /\ e = d)
      BY <1>1, <1>2, <1>4, <2>3, <1>c
    <3> HIDE DEF there
    <3>2. CASE s = t
      <4>1. Joined(there, t, s)
        <5>1. Has(there, t, s, d)
          BY <1>2, <1>4, <3>1, <3>2
        <5> QED BY <1>2, <1>4, <3>1, <5>1, <1>a
      <4>2. back = there
        BY <1>2, <3>1, <4>1, <1>b
      <4>3. there \in MutualLinks(V, D)
        BY <1>1, <3>1, <3>2 DEF MutualLinks, Lists
      <4> QED BY <4>2, <4>3 DEF PairLinked, s, t, d, there
    <3>3. CASE s # t
      <4>1. ~ Joined(there, t, s)
        <5>1. Joined(there, t, s) <=> \E e \in D : Has(there, t, s, e)
          BY <1>4, <3>1, <1>a
        <5>2. Joined(net, t, s) <=> \E e \in D : Has(net, t, s, e)
          BY <1>1, <1>4, <1>a
        <5> QED BY <1>4, <2>1, <2>3, <3>1, <3>3, <5>1, <5>2
      <4>2. /\ back \in Lists
            /\ \A u, v \in V, e \in D :
                 Has(back, u, v, e) <=> Has(there, u, v, e) \/ (u = t /\ v = s /\ e = d)
        BY <1>2, <1>4, <3>1, <4>1, <1>c
      <4> HIDE DEF back
      <4>3. back \in MutualLinks(V, D)
        BY <1>1, <3>1, <4>2 DEF MutualLinks, Lists
      <4> QED BY <4>3 DEF PairLinked, s, t, d, there, back
    <3> QED BY <3>2, <3>3
  <2> QED BY <2>2, <2>3
<1> QED BY <1>3, <1>4

(* The inner loop: the edges stay mutual whichever points it pairs.        *)
LEMMA RowMutual ==
  ASSUME NEW V, NEW D, NEW P, \A p, q \in P : Distance(p.at, q.at) \in D,
         NEW net \in MutualLinks(V, D), NEW result \in Seq(P), NEW i \in 1 .. Len(result)
  PROVE  RowLinked(net, result, i) \in MutualLinks(V, D)
<1> DEFINE S == MutualLinks(V, D)
           last == Len(result) - i
           Turn(f, j) == IF j = i THEN net ELSE PairLinked(f[j - 1], result[i], result[j])
           step == [k \in 1 .. last |-> [x \in S |-> PairLinked(x, result[i], result[i + k])]]
<1>1. last \in Nat /\ Len(result) \in Nat /\ i \in Nat
  OBVIOUS
<1>2. ASSUME NEW x \in S, NEW j \in i .. Len(result) PROVE PairLinked(x, result[i], result[j]) \in S
  <2>1. result[i] \in P /\ result[j] \in P
    OBVIOUS
  <2> QED BY <2>1, PairMutual
<1>3. step \in Bodies(last, S)
  <2>1. \A k \in 1 .. last : i + k \in i .. Len(result)
    BY <1>1
  <2> HIDE DEF S, last
  <2> QED BY <1>2, <2>1 DEF Bodies
<1>4. \E f : f = [j \in i .. Len(result) |-> Turn(f, j)]
  <2>0. net \in S
    OBVIOUS
  <2> HIDE DEF step, S
  <2>1. PICK f : f[0] = net /\ \A k \in 1 .. last : f[k] = step[k][f[k - 1]] /\ f[k - 1] \in S /\ f[k] \in S
    <3>1. last \in Nat
      BY <1>1
    <3>2. \A b \in S : \A m \in Nat : \A body \in Bodies(m, S) :
            \E f : f[0] = b /\ \A k \in 1 .. m : f[k] = body[k][f[k - 1]] /\ f[k - 1] \in S /\ f[k] \in S
      BY LoopRuns
    <3> HIDE DEF last
    <3> QED BY <1>3, <2>0, <3>1, <3>2
  <2> DEFINE h == [j \in i .. Len(result) |-> f[j - i]]
  <2>2. ASSUME NEW j \in i .. Len(result) PROVE h[j] = Turn(h, j)
    <3>1. CASE j = i
      BY <1>1, <2>1, <3>1
    <3>2. CASE j # i
      <4>1. j - i \in 1 .. last /\ j - 1 \in i .. Len(result) /\ i + (j - i) = j /\ j - i - 1 = j - 1 - i
        BY <1>1, <3>2
      <4>2. h[j] = f[j - i] /\ h[j - 1] = f[j - i - 1]
        BY <4>1
      <4> HIDE DEF h, last
      <4>3. f[j - i] = step[j - i][f[j - i - 1]] /\ f[j - i - 1] \in S
        BY <2>1, <4>1
      <4>4. f[j - i] = PairLinked(f[j - i - 1], result[i], result[j])
        BY <4>1, <4>3 DEF step
      <4> QED BY <3>2, <4>2, <4>4
    <3> QED BY <3>1, <3>2
  <2>3. DOMAIN h = i .. Len(result) /\ h = [j \in DOMAIN h |-> h[j]]
    OBVIOUS
  <2> HIDE DEF h, Turn
  <2>4. h = [j \in i .. Len(result) |-> Turn(h, j)]
    BY <2>2, <2>3
  <2> QED BY <2>4
<1> DEFINE row == CHOOSE f : f = [j \in i .. Len(result) |-> Turn(f, j)]
<1>5. row = [j \in i .. Len(result) |-> Turn(row, j)]
  <2> HIDE DEF Turn
  <2> QED BY <1>4, Zenon
<1>6. RowLinked(net, result, i) = row[Len(result)]
  BY DEF RowLinked
<1> HIDE DEF row, step
<1>7. \A j \in i .. Len(result) : row[j] = Turn(row, j)
  <2> HIDE DEF Turn
  <2> QED BY <1>5
<1> DEFINE Good == {k \in Nat : k <= last => row[i + k] \in S}
<1>8. 0 \in Good
  <2>1. i \in i .. Len(result) /\ i + 0 = i
    BY <1>1
  <2>2. row[i] = net
    BY <1>7, <2>1
  <2> QED BY <2>1, <2>2
<1>9. ASSUME NEW k \in Nat, k \in Good PROVE k + 1 \in Good
  <2> SUFFICES ASSUME k + 1 <= last PROVE row[i + (k + 1)] \in S
    OBVIOUS
  <2>1. i + (k + 1) \in i .. Len(result) /\ i + (k + 1) # i /\ i + (k + 1) - 1 = i + k
    BY <1>1
  <2>2. row[i + (k + 1)] = PairLinked(row[i + k], result[i], result[i + (k + 1)])
    BY <1>7, <2>1
  <2>3. row[i + k] \in S
    BY <1>1, <1>9
  <2> HIDE DEF S
  <2> QED BY <1>2, <2>1, <2>2, <2>3
<1>10. last \in Good
  <2> HIDE DEF Good, last
  <2> QED BY <1>1, <1>8, <1>9, SetInduction
<1> QED BY <1>1, <1>6, <1>10

(* The outer loop on one search result.                                    *)
LEMMA ResultMutual ==
  ASSUME NEW V, NEW D, NEW P, \A p, q \in P : Distance(p.at, q.at) \in D,
         NEW net \in MutualLinks(V, D), NEW result \in Seq(P)
  PROVE  ResultLinked(net, result) \in MutualLinks(V, D)
<1> DEFINE S == MutualLinks(V, D)
           last == Len(result)
           Turn(f, k) == IF k = 0 THEN net ELSE RowLinked(f[k - 1], result, k)
           step == [k \in 1 .. last |-> [x \in S |-> RowLinked(x, result, k)]]
<1>1. last \in Nat /\ net \in S
  OBVIOUS
<1>2. ASSUME NEW x \in S, NEW k \in 1 .. last PROVE RowLinked(x, result, k) \in S
  BY RowMutual
<1>3. step \in Bodies(last, S)
  <2> HIDE DEF S, last
  <2> QED BY <1>2 DEF Bodies
<1>4. \E f : f = [k \in 0 .. last |-> Turn(f, k)]
  <2> HIDE DEF step, S, last
  <2>1. PICK f : f[0] = net /\ \A k \in 1 .. last : f[k] = step[k][f[k - 1]] /\ f[k - 1] \in S /\ f[k] \in S
    BY <1>1, <1>3, LoopRuns
  <2> DEFINE h == [k \in 0 .. last |-> f[k]]
  <2>2. ASSUME NEW k \in 0 .. last PROVE h[k] = Turn(h, k)
    <3>1. CASE k = 0
      BY <1>1, <2>1, <3>1
    <3>2. CASE k # 0
      <4>1. k \in 1 .. last /\ k - 1 \in 0 .. last
        BY <1>1, <3>2
      <4>2. h[k] = f[k] /\ h[k - 1] = f[k - 1]
        BY <4>1
      <4> HIDE DEF h
      <4>3. f[k] = step[k][f[k - 1]] /\ f[k - 1] \in S
        BY <2>1, <4>1
      <4> QED BY <3>2, <4>1, <4>2, <4>3 DEF step
    <3> QED BY <3>1, <3>2
  <2>3. DOMAIN h = 0 .. last /\ h = [k \in DOMAIN h |-> h[k]]
    OBVIOUS
  <2> HIDE DEF h, Turn
  <2>4. h = [k \in 0 .. last |-> Turn(h, k)]
    BY <2>2, <2>3
  <2> QED BY <2>4
<1> DEFINE run == CHOOSE f : f = [k \in 0 .. last |-> Turn(f, k)]
<1>5. run = [k \in 0 .. last |-> Turn(run, k)]
  <2> HIDE DEF Turn, last
  <2> QED BY <1>4, Zenon
<1>6. ResultLinked(net, result) = run[last]
  BY DEF ResultLinked
<1> HIDE DEF run, step
<1>7. \A k \in 0 .. last : run[k] = Turn(run, k)
  <2> HIDE DEF Turn, last
  <2> QED BY <1>5
<1> DEFINE Good == {k \in Nat : k <= last => run[k] \in S}
<1>8. 0 \in Good
  BY <1>1, <1>7
<1>9. ASSUME NEW k \in Nat, k \in Good PROVE k + 1 \in Good
  <2> SUFFICES ASSUME k + 1 <= last PROVE run[k + 1] \in S
    OBVIOUS
  <2> HIDE DEF S, last
  <2>1. k + 1 \in 0 .. last /\ k + 1 \in 1 .. last /\ k + 1 # 0 /\ k + 1 - 1 = k
    BY <1>1
  <2>2. run[k + 1] = RowLinked(run[k], result, k + 1)
    BY <1>7, <2>1
  <2>3. run[k] \in S
    BY <1>1, <1>9
  <2> QED BY <1>2, <2>1, <2>2, <2>3
<1>10. last \in Good
  <2> HIDE DEF Good, last
  <2> QED BY <1>1, <1>8, <1>9, SetInduction
<1> QED BY <1>1, <1>6, <1>10

(* A search result is a list of points of the list. *)
LEMMA WithinType ==
  ASSUME NEW P, NEW s \in Seq(P), NEW centre, NEW half
  PROVE  Within(s, centre, half) \in Seq(P)
<1> DEFINE S == Seq(P)
           last == Len(s)
           Taken(x, k) == IF InBox(centre, half, s[k]) THEN Append(x, s[k]) ELSE x
           Turn(f, k) == IF k = 0 THEN <<>> ELSE Taken(f[k - 1], k)
           step == [k \in 1 .. last |-> [x \in S |-> Taken(x, k)]]
<1>1. last \in Nat /\ <<>> \in S
  BY EmptySeq
<1>2. ASSUME NEW x \in S, NEW k \in 1 .. last PROVE Taken(x, k) \in S
  <2>1. s[k] \in P
    OBVIOUS
  <2> QED BY <2>1, AppendProperties
<1>3. step \in Bodies(last, S)
  <2> HIDE DEF S, last, Taken
  <2> QED BY <1>2 DEF Bodies
<1>4. \E f : f = [k \in 0 .. last |-> Turn(f, k)]
  <2> HIDE DEF step, S, last, Taken
  <2>1. PICK f : f[0] = <<>> /\ \A k \in 1 .. last : f[k] = step[k][f[k - 1]] /\ f[k - 1] \in S /\ f[k] \in S
    BY <1>1, <1>3, LoopRuns
  <2> DEFINE h == [k \in 0 .. last |-> f[k]]
  <2>2. ASSUME NEW k \in 0 .. last PROVE h[k] = Turn(h, k)
    <3>1. CASE k = 0
      BY <1>1, <2>1, <3>1
    <3>2. CASE k # 0
      <4>1. k \in 1 .. last /\ k - 1 \in 0 .. last
        BY <1>1, <3>2
      <4>2. h[k] = f[k] /\ h[k - 1] = f[k - 1]
        BY <4>1
      <4> HIDE DEF h
      <4>3. f[k] = step[k][f[k - 1]] /\ f[k - 1] \in S
        BY <2>1, <4>1
      <4> QED BY <3>2, <4>1, <4>2, <4>3 DEF step
    <3> QED BY <3>1, <3>2
  <2>3. DOMAIN h = 0 .. last /\ h = [k \in DOMAIN h |-> h[k]]
    OBVIOUS
  <2> HIDE DEF h, Turn
  <2>4. h = [k \in 0 .. last |-> Turn(h, k)]
    BY <2>2, <2>3
  <2> QED BY <2>4
<1> DEFINE run == CHOOSE f : f = [k \in 0 .. last |-> Turn(f, k)]
<1>5. run = [k \in 0 .. last |-> Turn(run, k)]
  <2> HIDE DEF Turn, last
  <2> QED BY <1>4, Zenon
<1>6. Within(s, centre, half) = run[last]
  BY DEF Within
<1> HIDE DEF run, step, Taken
<1>7. \A k \in 0 .. last : run[k] = Turn(run, k)
  <2> HIDE DEF Turn, last
  <2> QED BY <1>5
<1> DEFINE Good == {k \in Nat : k <= last => run[k] \in S}
<1>8. 0 \in Good
  <2> HIDE DEF S
  <2> QED BY <1>1, <1>7
<1>9. ASSUME NEW k \in Nat, k \in Good PROVE k + 1 \in Good
  <2> SUFFICES ASSUME k + 1 <= last PROVE run[k + 1] \in S
    OBVIOUS
  <2> HIDE DEF S, last, Taken
  <2>1. k + 1 \in 0 .. last /\ k + 1 \in 1 .. last /\ k + 1 # 0 /\ k + 1 - 1 = k
    BY <1>1
  <2>2. run[k + 1] = Taken(run[k], k + 1)
    BY <1>7, <2>1
  <2>3. run[k] \in S
    BY <1>1, <1>9
  <2> QED BY <1>2, <2>1, <2>2, <2>3
<1>10. last \in Good
  <2> HIDE DEF Good, last
  <2> QED BY <1>1, <1>8, <1>9, SetInduction
<1> QED BY <1>1, <1>6, <1>10

(* All searches: whatever order the points came in, links end up mutual.   *)
LEMMA AllMutual ==
  ASSUME NEW V, NEW D, NEW P, \A p, q \in P : Distance(p.at, q.at) \in D,
         NEW net \in MutualLinks(V, D), NEW list \in Seq(P)
  PROVE  AllLinked(net, list) \in MutualLinks(V, D)
<1> DEFINE S == MutualLinks(V, D)
           last == Len(list)
           Turn(f, k) == IF k = 0 THEN net ELSE ResultLinked(f[k - 1], Found(list, list[k].at))
           step == [k \in 1 .. last |-> [x \in S |-> ResultLinked(x, Found(list, list[k].at))]]
<1>1. last \in Nat /\ net \in S
  OBVIOUS
<1>2. ASSUME NEW x \in S, NEW k \in 1 .. last PROVE ResultLinked(x, Found(list, list[k].at)) \in S
  <2>1. Found(list, list[k].at) \in Seq(P)
    BY WithinType DEF Found
  <2> QED BY <2>1, ResultMutual
<1>3. step \in Bodies(last, S)
  <2> HIDE DEF S, last
  <2> QED BY <1>2 DEF Bodies
<1>4. \E f : f = [k \in 0 .. last |-> Turn(f, k)]
  <2> HIDE DEF step, S, last
  <2>1. PICK f : f[0] = net /\ \A k \in 1 .. last : f[k] = step[k][f[k - 1]] /\ f[k - 1] \in S /\ f[k] \in S
    BY <1>1, <1>3, LoopRuns
  <2> DEFINE h == [k \in 0 .. last |-> f[k]]
  <2>2. ASSUME NEW k \in 0 .. last PROVE h[k] = Turn(h, k)
    <3>1. CASE k = 0
      BY <1>1, <2>1, <3>1
    <3>2. CASE k # 0
      <4>1. k \in 1 .. last /\ k - 1 \in 0 .. last
        BY <1>1, <3>2
      <4>2. h[k] = f[k] /\ h[k - 1] = f[k - 1]
        BY <4>1
      <4> HIDE DEF h
      <4>3. f[k] = step[k][f[k - 1]] /\ f[k - 1] \in S
        BY <2>1, <4>1
      <4> QED BY <3>2, <4>1, <4>2, <4>3 DEF step
    <3> QED BY <3>1, <3>2
  <2>3. DOMAIN h = 0 .. last /\ h = [k \in DOMAIN h |-> h[k]]
    OBVIOUS
  <2> HIDE DEF h, Turn
  <2>4. h = [k \in 0 .. last |-> Turn(h, k)]
    BY <2>2, <2>3
  <2> QED BY <2>4
<1> DEFINE run == CHOOSE f : f = [k \in 0 .. last |-> Turn(f, k)]
<1>5. run = [k \in 0 .. last |-> Turn(run, k)]
  <2> HIDE DEF Turn, last
  <2> QED BY <1>4, Zenon
<1>6. AllLinked(net, list) = run[last]
  BY DEF AllLinked
<1> HIDE DEF run, step
<1>7. \A k \in 0 .. last : run[k] = Turn(run, k)
  <2> HIDE DEF Turn, last
  <2> QED BY <1>5
<1> DEFINE Good == {k \in Nat : k <= last => run[k] \in S}
<1>8. 0 \in Good
  BY <1>1, <1>7
<1>9. ASSUME NEW k \in Nat, k \in Good PROVE k + 1 \in Good
  <2> SUFFICES ASSUME k + 1 <= last PROVE run[k + 1] \in S
    OBVIOUS
  <2> HIDE DEF S, last
  <2>1. k + 1 \in 0 .. last /\ k + 1 \in 1 .. last /\ k + 1 # 0 /\ k + 1 - 1 = k
    BY <1>1
  <2>2. run[k + 1] = ResultLinked(run[k], Found(list, list[k + 1].at))
    BY <1>7, <2>1
  <2>3. run[k] \in S
    BY <1>1, <1>9
  <2> QED BY <1>2, <2>1, <2>2, <2>3
<1>10. last \in Good
  <2> HIDE DEF Good, last
  <2> QED BY <1>1, <1>8, <1>9, SetInduction
<1> QED BY <1>1, <1>6, <1>10
-----------------------------------------------------------------------------
(* The edges after the linking, when every point is of a zerg in the graph *)
(* or not: what graph_add_edge drops one way it drops the other way too.   *)
Distances == {Distance(p.at, q.at) : p, q \in Point}

LinkedMutually == pc = "linked" => adj \in MutualLinks(Ids, Distances)

LEMMA LinkMakesMutual == Inv /\ Link => LinkedMutually'
<1> SUFFICES ASSUME Inv, Link PROVE adj' \in MutualLinks(Ids', Distances)
  BY DEF LinkedMutually
<1>1. Ids' = Ids /\ points \in Seq(Point)
  BY DEF Link, Ids, Inv, TypeInv, TypeOK
<1> DEFINE none == [id \in Ids |-> <<>>]
<1>2. none \in MutualLinks(Ids, Distances)
  <2>1. <<>> \in Seq([to : Ids, distance : Distances]) /\ Len(<<>>) = 0
    BY EmptySeq
  <2>2. none \in EdgeLists(Ids, Distances)
    BY <2>1 DEF EdgeLists
  <2>3. \A s, t \in Ids, d \in Distances : ~ Has(none, s, t, d)
    BY <2>1 DEF Has
  <2> QED BY <2>2, <2>3 DEF MutualLinks, EdgeLists
<1>3. \A p, q \in Point : Distance(p.at, q.at) \in Distances
  BY DEF Distances
<1>4. adj' = AllLinked(none, points)
  BY DEF Link
<1> HIDE DEF none
<1> QED BY <1>1, <1>2, <1>3, <1>4, AllMutual

(* Links are mutual, with one distance both ways, whatever points there    *)
(* are and however often and in whatever order the searches pair them      *)
(* (quadTree.c:413-452; graph.c:349-392).                                  *)
THEOREM LinksAreMutual == Spec => []LinksMutual
<1>1. Init => LinkedMutually
  BY DEF Init, LinkedMutually
<1>2. Inv /\ LinkedMutually /\ [Next]_vars => LinkedMutually'
  <2> SUFFICES ASSUME Inv, LinkedMutually, [Next]_vars PROVE LinkedMutually'
    OBVIOUS
  <2>1. CASE Link
    BY <2>1, LinkMakesMutual
  <2>2. CASE Reading \/ ParseZerg \/ Payload
    <3>1. pc' # "linked"
      BY <2>2 DEF Reading, BadFile, OpenFile, NextPacket, EndOfFile, Cut, ParseEth, ParseVlan,
                  ParseIpv4, ParseIpv6, ParseUdp, Skip, Parse, kept, Refused, AfterFile, ParseZerg,
                  Payload, Message, OtherType, ShortPayload, Status, Gps, Conflict, PacketDone
    <3> QED BY <3>1 DEF LinkedMutually
  <2>3. CASE UNCHANGED vars
    BY <2>3 DEF vars, LinkedMutually, Ids
  <2> QED BY <2>1, <2>2, <2>3 DEF Next, Reading
<1>3. LinkedMutually => LinksMutual
  <2> SUFFICES ASSUME adj \in MutualLinks(Ids, Distances), NEW s \in Ids, NEW i \in 1 .. Len(adj[s])
               PROVE  \E j \in 1 .. Len(adj[adj[s][i].to]) :
                        adj[adj[s][i].to][j] = [to |-> s, distance |-> adj[s][i].distance]
    BY DEF LinkedMutually, LinksMutual
  <2> DEFINE t == adj[s][i].to
             d == adj[s][i].distance
  <2>1. adj \in EdgeLists(Ids, Distances)
    BY DEF MutualLinks, EdgeLists
  <2>2. adj[s][i] \in [to : Ids, distance : Distances]
    BY <2>1, EdgeFacts
  <2>3. t \in Ids /\ d \in Distances /\ adj[s][i] = [to |-> t, distance |-> d]
    BY <2>2
  <2>4. Has(adj, s, t, d)
    BY <2>3 DEF Has
  <2> HIDE DEF t, d
  <2>5. Has(adj, t, s, d)
    BY <2>3, <2>4 DEF MutualLinks
  <2> QED BY <2>5 DEF Has, t, d
<1> QED BY <1>1, <1>2, <1>3, InvAlways, PTL DEF Spec
-----------------------------------------------------------------------------
(***************************************************************************)
(* The whole run: what becomes of a zerg that never sent a position.       *)
(***************************************************************************)

(* A zerg taken off g->nodes leaves all others on it; id 0 stays itself.   *)
LEMMA OthersStay ==
  ASSUME left \in Seq(Id), NEW zerg
  PROVE  /\ R!ListWithout(zerg) \in Seq(Id)
         /\ \A id \in R!Survivors \ ({zerg} \ {0}) :
              \E k \in 1 .. Len(R!ListWithout(zerg)) : R!ListWithout(zerg)[k] = id
<1> DEFINE found == {i \in 1 .. Len(left) : left[i] = zerg}
           k == R!SelectInSeq(left, LAMBDA v : v = zerg)
           list == R!RemoveAt(left, k)
<1>0. Len(left) \in Nat
  OBVIOUS
<1>1. CASE zerg = 0 \/ found = {}
  <2>1. R!ListWithout(zerg) = left
    BY <1>1 DEF R!ListWithout, R!RemoveFirst
  <2> QED BY <2>1 DEF R!Survivors
<1>2. CASE zerg # 0 /\ found # {}
  <2>1. R!ListWithout(zerg) = list
    BY <1>2 DEF R!ListWithout, R!RemoveFirst
  <2>2. k \in found
    <3>1. k = R!Min(found)
      BY <1>2 DEF R!SelectInSeq
    <3>2. found # {} /\ found \subseteq Nat
      BY <1>2
    <3> HIDE DEF found
    <3>3. PICK j \in found : \A i \in found : ~ (<<i, j>> \in OpToRel(<, Nat))
      BY <3>2, NatLessThanWellFounded, WFMin
    <3>4. ASSUME NEW i \in found PROVE j <= i
      <4>1. i \in Nat /\ j \in Nat
        BY <3>2
      <4>2. ~ i < j
        BY <3>3, <4>1 DEF OpToRel
      <4> QED BY <4>1, <4>2
    <3> QED BY <3>1, <3>4 DEF R!Min
  <2>3. k \in 1 .. Len(left) /\ left[k] = zerg
    BY <2>2
  <2> HIDE DEF k
  <2> DEFINE a == SubSeq(left, 1, k - 1)
             b == SubSeq(left, k + 1, Len(left))
  <2>4. a \in Seq(Id) /\ Len(a) = k - 1 /\ \A i \in 1 .. k - 1 : a[i] = left[i]
    BY <2>3
  <2>5. b \in Seq(Id) /\ Len(b) = Len(left) - k /\ \A i \in 1 .. Len(left) - k : b[i] = left[k + i]
    BY <2>3
  <2>6. list = a \o b
    BY DEF R!RemoveAt
  <2> HIDE DEF a, b, list
  <2>7. /\ list \in Seq(Id) /\ Len(list) = Len(a) + Len(b)
        /\ \A i \in 1 .. Len(a) + Len(b) : list[i] = IF i <= Len(a) THEN a[i] ELSE b[i - Len(a)]
    BY <2>4, <2>5, <2>6, ConcatProperties
  <2>8. ASSUME NEW id \in R!Survivors \ ({zerg} \ {0}) PROVE \E i \in 1 .. Len(list) : list[i] = id
    <3>1. PICK j \in 1 .. Len(left) : left[j] = id
      BY DEF R!Survivors
    <3>2. j # k
      BY <1>2, <2>3, <3>1
    <3>3. CASE j < k
      <4>1. j \in 1 .. Len(a) + Len(b) /\ j <= Len(a) /\ j \in 1 .. k - 1
        BY <1>0, <2>3, <2>4, <2>5, <3>3
      <4> QED BY <2>4, <2>7, <3>1, <4>1
    <3>4. CASE ~ j < k
      <4>1. /\ j - 1 \in 1 .. Len(a) + Len(b) /\ ~ j - 1 <= Len(a)
            /\ j - k \in 1 .. Len(left) - k /\ j - 1 - Len(a) = j - k /\ k + (j - k) = j
        BY <1>0, <2>3, <2>4, <2>5, <3>2, <3>4
      <4> QED BY <2>5, <2>7, <3>1, <4>1
    <3> QED BY <3>3, <3>4
  <2> QED BY <2>1, <2>7, <2>8
<1> QED BY <1>1, <1>2

(* While zerg are counted and removed nothing more is heard, and a zerg    *)
(* that was heard is still on g->nodes or on the list of removals.         *)
KeptInv ==
  stage # "decode" =>
    /\ pc = "linked"
    /\ left \in Seq(Id)
    /\ Ids \subseteq R!Survivors \cup remove

(* The reports are made when the removal is over, of what it left.         *)
ReportInv ==
  /\ shown # {} => stage = "done"
  /\ "no gps" \in shown =>
       no_gps = {v.id : v \in {u \in InGraph : u.fix = NoFix}} \ {0}

RunInv == Inv /\ OwnInv /\ KeptInv /\ ReportInv

LEMMA InvUnchanged == ASSUME Inv, UNCHANGED <<heard, pc>> PROVE Inv'
BY DEF heard, Inv, TypeInv, TypeOK, InStep, HeadersFreed, PointsHaveNodes, GpsFreed, Ids

LEMMA DecodeStep == ASSUME RunInv, Decode PROVE RunInv'
<1>1. Inv' /\ OwnInv'
  BY InvStep, OwnInvStep, MCStepRefines DEF RunInv, Decode
<1>2. stage = "decode"
  BY DEF RunInv, KeptInv, Decode, MCNext, Gps, Status, BadFile, OpenFile, NextPacket, EndOfFile, Cut,
         ParseEth, ParseVlan, ParseIpv4, ParseIpv6, ParseUdp, Skip, Parse, ParseZerg, Message,
         OtherType, ShortPayload, Conflict, Link
<1>3. UNCHANGED <<stage, shown>>
  BY DEF Decode, removalvars, reportvars
<1> QED BY <1>1, <1>2, <1>3 DEF RunInv, KeptInv, ReportInv

LEMMA StartRemovalStep == ASSUME RunInv, StartRemoval PROVE RunInv'
<1>1. Inv' /\ OwnInv'
  BY InvUnchanged, OwnUnchanged DEF RunInv, StartRemoval, mcvars, vars, heard
<1>2. nodes \in Seq(Node) /\ nodes' = nodes /\ pc' = "linked" /\ shown' = shown /\ shown = {}
  BY DEF RunInv, Inv, TypeInv, TypeOK, ReportInv, StartRemoval, mcvars, vars, reportvars
<1> DEFINE list == [k \in 1 .. Len(nodes) |-> nodes[k].id]
<1>3. list \in Seq(Id) /\ Len(list) = Len(nodes)
  <2>1. \A k \in 1 .. Len(nodes) : nodes[k] \in Node
    BY <1>2
  <2>2. list \in [1 .. Len(nodes) -> Id]
    BY <2>1 DEF Node
  <2> QED BY <1>2, <2>2
<1>4. left' = list
  BY DEF StartRemoval
<1>5. Ids' \subseteq R!Survivors'
  BY <1>2, <1>3, <1>4 DEF Ids, R!Survivors
<1> HIDE DEF list
<1> QED BY <1>1, <1>2, <1>3, <1>4, <1>5 DEF RunInv, KeptInv, ReportInv

LEMMA RemovalRunStep == ASSUME RunInv, RemovalStep PROVE RunInv'
<1>1. Inv' /\ OwnInv'
  BY InvUnchanged, OwnUnchanged DEF RunInv, RemovalStep, heard
<1>2. stage \notin {"decode", "done"} /\ stage' # "decode"
  BY DEF RemovalStep, R!AskPair, R!EnqueueCount, R!FirstCountDone, R!TakeLeastLinked, R!RecountDone,
         R!Report, R!Counting
<1>3. nodes' = nodes /\ pc' = pc /\ shown' = shown
  BY DEF RemovalStep, heard, reportvars
<1>4. pc = "linked" /\ left \in Seq(Id) /\ Ids \subseteq R!Survivors \cup remove
  BY <1>2 DEF RunInv, KeptInv
<1>5. left' \in Seq(Id) /\ Ids \subseteq R!Survivors' \cup remove'
  <2>1. CASE UNCHANGED <<left, remove>>
    BY <1>4, <2>1 DEF R!Survivors
  <2>2. CASE R!TakeLeastLinked /\ ~ UNCHANGED <<left, remove>>
    <3>1. PICK zerg : remove' = remove \cup ({zerg} \ {0}) /\ left' = R!ListWithout(zerg)
      BY <2>2 DEF R!TakeLeastLinked
    <3>2. /\ left' \in Seq(Id)
          /\ \A id \in R!Survivors \ ({zerg} \ {0}) : \E k \in 1 .. Len(left') : left'[k] = id
      BY <1>4, <3>1, OthersStay
    <3>3. R!Survivors \ ({zerg} \ {0}) \subseteq R!Survivors'
      BY <3>2 DEF R!Survivors
    <3> QED BY <1>4, <3>1, <3>2, <3>3
  <2>3. CASE ~ R!TakeLeastLinked
    <3>1. UNCHANGED <<left, remove>>
      BY <2>3 DEF RemovalStep, R!AskPair, R!EnqueueCount, R!FirstCountDone, R!RecountDone, R!Report,
                  R!removing
    <3> QED BY <2>1, <3>1
  <2> QED BY <2>1, <2>2, <2>3
<1>6. Ids' = Ids
  BY <1>3 DEF Ids
<1>7. shown' = {}
  BY <1>2, <1>3 DEF RunInv, ReportInv
<1> QED BY <1>1, <1>3, <1>4, <1>5, <1>6, <1>7 DEF RunInv, KeptInv, ReportInv

LEMMA ShowStep == ASSUME RunInv, ShowLowHealth \/ ShowNoGps \/ UNCHANGED runvars PROVE RunInv'
<1>1. /\ UNCHANGED <<heard, pc, sent_fix, left, remove, stage>>
      /\ nodes' = nodes
  BY DEF ShowLowHealth, ShowNoGps, runvars, mcvars, vars, removalvars, heard
<1>2. Inv' /\ OwnInv'
  BY <1>1, InvUnchanged, OwnUnchanged DEF RunInv
<1>3. Ids' = Ids /\ R!Survivors' = R!Survivors /\ InGraph' = InGraph
  BY <1>1 DEF Ids, R!Survivors, InGraph
<1>4. KeptInv'
  BY <1>1, <1>3 DEF RunInv, KeptInv
<1>5. ReportInv'
  <2>1. CASE ShowLowHealth
    BY <1>1, <2>1 DEF ReportInv, ShowLowHealth
  <2>2. CASE ShowNoGps
    BY <1>1, <1>3, <2>2 DEF RunInv, ReportInv, ShowNoGps
  <2>3. CASE UNCHANGED runvars
    BY <1>1, <1>3, <2>3 DEF RunInv, ReportInv, runvars, reportvars
  <2> QED BY <2>1, <2>2, <2>3
<1> QED BY <1>2, <1>4, <1>5 DEF RunInv

(* Whatever files name them and whoever is removed, every zerg that never  *)
(* sent a position is on the list of removals or in the last report, and   *)
(* no zerg that sent one is in that report (graph.c:609-615, 658-681;      *)
(* zergmap-driver.c:125-138).                                              *)
THEOREM UnplacedAreReported == MapSpec => []UnplacedReported
<1>1. MapInit => RunInv
  <2> SUFFICES ASSUME MapInit PROVE RunInv
    OBVIOUS
  <2>1. Inv
    BY InvInit, MCRefines DEF MapInit
  <2>2. OwnInv
    BY DEF MapInit, MCInit, Init, OwnInv, FixIsOwn, SilentSentNone, Known
  <2> QED BY <2>1, <2>2 DEF MapInit, RunInv, KeptInv, ReportInv
<1>2. RunInv /\ [MapNext]_runvars => RunInv'
  BY DecodeStep, StartRemovalStep, RemovalRunStep, ShowStep DEF MapNext
<1>3. RunInv => UnplacedReported
  <2> SUFFICES ASSUME RunInv, "no gps" \in shown PROVE UnplacedReported
    BY DEF UnplacedReported
  <2> DEFINE unplaced == {id \in Ids \ {0} : sent_fix[id] = NoFix}
  <2>1. /\ stage # "decode" /\ Ids \subseteq R!Survivors \cup remove
        /\ no_gps = {v.id : v \in {u \in InGraph : u.fix = NoFix}} \ {0}
    BY DEF RunInv, ReportInv, KeptInv
  <2>2. \A k \in 1 .. Len(nodes) : nodes[k].fix = sent_fix[nodes[k].id]
    BY DEF RunInv, OwnInv, FixIsOwn
  <2>3. ASSUME NEW id \in no_gps PROVE id \in unplaced
    <3>1. PICK v \in InGraph : v.fix = NoFix /\ v.id = id
      BY <2>1
    <3>2. PICK k \in 1 .. Len(nodes) : nodes[k] = v
      BY DEF InGraph
    <3> QED BY <2>1, <2>2, <3>1, <3>2 DEF Ids
  <2>4. ASSUME NEW id \in unplaced, id \notin remove PROVE id \in no_gps
    <3>1. PICK k \in 1 .. Len(nodes) : nodes[k].id = id
      BY DEF Ids
    <3>2. id \in R!Survivors
      BY <2>1, <2>4
    <3>3. nodes[k] \in InGraph /\ nodes[k].fix = NoFix
      BY <2>2, <3>1, <3>2 DEF InGraph
    <3> QED BY <2>1, <3>1, <3>3
  <2> QED BY <2>3, <2>4 DEF UnplacedReported
<1> QED BY <1>1, <1>2, <1>3, PTL DEF MapSpec
=============================================================================
