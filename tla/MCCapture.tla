------------------------------ MODULE MCCapture ------------------------------
(***************************************************************************)
(* Capture with a record of what each zerg itself has sent.                *)
(***************************************************************************)
EXTENDS Capture, TLC

VARIABLES sent_fix,   \* the last position of each id that was not refused
          sent_low    \* the ids whose own status was below the threshold

Here    == [lat |-> 10, lon |-> 10, spot |-> 0, alt |-> 0]
Beside  == [lat |-> 10, lon |-> 10, spot |-> 12, alt |-> 20]
South   == [lat |-> -10, lon |-> 10, spot |-> 0, alt |-> 10]
Origin  == [lat |-> 0, lon |-> 0, spot |-> 5, alt |-> 0]
North   == [lat |-> 60, lon |-> 10, spot |-> 0, alt |-> 0]
North10 == [lat |-> 60, lon |-> 10, spot |-> 10, alt |-> 0]

Beyond  == [lat |-> 10, lon |-> 10, spot |-> 24, alt |-> 0]

Around == {Here, Beside, South, Origin}
InLine == {Here, Beside, Beyond}
Remote == {North, North10}

(* Ids are only compared, so zerg are interchangeable. *)
ZergSymmetry == Permutations(Id)

mcvars == <<vars, sent_fix, sent_low>>

MCInit == Init /\ sent_fix = [id \in Id |-> NoFix] /\ sent_low = {}

MCNext ==
  \/ \E fix \in Fix :
       /\ Gps(fix)
       /\ sent_fix' = [sent_fix EXCEPT ![zhdr.srcid] = fix]
       /\ UNCHANGED sent_low
  \/ \E percent \in Percent :
       /\ Status(percent)
       /\ sent_low' = IF Low(percent) THEN sent_low \cup {zhdr.srcid} ELSE sent_low
       /\ UNCHANGED sent_fix
  \/ /\ BadFile \/ OpenFile \/ NextPacket \/ EndOfFile \/ Cut
        \/ ParseEth \/ ParseVlan \/ ParseIpv4 \/ ParseIpv6 \/ ParseUdp \/ Skip \/ ParseZerg
        \/ Message \/ OtherType \/ ShortPayload \/ (\E fix \in Fix : Conflict(fix)) \/ Link
     /\ UNCHANGED <<sent_fix, sent_low>>

MCSpec == MCInit /\ [][MCNext]_mcvars

(* A vertex bears the position its own zerg last sent, and none if it sent *)
(* none, although all packets share one header (zergmap.c:569-570, 621,    *)
(* 666-688; graph.c:110-117): show_no_gps lists the right zerg.            *)
FixIsOwn == \A k \in 1 .. Len(nodes) : nodes[k].fix = sent_fix[nodes[k].id]

(* "Prints out any zergIDs that are below var % health"                    *)
(* (doc/zergmap_man_page.1:12): a vertex is marked only if a status of its *)
(* own zerg was.                                                           *)
LowHealthIsOwn == \A k \in 1 .. Len(nodes) : nodes[k].health => nodes[k].id \in sent_low
=============================================================================
