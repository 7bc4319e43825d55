---------------------------- MODULE FlowDirection ----------------------------
(***************************************************************************)
(* Who is the client?  Two parts of the server answer that for the flows   *)
(* of a pcap file, each reading the file once, record by record:           *)
(*   replayer.py   sends every packet by the uplink or the downlink        *)
(*                 interface (datatype 0), deciding the way of a packet    *)
(*                 when its direction of the flow is first seen;           *)
(*   pcap_flow.py  lists every flow with its client first (datatype 200),  *)
(*                 correcting its first guess at most once.                *)
(* They share no state, so reading the files in step loses no behaviour.   *)
(* A record is what the parsers make of it: its end points, the MAC        *)
(* addresses it comes from and goes to, what its TCP flags or its payload  *)
(* tell, whether it carries a VLAN tag, and whether the end of the file    *)
(* cuts it short.                                                          *)
(***************************************************************************)
EXTENDS Integers, Sequences, FiniteSets

CONSTANTS
  Family,       \* the IP version of every address
  Records,      \* the records a file may hold
  Configs,      \* the parameters a replay may be given
  MaxRecords,   \* bound: records over all the files of a request
  MaxFiles,     \* bound: files of a request
  None          \* a parameter that was not given

Telling == {"syn", "synack", "request", "response"}
Kinds == Telling \cup {"data", "noip"}

ASSUME BoundsAssumption == MaxRecords \in Nat /\ MaxFiles \in Nat \ {0}
ASSUME RecordsAssumption == \A p \in Records : p.kind \in Kinds

VARIABLES
  config,     \* the constructor's parameters, and whether its sockets may refuse a packet
  read,       \* the records read so far, of all files
  begins,     \* how many had been read when each file was opened
  status,     \* the request: "running", "answered" or "failed"
  table,      \* the replayer's flow_table: the way of every direction seen
  flowCount, packetsCount, totalPackets, uplinkPackets, downlinkPackets,
  wire,       \* what was sent: the record, what left, and by which way
  flows,      \* the extractor's flows of this file
  results     \* the extractor's results, file by file

replayVars == <<table, flowCount, packetsCount, uplinkPackets, downlinkPackets, wire>>
vars == <<config, read, begins, status, replayVars, totalPackets, flows, results>>

Init ==
  /\ config \in Configs
  /\ read = << >> /\ begins = <<0>>
  /\ status = "running"
  /\ table = << >> /\ flows = << >>
  /\ flowCount = 0 /\ packetsCount = 0 /\ totalPackets = 0
  /\ uplinkPackets = 0 /\ downlinkPackets = 0
  /\ wire = << >> /\ results = << >>

-----------------------------------------------------------------------------
(* The way of a packet: get_direction *)

Key(p) == [src |-> p.src, dst |-> p.dst, from |-> p.from, to |-> p.to]
Reversed(k) == [src |-> k.dst, dst |-> k.src, from |-> k.to, to |-> k.from]
Opposite(way) == IF way = "uplink" THEN "downlink" ELSE "uplink"

Hinted == config.client # None /\ config.server # None
HintSaysDown(k) == k.src.addr = config.server /\ k.dst.addr = config.client
HintSaysUp(k) == k.src.addr = config.client /\ k.dst.addr = config.server

\* bugs: the other direction's way copied; the default turned round
NewWayCopied(p) == IF Reversed(Key(p)) \in DOMAIN table THEN table[Reversed(Key(p))] ELSE "uplink"
NewWayDown(p) == IF Reversed(Key(p)) \in DOMAIN table
                 THEN Opposite(table[Reversed(Key(p))]) ELSE "downlink"

(* With hints no other rule is tried, matching or not; a SYN makes its     *)
(* sender the client whatever is known of the other direction.             *)
NewWay(p) ==
  LET k == Key(p) IN
    IF Hinted THEN IF HintSaysDown(k) /\ ~HintSaysUp(k) THEN "downlink" ELSE "uplink"
    ELSE IF p.kind # "syn" /\ Reversed(k) \in DOMAIN table
         THEN Opposite(table[Reversed(k)]) ELSE "uplink"

Way(p) == IF Key(p) \in DOMAIN table THEN table[Key(p)] ELSE NewWay(p)

\* bug: each direction counted as a flow
RememberEach(p) ==
  IF Key(p) \in DOMAIN table
  THEN UNCHANGED <<table, flowCount>>
  ELSE /\ table' = [k \in DOMAIN table \cup {Key(p)} |-> IF k = Key(p) THEN NewWay(p) ELSE table[k]]
       /\ flowCount' = flowCount + 1

RememberWay(p) ==
  IF Key(p) \in DOMAIN table
  THEN UNCHANGED <<table, flowCount>>
  ELSE /\ table' = [k \in DOMAIN table \cup {Key(p)} |-> IF k = Key(p) THEN NewWay(p) ELSE table[k]]
       /\ flowCount' = flowCount + (IF Reversed(Key(p)) \in DOMAIN table THEN 0 ELSE 1)

-----------------------------------------------------------------------------
(* The packet that leaves: modify_packet and build_modified_packet *)

Override(end, addr, port) ==
  [addr |-> IF addr = None THEN end.addr ELSE addr,
   port |-> IF port = None THEN end.port ELSE port]

\* bug: the forced fields put in the same place whatever the way
ForcedUnswapped(p, way) ==
  [src |-> Override(p.src, config.force.src, config.force.sport),
   dst |-> Override(p.dst, config.force.dst, config.force.dport)]

(* The forced source is the client's: it replaces the source of an uplink  *)
(* packet and the destination of a downlink one.                           *)
Forced(p, way) ==
  LET Client(end) == Override(end, config.force.src, config.force.sport)
      Server(end) == Override(end, config.force.dst, config.force.dport)
  IN IF way = "uplink" THEN [src |-> Client(p.src), dst |-> Server(p.dst)]
                       ELSE [src |-> Server(p.src), dst |-> Client(p.dst)]

(* A tagged frame leaves as it came, its tag being read as the IP header   *)
(* (and taken for neither version, unless its priority bits are 2 or 3);   *)
(* so does one whose two new addresses are of different IP versions, which *)
(* the address conversion refuses.                                         *)
Rewritten(p, way) ==
  LET new == Forced(p, way) IN
    IF p.tagged \/ Family[new.src.addr] # Family[new.dst.addr]
    THEN [src |-> p.src, dst |-> p.dst]
    ELSE new

NoFlows ==
  config.oneArm /\ ~config.buildFlow /\ \A f \in DOMAIN config.force : config.force[f] = None

-----------------------------------------------------------------------------
(* One record read by replay_file *)

(* send_packet: an error of the socket is logged, and the caller counts    *)
(* the packet all the same.                                                *)
Send(p, way, out) ==
  /\ packetsCount' = packetsCount + 1
  /\ \/ /\ wire' = Append(wire, [in |-> p, out |-> out, way |-> way])
        /\ uplinkPackets' = uplinkPackets + (IF way = "uplink" THEN 1 ELSE 0)
        /\ downlinkPackets' = downlinkPackets + (IF way = "uplink" THEN 0 ELSE 1)
     \/ config.lossy /\ UNCHANGED <<wire, uplinkPackets, downlinkPackets>>

Replay(p) ==
  \/ p.kind = "noip" /\ UNCHANGED replayVars
  \/ /\ p.kind # "noip" /\ NoFlows
     /\ Send(p, "uplink", [src |-> p.src, dst |-> p.dst])
     /\ UNCHANGED <<table, flowCount>>
  \/ /\ p.kind # "noip" /\ ~NoFlows
     /\ RememberWay(p)
     /\ Send(p, Way(p), Rewritten(p, Way(p)))

-----------------------------------------------------------------------------
(* One record read by extract_pcap_flow_five_tuples *)

Flow(p) == {p.src, p.dst}

Signalled(p) == IF p.kind \in {"syn", "request"} THEN p.src ELSE p.dst

Known(p) ==
  IF Flow(p) \in DOMAIN flows THEN flows[Flow(p)]
  ELSE [src |-> p.src, dst |-> p.dst, client |-> p.src, finalized |-> FALSE]

\* bug: every signal moves the client
CorrectedAgain(p) ==
  IF p.kind \notin Telling THEN Known(p) ELSE [Known(p) EXCEPT !.client = Signalled(p)]

Corrected(p) ==
  IF Known(p).finalized \/ p.kind \notin Telling THEN Known(p)
  ELSE [src |-> Known(p).src, dst |-> Known(p).dst, client |-> Signalled(p), finalized |-> TRUE]

(* A record whose payload the end of the file cuts short ends the          *)
(* extractor's loop; the replayer sends what is left of it.                *)
Extract(p) ==
  IF p.kind = "noip" \/ p.cut THEN UNCHANGED flows
  ELSE flows' = [f \in DOMAIN flows \cup {Flow(p)} |->
                   IF f = Flow(p) THEN Corrected(p) ELSE flows[f]]

ReportFlows ==
  {IF flows[f].client = flows[f].src THEN <<flows[f].src, flows[f].dst>>
                                     ELSE <<flows[f].dst, flows[f].src>> : f \in DOMAIN flows}

-----------------------------------------------------------------------------
(* The files of a request *)

Opened == begins[Len(begins)]
CutShort == Len(read) > Opened /\ read[Len(read)].cut

ReadRecord(p) ==
  /\ status = "running" /\ ~CutShort
  /\ Len(read) < MaxRecords
  /\ read' = Append(read, p)
  /\ Replay(p)
  /\ Extract(p)
  /\ UNCHANGED <<config, begins, status, totalPackets, results>>

EndFile ==
  /\ status = "running"
  /\ totalPackets' = totalPackets + packetsCount
  /\ packetsCount' = 0
  /\ results' = Append(results, ReportFlows)
  /\ flows' = << >>
  /\ \/ /\ Len(begins) < MaxFiles
        /\ begins' = Append(begins, Len(read))
        /\ UNCHANGED status
     \/ status' = "answered" /\ UNCHANGED begins
  /\ UNCHANGED <<config, read, table, flowCount, uplinkPackets, downlinkPackets, wire>>

(* A file that ends inside a record's header: the replay raises, while the *)
(* extractor leaves its loop and reports what it has.                      *)
EndInHeader ==
  /\ status = "running" /\ ~CutShort
  /\ status' = "failed"
  /\ results' = Append(results, ReportFlows)
  /\ flows' = << >>
  /\ UNCHANGED <<config, read, begins, totalPackets, replayVars>>

Next == (\E p \in Records : ReadRecord(p)) \/ EndFile \/ EndInHeader

Spec == Init /\ [][Next]_vars
-----------------------------------------------------------------------------
(* Properties *)

Ways == {"uplink", "downlink"}
Packets == {i \in DOMAIN read : read[i].kind # "noip"}
First(S) == CHOOSE i \in S : \A j \in S : i <= j

(* Every variable has its type: the way of a packet is one of the two ways *)
(* get_direction returns, the counters are never negative.                 *)
TypeOK ==
  /\ config \in Configs
  /\ read \in Seq(Records) /\ Len(read) <= MaxRecords
  /\ begins \in Seq(Nat) /\ Len(begins) \in 1..MaxFiles
  /\ status \in {"running", "answered", "failed"}
  /\ \A k \in DOMAIN table : table[k] \in Ways
  /\ \A n \in {flowCount, packetsCount, totalPackets, uplinkPackets, downlinkPackets} :
       n \in 0..MaxRecords
  /\ \A i \in DOMAIN wire : wire[i].in \in Records /\ wire[i].way \in Ways
  /\ \A f \in DOMAIN flows : flows[f].client \in f /\ f = {flows[f].src, flows[f].dst}
  /\ Len(results) \in {Len(begins) - 1, Len(begins)}

FirstOf(k) == First({i \in Packets : Key(read[i]) = k})

(* A direction that begins with a SYN after the other was seen: packets    *)
(* out of order, or a simultaneous open.                                   *)
LateSyn(k) ==
  read[FirstOf(k)].kind = "syn" /\ FirstOf(Reversed(k)) < FirstOf(k)

(* The two directions of a flow leave by different interfaces, unless the  *)
(* hints name other hosts, or one host as client and server, or one        *)
(* direction begins with a late SYN: what get_direction infers from the    *)
(* reverse entry of flow_table.                                            *)
OppositeWays ==
  \A k \in DOMAIN table : Reversed(k) \in DOMAIN table /\ Reversed(k) # k =>
    \/ table[Reversed(k)] = Opposite(table[k])
    \/ Hinted /\ (HintSaysUp(k) <=> HintSaysDown(k))
    \/ ~Hinted /\ (LateSyn(k) \/ LateSyn(Reversed(k)))

(* A rewritten flow is still one flow: packets of one direction keep equal *)
(* end points and packets of opposite ways mirror each other, whatever the *)
(* forced fields ("symmetric swap" of modify_packet), except that tagged   *)
(* frames are not rewritten at all.                                        *)
Mirrored ==
  \A i, j \in DOMAIN wire : ~wire[i].in.tagged /\ ~wire[j].in.tagged =>
    /\ Key(wire[i].in) = Key(wire[j].in) => wire[i].out = wire[j].out
    /\ wire[i].in.src = wire[j].in.dst /\ wire[i].in.dst = wire[j].in.src
         /\ wire[i].way # wire[j].way
       => wire[i].out.src = wire[j].out.dst /\ wire[i].out.dst = wire[j].out.src

InFile(n) == {i \in DOMAIN read : begins[n] < i /\ (n < Len(begins) => i <= begins[n + 1])}
Seen(n) == {i \in InFile(n) : read[i].kind # "noip" /\ ~read[i].cut}
FlowIn(f, n) == {i \in Seen(n) : Flow(read[i]) = f}

(* What a flow's packets say of its client, read as a whole: the end the   *)
(* first telling packet names, and the first sender if none tells.         *)
Tells(S) == {i \in S : read[i].kind \in Telling}
ClientOf(S) ==
  IF Tells(S) # {} THEN Signalled(read[First(Tells(S))]) ELSE read[First(S)].src
Across(f, e) == IF f = {e} THEN e ELSE CHOOSE d \in f : d # e

FlowsOf(n) ==
  {<<ClientOf(FlowIn(f, n)), Across(f, ClientOf(FlowIn(f, n)))>> :
     f \in {Flow(read[i]) : i \in Seen(n)}}

(* Every file's result lists each of its flows once, its client first: the *)
(* first packet that tells wins and later ones change nothing (the         *)
(* docstring of extract_pcap_flow_five_tuples), whatever ends the file.    *)
FirstSignalWins ==
  \A n \in DOMAIN results : results[n] = FlowsOf(n)

Met(f) == {i \in Packets : Flow(read[i]) = f}
OpensWithSyn(f) == read[First(Met(f))].kind = "syn"
OneRoute(f) ==
  \A i, j \in Met(f) : Key(read[j]) \in {Key(read[i]), Reversed(Key(read[i]))}
MetBefore(f, n) == \E i \in Met(f) : i <= begins[n]

(* The two parts agree: where a flow opens with a SYN, no hint was given   *)
(* and it was not met in an earlier file, the client the extractor lists   *)
(* is the end whose packets the replayer sends by the uplink, and the      *)
(* other end's packets go by the downlink.                                 *)
AgreeOnClient ==
  ~Hinted /\ ~NoFlows =>
    \A n \in DOMAIN results : \A r \in results[n] :
      LET f == {r[1], r[2]} IN
        r[1] # r[2] /\ OpensWithSyn(f) /\ OneRoute(f) /\ ~MetBefore(f, n) =>
          \A k \in DOMAIN table : k.src = r[1] /\ k.dst = r[2] =>
            /\ table[k] = "uplink"
            /\ Reversed(k) \in DOMAIN table /\ ~LateSyn(Reversed(k))
                 => table[Reversed(k)] = "downlink"

(* flow_count counts a flow once, however its directions alternate and     *)
(* over however many files it stretches; a flow whose two directions take  *)
(* different routers counts twice, its keys holding the MAC addresses.     *)
(* packetsCount counts every IP packet, sent or not.                       *)
CountsFlows ==
  /\ flowCount = IF NoFlows THEN 0
                 ELSE Cardinality({{Key(read[i]), Reversed(Key(read[i]))} : i \in Packets})
  /\ totalPackets + packetsCount = Cardinality(Packets)
  /\ uplinkPackets + downlinkPackets = Len(wire)
=============================================================================
