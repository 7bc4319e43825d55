--------------------------- MODULE MCFlowDirection ---------------------------
EXTENDS FlowDirection

MCFamily == [a |-> 4, b |-> 4, c |-> 4, x |-> 6, y |-> 6]

Client1 == [addr |-> "a", port |-> 1]
Client2 == [addr |-> "a", port |-> 2]
Server == [addr |-> "b", port |-> 80]

\* The server's MAC address is its router's; one record below comes through another router.
Mac(end) == IF end = Server THEN "router" ELSE "client"

Record(src, dst, kind) == [src |-> src, dst |-> dst, kind |-> kind, tagged |-> FALSE, cut |-> FALSE,
                            from |-> Mac(src), to |-> Mac(dst)]
Both(end, kinds) == {Record(end, Server, k) : k \in kinds} \cup {Record(Server, end, k) : k \in kinds}

\* Both ends of a flow may say that they are its client.
MCRecords ==
  Both(Client1, {"syn", "response", "data"})
    \cup Both(Client2, {"data"})
    \cup {Record(Client1, Server, "request"), Record(Server, Client1, "synack"),
          [Record(Server, Client1, "data") EXCEPT !.from = "other"],
          [Record(Server, Client1, "data") EXCEPT !.tagged = TRUE],
          [Record(Client1, Server, "syn") EXCEPT !.cut = TRUE],
          Record(Client1, Server, "noip"), Record(Client2, Client2, "data")}

NoForce == [src |-> None, dst |-> None, sport |-> None, dport |-> None]
Plain == [client |-> None, server |-> None, oneArm |-> FALSE, buildFlow |-> FALSE,
          force |-> NoForce, lossy |-> FALSE]

MCConfigs ==
  {[Plain EXCEPT !.lossy = TRUE], [Plain EXCEPT !.oneArm = TRUE]}
    \cup {[Plain EXCEPT !.client = h[1], !.server = h[2]] : h \in {<<"b", "a">>, <<"a", "c">>}}
    \cup {[Plain EXCEPT !.force = f] : f \in {
            [NoForce EXCEPT !.src = "c", !.dport = 8080],
            [NoForce EXCEPT !.src = "x"],
            [NoForce EXCEPT !.src = "x", !.dst = "y"]}}
=============================================================================
