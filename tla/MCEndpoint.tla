------------------------------ MODULE MCEndpoint ------------------------------
(* Endpoint on two small instances: MCConfigs varies both halves of the      *)
(* configuration and the dial, MCUdpConfigs the UDP half alone, but all of   *)
(* it.  Port 7 is a fixed port, 8 and 9 are ephemeral; 8 is also configured, *)
(* as it is after applyEndpoint has written the port it got for port 0 into  *)
(* the PODs.                                                                 *)
EXTENDS Endpoint

MCPorts == {7, 8, 9}
MCEphemeral == {8, 9}
MCAddrs == {"", "0.0.0.0", "host"}
MCGroups == {"g"}
MCPeers == {"p", "q"}
MCFramings == {"size", "slip"}
MCDefault == [listen |-> TRUE, port |-> 7, addr |-> "0.0.0.0", group |-> "",
              ttl |-> 1, tcp |-> FALSE, tcpPort |-> 0, dial |-> "", framing |-> "size"]

MCUdpConfigs ==
    [listen : BOOLEAN, port : {0, 7, 8}, addr : {"", "host"}, group : {"", "g"},
     ttl : {1}, tcp : {FALSE}, tcpPort : {0}, dial : {""}, framing : {"size"}]
MCConfigs ==
    [listen : {TRUE}, port : {0, 7}, addr : {"host"}, group : {""}, ttl : {1},
     tcp : {TRUE}, tcpPort : {0, 9}, dial : {""}, framing : {"size"}]
    \cup
    [listen : BOOLEAN, port : {7}, addr : {"host"}, group : {""}, ttl : {1},
     tcp : BOOLEAN, tcpPort : {0}, dial : {"", "p", "q"}, framing : {"size"}]
    \cup
    [listen : {TRUE}, port : {7}, addr : {"host"}, group : {"g"}, ttl : {1, 2},
     tcp : {TRUE}, tcpPort : {0}, dial : {""}, framing : {"slip"}]
    \cup
    [listen : {TRUE}, port : {8}, addr : {""}, group : {"g"}, ttl : {1},
     tcp : {FALSE}, tcpPort : {0}, dial : {""}, framing : {"size"}]
===============================================================================
