------------------------------ MODULE MCLadder ------------------------------
EXTENDS Ladder
AllOrSome == {Kinds, Kinds \ {"Direct", "Upnp"}, {"Relayed", "Pcp"}, {}}
FullAndPartial == {Handles, Handles \ {"gateway_v4"}, Handles \ {"relayed"},
                   Handles \ {"my_external_addr", "client_ip"}, {}}
=============================================================================
