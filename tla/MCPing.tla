------------------------------- MODULE MCPing -------------------------------
\* Instances of Ping: two addresses behind one name.
EXTENDS Ping

CONSTANTS one, two, name

TwoAddresses == {one, two}
AllKinds == {"icmp", "tcp", "http", "https"}
=============================================================================
