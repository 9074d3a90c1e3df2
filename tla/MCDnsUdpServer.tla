--------------------------- MODULE MCDnsUdpServer ---------------------------
EXTENDS DnsUdpServer
=============================================================================
