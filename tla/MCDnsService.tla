---------------------------- MODULE MCDnsService ----------------------------
EXTENDS DnsService
=============================================================================
