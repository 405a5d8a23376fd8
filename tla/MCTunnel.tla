------------------------------ MODULE MCTunnel -------------------------------
EXTENDS Tunnel
=============================================================================
