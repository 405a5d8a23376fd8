------------------------------- MODULE MCOutbox ------------------------------
EXTENDS Outbox
=============================================================================
