----------------------------- MODULE MCReceiver -----------------------------
EXTENDS Receiver
=============================================================================
