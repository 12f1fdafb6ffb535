---------------------------- MODULE MCProvisioning ---------------------------
EXTENDS Provisioning
=============================================================================
