---------------------------- MODULE MCAccessControl ----------------------------
EXTENDS AccessControl
=============================================================================
