-------------------------- MODULE MCAppController --------------------------
EXTENDS AppController
=============================================================================
