-------------------------- MODULE MCBodyScheduler --------------------------
EXTENDS BodyScheduler
=============================================================================
