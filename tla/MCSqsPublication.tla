-------------------------- MODULE MCSqsPublication --------------------------
(* An instance of SqsPublication for TLC: ADMIN and the publish command, one *)
(* capability, and three revisions.                                          *)
EXTENDS SqsPublication

CONSTANTS console, command, grammar

TwoPublishers == {console, command}
OneCapability == {grammar}
============================================================================
