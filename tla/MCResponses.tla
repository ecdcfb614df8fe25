---------------------------- MODULE MCResponses ----------------------------
\* Small instances of Responses for TLC; the cfg files give the constants.
EXTENDS Responses
=============================================================================
