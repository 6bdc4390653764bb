-------------------------- MODULE MCSimConnection --------------------------
EXTENDS SimConnection

CONSTANTS a, b

MCProgram == {<<>>, <<a, b>>}
=============================================================================
