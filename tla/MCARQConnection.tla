-------------------------- MODULE MCARQConnection --------------------------
EXTENDS ARQConnection

CONSTANTS a, b

MCProgram == {<<>>, <<a, b>>, <<b>>}
=============================================================================
