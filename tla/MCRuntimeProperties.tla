------------------------ MODULE MCRuntimeProperties ------------------------
\* Two instances; an operation of the first, and one of the relationship from
\* the first to the second, each writing values of its own, the latter an
\* intrinsic function.
EXTENDS RuntimeProperties, TLC

CONSTANTS i1, i2, node, relationship, a, b, x, y, f

MCContexts == (node :> <<i1>>) @@ (relationship :> <<i1, i2>>)
MCWrites == (node :> {<<a, x>>, <<b, Absent>>}) @@ (relationship :> {<<b, f>>})
=============================================================================
