------------------------- MODULE MCBuiltinWorkflows -------------------------
\* An application on a database, and on another one that a scaling adds.
EXTENDS BuiltinWorkflows

CONSTANTS app, db, new

MCTargets == (app :> <<db, new>>) @@ (db :> <<>>) @@ (new :> <<>>)
MCReal == (app :> {"create", "configure", "start"})
          @@ (db :> {"create", "start"}) @@ (new :> {"create"})
MCSubgraphs == {{db}}
MCScaled == {{new}}
=============================================================================
