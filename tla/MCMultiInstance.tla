--------------------------- MODULE MCMultiInstance ---------------------------
(***************************************************************************)
(* A plan for TLC: a group of a host and an address that are contained in  *)
(* a site, what is contained in the host, and a server of the site that    *)
(* all of that connects to one instance of.                                *)
(***************************************************************************)
EXTENDS MultiInstance

CONSTANTS site, host, ip, db, web, group

MCContainedIn ==
    (site :> Nothing) @@ (host :> site) @@ (ip :> site) @@ (db :> host)
    @@ (web :> site)
MCMembers == (group :> {host, ip})
MCAllToAll == {<<host, ip>>, <<web, ip>>}
MCAllToOne == {<<db, web>>}
MCTogether == {{db, web}}
\* One with something of everything, and one that is mostly empty.
MCDefaults == {[e \in Elements |-> IF e \in {group, web} THEN 2 ELSE 1],
               [e \in Elements |-> IF e = group THEN 2
                                  ELSE IF e \in {ip, db} THEN 0 ELSE 1]}
=============================================================================
