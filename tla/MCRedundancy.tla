---------------------------- MODULE MCRedundancy ----------------------------
(* Three slaves; every ring with at most two broken links, one more change *)
(* or two lost frames meanwhile; each kind of request.                     *)
EXTENDS MuxDrv

MCRings == {b \in SUBSET Links : Cardinality(b) <= 2}
MCRequests == {Broadcast, Clock(2), Logical({1, 3})}
              \cup {Positioned(s) : s \in Slaves} \cup {Configured(s) : s \in Slaves}
=============================================================================
