-------------------------------- MODULE MCVfs --------------------------------
(* Instances of Vfs: a root directory with room for a few files. *)
EXTENDS Vfs

CONSTANTS src, bin, longname      \* longname is stored as src

MCNames == {src, bin, longname}
Abs(comps) == [abs |-> TRUE, comps |-> comps]
Rel(comps) == [abs |-> FALSE, comps |-> comps]
MCPaths == {Abs(<<src>>), Rel(<<bin>>), Abs(<<src, bin>>), Rel(<<"..">>), Abs(<<longname>>)}
MCCounts == {1}
MCOffsets == {-1, 1}
=============================================================================
