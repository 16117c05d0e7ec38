------------------------------ MODULE MCKernels ------------------------------
(***************************************************************************)
(* The kernels that share local memory, and the host passes of ordfilt,    *)
(* for TLC.  A behaviour is one work-group of `bitonic_ordfilt'            *)
(* (BitonicSort), one work-group of `likelihood' (LikelihoodTile), or the  *)
(* passes of ordfilt's host over the rows of an image (OrdfiltChunks),     *)
(* which take for granted that a row comes out sorted.  The other two stay *)
(* in an initial state.                                                    *)
(***************************************************************************)
EXTENDS LikelihoodTile, OrdfiltChunks, BitonicSort

VARIABLE unit    \* what runs: "sort", "tile" or "host"

ASSUME SortAssumption == TileSizes
ASSUME TileAssumption == Sizes
ASSUME HostAssumption == Inputs

\* A unit that does not run has one state.
SomeSource == source = [a \in 0 .. 4 |-> 0]
SomeImage  == height = 1 /\ rowBytes = 1 /\ limit = 3
SomeGroup  == group = <<0, 0>>

MCInit ==
    /\ Init /\ ChunksInit /\ SortInit
    /\ \/ unit = "sort" /\ SomeImage /\ SomeGroup
       \/ unit = "tile" /\ SomeSource /\ SomeImage
       \/ unit = "host" /\ SomeSource /\ SomeGroup

Sort == unit = "sort" /\ SortNext /\ UNCHANGED <<unit, vars, chunkVars>>
Fill == unit = "tile" /\ Next /\ UNCHANGED <<unit, sortVars, chunkVars>>
Host == unit = "host" /\ ChunksNext /\ UNCHANGED <<unit, vars, sortVars>>

MCSpec == MCInit /\ [][Sort \/ Fill \/ Host]_<<unit, vars, chunkVars, sortVars>>

=============================================================================
