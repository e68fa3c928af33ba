--------------------------- MODULE MCSharedTensors ---------------------------
(***************************************************************************)
(* Tensors of two threads: x and y belong to the first, z and the WeakPtr  *)
(* w to the second.                                                        *)
(***************************************************************************)
EXTENDS SharedTensors

CONSTANTS t1, t2, x, y, z, w, b1, b2

MCOwner == (x :> t1) @@ (y :> t1) @@ (z :> t2) @@ (w :> t2)

\* A vector, which broadcasts to rows, and a tensor of two matrices: the second
\* one and its rows begin behind the start of the storage, and its rows repeat.
MCShapes == {<<2>>, <<2, 2, 2>>}
MCBroadcasts == {<<4>>, <<4, 2>>, <<2, 4>>, <<2, 2, 2>>}
MCReshapes == {<<2, 2>>}

\* The blocks are alike, and so are x and y.
MCSymmetry == Permutations(Blocks) \cup Permutations({x, y})
=============================================================================
