---------------------------- MODULE MCAtomicFile ----------------------------
(***************************************************************************)
(* Instances of AtomicFile for TLC: a short document and a long one, so    *)
(* that what is cut short, or written over something longer, shows.        *)
(***************************************************************************)
EXTENDS AtomicFile

CONSTANTS x, y1, y2

\* Writers are interchangeable.
MCWriterSymmetry == Permutations(Writer)

MCDocument == {<<x>>, <<y1, y2>>}
=============================================================================
