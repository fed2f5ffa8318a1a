--------------------------- MODULE AddrPointSet ---------------------------
(***************************************************************************)
(* What an AddrSet promises its users (STCompEvent, STCommEvent): it is    *)
(* the set of bytes covered by the ranges inserted since the last clear(). *)
(***************************************************************************)
EXTENDS Naturals

CONSTANTS AddrMax, InputMax

VARIABLE pts

Points(r) == r[1]..r[2]
InputRanges == {r \in (0..InputMax) \X (0..InputMax) : r[1] <= r[2]}

PInit == pts = {}

PInsert(r) == pts' = pts \cup Points(r)

PClear == pts' = {}

PNext == (\E r \in InputRanges : PInsert(r)) \/ PClear

PSpec == PInit /\ [][PNext]_pts
=============================================================================
