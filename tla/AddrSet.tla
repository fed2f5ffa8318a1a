------------------------------ MODULE AddrSet ------------------------------
(***************************************************************************)
(* STGen::AddrSet, the unique-address set of the compute and communication *)
(* events: a std::set of closed byte ranges (ordered as std::pair, first   *)
(* then second) that insert() keeps coalesced.                             *)
(*                                                                         *)
(* insert() calls itself after each merge; the model unrolls that          *)
(* recursion into steps: Insert(r) starts a call with `pending` = r, and   *)
(* each Step action is one branch of one activation of insert(), either    *)
(* finishing the call or erasing a range and recurring on the fused one.   *)
(* Addresses are unsigned of fixed width: `x + 1` wraps at AddrMax.        *)
(***************************************************************************)
EXTENDS Naturals

CONSTANTS
    AddrMax,   \* largest Addr value (2^w - 1)
    InputMax,  \* largest address occurring in an inserted range
    NoRange    \* no insert() call in progress

ASSUME AddrMaxAssumption == AddrMax \in Nat \ {0}
ASSUME InputMaxAssumption == InputMax \in 0..AddrMax
ASSUME NoRangeAssumption == NoRange \notin Nat \X Nat

VARIABLES
    ms,        \* the std::multiset of ranges
    pending    \* the argument of the running insert() activation, or NoRange

vars == <<ms, pending>>

AddrRange == {r \in (0..AddrMax) \X (0..AddrMax) : r[1] <= r[2]}
InputRanges == {r \in (0..InputMax) \X (0..InputMax) : r[1] <= r[2]}

(* Addr arithmetic: it->second + 1 wraps to 0. *)
Succ(x) == IF x = AddrMax THEN 0 ELSE x + 1

(* std::pair operator< *)
Less(p, q) == p[1] < q[1] \/ (p[1] = q[1] /\ p[2] < q[2])

SetMin(S) == CHOOSE x \in S : \A y \in S : ~Less(y, x)
SetMax(S) == CHOOSE x \in S : \A y \in S : ~Less(x, y)

(***************************************************************************)
(* The range insert(range) compares with: lower_bound(range) (the first    *)
(* range not less than it), or the range before it when there is no such  *)
(* range, or when the range before it is not clearly below `range`.       *)
(***************************************************************************)
(* Seeded fault: lower_bound taken without looking at the range before it. *)
CandidateNoBackoff(range) ==
    LET Above == {x \in ms : ~Less(x, range)}
    IN  IF Above = {} THEN SetMax(ms) ELSE SetMin(Above)

Candidate(range) ==
    LET Below == {x \in ms : Less(x, range)}
        Above == ms \ Below
    IN  IF Below = {} THEN SetMin(Above)
        ELSE IF Above = {} THEN SetMax(Below)
        ELSE IF range[1] > Succ(SetMax(Below)[2]) THEN SetMin(Above)
        ELSE SetMax(Below)

Init ==
    /\ ms = {}
    /\ pending = NoRange

(* A call insert(r); assert(range.first <= range.second) holds. *)
Insert(r) ==
    /\ pending = NoRange
    /\ pending' = r
    /\ UNCHANGED ms

(* clear() *)
Clear ==
    /\ pending = NoRange
    /\ ms' = {}
    /\ UNCHANGED pending

(* Finish the call with ms.insert(x). *)
Done(x) ==
    /\ ms' = ms \cup {x}
    /\ pending' = NoRange

(* Seeded fault: the merged range re-inserted without erasing 'it'. *)
RecurNoErase(it, x) ==
    /\ UNCHANGED ms
    /\ pending' = x

(* ms.erase(it); insert(x) *)
Recur(it, x) ==
    /\ ms' = ms \ {it}
    /\ pending' = x

(* Seeded fault: the downward extension built as make_pair(it->first,     *)
(* range.second).                                                          *)
ExtendDownSwapped(range, it) == <<it[1], range[2]>>

(* make_pair(range.first, it->second): 'it' extended downward by range. *)
ExtendDown(range, it) == <<range[1], it[2]>>

(* Seeded fault: the begin-extended range keeps range.second, not        *)
(* it->second.                                                            *)
BeginExtendedLosesEnd(range, it) == <<range[1], range[2]>>

(* ms.emplace(range.first, second): the begin of 'it' moved down. *)
BeginExtended(range, it) == <<range[1], it[2]>>

(***************************************************************************)
(* One activation of insert(range), range = pending.  The branches are    *)
(* tested in the code's order; each disjunct carries the negation of the   *)
(* tests before it.                                                        *)
(***************************************************************************)
InsertFirst ==
    /\ pending # NoRange
    /\ ms = {}
    /\ Done(pending)

Step ==
    /\ pending # NoRange
    /\ ms # {}
    /\ LET range == pending
           it == Candidate(range)
           touchUp == range[1] = Succ(it[2])
           touchDown == Succ(range[2]) = it[1]
       IN  \/ /\ touchUp                                 \* extend 'it' upward
              /\ Recur(it, <<it[1], range[2]>>)
           \/ /\ ~touchUp /\ touchDown                   \* extend 'it' downward
              /\ Recur(it, ExtendDown(range, it))
           \/ /\ ~touchUp /\ ~touchDown
              /\ range[1] > it[2]                        \* disjoint above
              /\ Done(range)
           \/ /\ ~touchUp /\ ~touchDown
              /\ range[1] <= it[2] /\ range[1] >= it[1]
              /\ \/ /\ range[2] > it[2]                  \* overlap, extends end
                    /\ Recur(it, <<it[1], range[2]>>)
                 \/ /\ range[2] <= it[2]                 \* 'it' encompasses range
                    /\ pending' = NoRange
                    /\ UNCHANGED ms
           \/ /\ ~touchUp /\ ~touchDown
              /\ range[1] <= it[2] /\ range[1] < it[1]
              /\ \/ /\ range[2] < it[1]                  \* disjoint below
                    /\ Done(range)
                 \/ /\ range[2] >= it[1] /\ range[2] <= it[2]
                    /\ ms' = (ms \ {it}) \cup {BeginExtended(range, it)}
                    /\ pending' = NoRange                \* begin extended
                 \/ /\ range[2] > it[2]                  \* range encompasses 'it'
                    /\ Recur(it, range)

Next ==
    \/ \E r \in InputRanges : Insert(r)
    \/ Clear
    \/ InsertFirst
    \/ Step

(* insert() is a synchronous call: once started it runs to its return. *)
Spec == Init /\ [][Next]_vars /\ WF_vars(InsertFirst \/ Step)

-----------------------------------------------------------------------------
Points(r) == r[1]..r[2]

(* The bytes the set stands for, counting the range of a running call. *)
Covered ==
    (UNION {Points(x) : x \in ms})
      \cup (IF pending = NoRange THEN {} ELSE Points(pending))

(* Type invariant. *)
TypeOK ==
    /\ ms \subseteq AddrRange
    /\ pending \in AddrRange \cup {NoRange}

(* The coalescing invariant (spec sections 3 and 4.1): stored ranges are  *)
(* well formed, and no two of them overlap or are adjacent.  It must hold *)
(* between calls and between the activations of a recursive call alike.    *)
Coalesced ==
    /\ \A x \in ms : x[1] <= x[2]
    /\ \A x, y \in ms : x # y => (x[2] + 1 < y[1] \/ y[2] + 1 < x[1])

(* Each call of insert() returns. *)
InsertReturns == pending # NoRange ~> pending = NoRange

(* AddrSet implements AddrPointSet: an insert() call adds exactly the      *)
(* bytes of its range and a merge step neither adds nor loses a byte, so   *)
(* the set's point-set is the union of the inserted ranges.                *)
Abs == INSTANCE AddrPointSet WITH pts <- Covered
AbsSpec == Abs!PSpec
=============================================================================
