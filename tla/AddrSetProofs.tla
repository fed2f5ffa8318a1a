--------------------------- MODULE AddrSetProofs ---------------------------
(***************************************************************************)
(* Proofs about AddrSet: the set stays coalesced between and within the   *)
(* recursive activations of insert(), and it implements AddrPointSet.     *)
(* Both hold when no inserted range reaches the top address (NoWrap); the *)
(* addrset_wrap run shows the refinement failing when one does.           *)
(***************************************************************************)
EXTENDS AddrSet, WellFoundedInduction, TLAPS

(* No inserted range contains the highest Addr, so it->second + 1 never  *)
(* wraps for a stored range.                                              *)
NoWrap == InputMax < AddrMax

(* Every stored range, and the argument of a running call, lies within   *)
(* the inserted addresses: a merge only recombines existing endpoints.   *)
InBounds ==
    /\ ms \subseteq InputRanges
    /\ pending \in InputRanges \cup {NoRange}

IInv == TypeOK /\ InBounds /\ Coalesced

-----------------------------------------------------------------------------
(***************************************************************************)
(* std::pair's operator< on Addr pairs, and the CHOOSE in SetMin and       *)
(* SetMax (begin() of a sub-range, and the element before end()).         *)
(***************************************************************************)
NatPair == Nat \X Nat

(* Less is the lexicographic ordering of the library, on pairs of Nat. *)
LexLess == LexPairOrdering(OpToRel(<, Nat), OpToRel(<, Nat), Nat, Nat)

LEMMA LexWF == IsWellFoundedOn(LexLess, NatPair)
  BY NatLessThanWellFounded, WFLexPairOrdering DEF LexLess, NatPair

LEMMA LessIsLex ==
  ASSUME NEW x \in NatPair, NEW y \in NatPair
  PROVE  Less(y, x) <=> <<y, x>> \in LexLess
  BY DEF LexLess, LexPairOrdering, OpToRel, Less, NatPair

(* A non-empty set of Addr pairs has a least element. *)
LEMMA MinExists ==
  ASSUME NEW S \in SUBSET NatPair, S # {}
  PROVE  \E x \in S : \A y \in S : ~Less(y, x)
<1>1. \E x \in S : \A y \in S : ~(<<y, x>> \in LexLess)
  BY LexWF, WFMin
<1>. QED  BY <1>1, LessIsLex

(* ... and, within a bounded address space, a greatest one. *)
LEMMA MaxExists ==
  ASSUME NEW S \in SUBSET ((0..AddrMax) \X (0..AddrMax)), S # {}
  PROVE  \E x \in S : \A y \in S : ~Less(x, y)
<1> DEFINE flip(x) == <<AddrMax - x[1], AddrMax - x[2]>>
           T == {flip(x) : x \in S}
<1>0. ASSUME NEW x \in S PROVE flip(x) \in NatPair
  <2>1. x[1] \in 0..AddrMax /\ x[2] \in 0..AddrMax  OBVIOUS
  <2>. QED  BY <2>1, AddrMaxAssumption DEF NatPair
<1>1. T \subseteq NatPair /\ T # {}  BY <1>0
<1>2. PICK m \in T : \A z \in T : ~Less(z, m)  BY <1>1, MinExists
<1>3. PICK x \in S : m = flip(x)  OBVIOUS
<1>4. ASSUME NEW y \in S PROVE ~Less(x, y)
  <2>1. ~Less(flip(y), flip(x))  BY <1>2, <1>3
  <2>. QED  BY <2>1, AddrMaxAssumption DEF Less
<1>. QED  BY <1>4

LEMMA SetMinSpec ==
  ASSUME NEW S \in SUBSET NatPair, S # {}
  PROVE  SetMin(S) \in S /\ \A y \in S : ~Less(y, SetMin(S))
  BY MinExists DEF SetMin

LEMMA SetMaxSpec ==
  ASSUME NEW S \in SUBSET ((0..AddrMax) \X (0..AddrMax)), S # {}
  PROVE  SetMax(S) \in S /\ \A y \in S : ~Less(SetMax(S), y)
  BY MaxExists DEF SetMax

(* Less is total on distinct pairs. *)
LEMMA LessTotal ==
  ASSUME NEW x \in NatPair, NEW y \in NatPair, x # y
  PROVE  Less(x, y) \/ Less(y, x)
  BY DEF Less, NatPair

(* In a coalesced set, a range before another ends short of its start by *)
(* more than one byte.                                                    *)
LEMMA Sorted ==
  ASSUME Coalesced, ms \subseteq NatPair, NEW x \in ms, NEW y \in ms, Less(x, y)
  PROVE  x[2] + 1 < y[1]
  BY DEF Coalesced, Less, NatPair

(* Below NoWrap, Succ is x + 1 on every inserted address. *)
LEMMA SuccNoWrap ==
  ASSUME NoWrap, NEW x \in 0..InputMax
  PROVE  Succ(x) = x + 1
  BY InputMaxAssumption DEF NoWrap, Succ


(* An inserted range: its ends are inserted addresses, in order. *)
LEMMA InputRangeFacts ==
  ASSUME NEW r \in InputRanges
  PROVE  /\ r[1] \in 0..InputMax /\ r[2] \in 0..InputMax /\ r[1] <= r[2]
         /\ r \in AddrRange /\ r \in NatPair
<1>1. r \in (0..InputMax) \X (0..InputMax) /\ r[1] <= r[2]  BY DEF InputRanges
<1>2. r = <<r[1], r[2]>> /\ r[1] \in 0..InputMax /\ r[2] \in 0..InputMax  BY <1>1
<1>3. \A n \in 0..InputMax : n \in 0..AddrMax /\ n \in Nat
  BY InputMaxAssumption, AddrMaxAssumption
<1>4. r \in (0..AddrMax) \X (0..AddrMax) /\ r \in Nat \X Nat  BY <1>2, <1>3
<1>5. r \in AddrRange  BY <1>1, <1>4 DEF AddrRange
<1>6. r \in NatPair  BY <1>4 DEF NatPair
<1>. QED  BY <1>1, <1>2, <1>5, <1>6

(* make_pair of two inserted addresses, in order, is an inserted range. *)
LEMMA MkRange ==
  ASSUME NEW a \in 0..InputMax, NEW b \in 0..InputMax, a <= b
  PROVE  <<a, b>> \in InputRanges
  BY DEF InputRanges

(* The stored ranges are pairs of addresses. *)
LEMMA InBoundsPairs ==
  ASSUME InBounds
  PROVE  ms \subseteq NatPair /\ ms \subseteq (0..AddrMax) \X (0..AddrMax)
<1>1. ASSUME NEW x \in ms PROVE x \in NatPair /\ x \in (0..AddrMax) \X (0..AddrMax)
  <2>1. x \in InputRanges  BY DEF InBounds
  <2>2. x \in AddrRange /\ x \in NatPair  BY <2>1, InputRangeFacts
  <2>. QED  BY <2>2 DEF AddrRange
<1>. QED  BY <1>1

(***************************************************************************)
(* What the range insert() picks tells: either it is the last range before *)
(* `range` and `range` starts within a byte of its end or no range follows *)
(* `range`; or it is the first range from `range` on and every range      *)
(* before `range` ends more than a byte before range.first.               *)
(***************************************************************************)
CandidateFacts(range, it) ==
    /\ it \in ms
    /\ \/ /\ Less(it, range)
          /\ \A x \in ms : Less(x, range) => ~Less(it, x)
          /\ (\A x \in ms : Less(x, range)) \/ range[1] <= it[2] + 1
       \/ /\ ~Less(it, range)
          /\ \A x \in ms : ~Less(x, range) => ~Less(x, it)
          /\ \A x \in ms : Less(x, range) => x[2] + 1 < range[1]

LEMMA CandidateSpec ==
  ASSUME NoWrap, InBounds, Coalesced, ms # {}, NEW range \in InputRanges
  PROVE  CandidateFacts(range, Candidate(range))
<1> DEFINE Below == {x \in ms : Less(x, range)}
           Above == ms \ Below
           mb == SetMax(Below)
<1>1. ms \subseteq NatPair /\ ms \subseteq (0..AddrMax) \X (0..AddrMax)
  BY InBoundsPairs
<1>2. CASE Below = {}
  <2>1. Candidate(range) = SetMin(Above)  BY <1>2 DEF Candidate
  <2>2. SetMin(Above) \in Above /\ \A y \in Above : ~Less(y, SetMin(Above))
    BY <1>1, <1>2, SetMinSpec
  <2>. QED  BY <1>2, <2>1, <2>2 DEF CandidateFacts
<1>3. CASE Below # {} /\ Above = {}
  <2>1. Candidate(range) = mb  BY <1>3 DEF Candidate
  <2>2. mb \in Below /\ \A y \in Below : ~Less(mb, y)  BY <1>1, <1>3, SetMaxSpec
  <2>. QED  BY <1>3, <2>1, <2>2 DEF CandidateFacts
<1>4. CASE Below # {} /\ Above # {}
  <2>1. mb \in Below /\ \A y \in Below : ~Less(mb, y)  BY <1>1, <1>4, SetMaxSpec
  <2>2. mb[2] \in 0..InputMax  BY <2>1 DEF InBounds, InputRanges
  <2>3. Succ(mb[2]) = mb[2] + 1  BY <2>2, SuccNoWrap
  <2>4. CASE range[1] > mb[2] + 1
    <3>1. Candidate(range) = SetMin(Above)  BY <1>4, <2>3, <2>4 DEF Candidate
    <3>2. SetMin(Above) \in Above /\ \A y \in Above : ~Less(y, SetMin(Above))
      BY <1>1, <1>4, SetMinSpec
    <3>3. ASSUME NEW x \in Below PROVE x[2] + 1 < range[1]
      <4>1. CASE x = mb  BY <2>4, <4>1
      <4>2. CASE x # mb
        <5>1. Less(x, mb)  BY <1>1, <2>1, <4>2, LessTotal
        <5>2. x[2] + 1 < mb[1]  BY <1>1, <2>1, <5>1, Sorted
        <5>. QED  BY <5>2, <2>1, <2>4 DEF InBounds, InputRanges
      <4>. QED  BY <4>1, <4>2
    <3>. QED  BY <3>1, <3>2, <3>3 DEF CandidateFacts
  <2>5. CASE range[1] <= mb[2] + 1
    <3>0. range[1] \in Nat  BY DEF InputRanges
    <3>1. Candidate(range) = mb  BY <1>4, <2>2, <2>3, <2>5, <3>0 DEF Candidate
    <3>. QED  BY <2>1, <2>5, <3>1 DEF CandidateFacts
  <2>. QED  BY <2>4, <2>5, <2>2 DEF InputRanges
<1>. QED  BY <1>2, <1>3, <1>4


LEMMA InitIInv == Init => IInv
  BY NoRangeAssumption DEF Init, IInv, TypeOK, InBounds, Coalesced

(* ms.erase(it); insert(x): dropping a range keeps the rest coalesced. *)
LEMMA RecurIInv ==
  ASSUME IInv, NEW it \in ms, NEW x \in InputRanges, Recur(it, x)
  PROVE  IInv'
<1>1. ms' = ms \ {it} /\ pending' = x  BY DEF Recur
<1>2. InBounds'  BY <1>1 DEF IInv, InBounds
<1>3. TypeOK'
  <2>1. ms' \subseteq AddrRange  BY <1>1, InputRangeFacts DEF IInv, InBounds
  <2>2. pending' \in AddrRange  BY <1>1, InputRangeFacts
  <2>. QED  BY <2>1, <2>2 DEF TypeOK
<1>4. Coalesced'  BY <1>1 DEF IInv, Coalesced
<1>. QED  BY <1>2, <1>3, <1>4 DEF IInv

(* ms.insert(x) of a range clear of every stored one. *)
LEMMA DoneIInv ==
  ASSUME IInv, NEW x \in InputRanges,
         \A y \in ms : y # x => (y[2] + 1 < x[1] \/ x[2] + 1 < y[1]),
         Done(x)
  PROVE  IInv'
<1>1. ms' = ms \cup {x} /\ pending' = NoRange  BY DEF Done
<1>2. InBounds'  BY <1>1 DEF IInv, InBounds
<1>3. TypeOK'
  <2>1. ms' \subseteq AddrRange  BY <1>1, InputRangeFacts DEF IInv, InBounds
  <2>. QED  BY <1>1, <2>1 DEF TypeOK
<1>4. Coalesced'
  <2>1. \A y \in ms' : y[1] <= y[2]  BY <1>1, InputRangeFacts DEF IInv, Coalesced
  <2>2. ASSUME NEW y \in ms', NEW z \in ms', y # z
        PROVE  y[2] + 1 < z[1] \/ z[2] + 1 < y[1]
    <3>1. CASE y \in ms /\ z \in ms  BY <2>2, <3>1 DEF IInv, Coalesced
    <3>2. CASE y = x  BY <1>1, <2>2, <3>2
    <3>3. CASE z = x  BY <1>1, <2>2, <3>3
    <3>. QED  BY <1>1, <3>1, <3>2, <3>3
  <2>. QED  BY <2>1, <2>2 DEF Coalesced
<1>. QED  BY <1>2, <1>3, <1>4 DEF IInv

LEMMA StepIInv ==
  ASSUME NoWrap, IInv, Step PROVE IInv'
<1> DEFINE range == pending
           it == Candidate(range)
<1>1. range \in InputRanges /\ ms # {}  BY DEF Step, IInv, InBounds
<1>2. CandidateFacts(range, it)  BY <1>1, CandidateSpec DEF IInv
<1>3. it \in ms /\ it \in InputRanges  BY <1>2 DEF CandidateFacts, IInv, InBounds
<1>4. Succ(it[2]) = it[2] + 1 /\ Succ(range[2]) = range[2] + 1
  BY <1>1, <1>3, SuccNoWrap DEF InputRanges
<1>5. ms \subseteq NatPair  BY InBoundsPairs DEF IInv
<1>0. /\ range[1] \in 0..InputMax /\ range[2] \in 0..InputMax /\ range[1] <= range[2]
      /\ it[1] \in 0..InputMax /\ it[2] \in 0..InputMax /\ it[1] <= it[2]
  BY <1>1, <1>3, InputRangeFacts
<1>9. \A y \in ms : y[1] \in 0..InputMax /\ y[2] \in 0..InputMax /\ y[1] <= y[2]
  BY InputRangeFacts DEF IInv, InBounds
<1>10. InputMax \in Nat  BY InputMaxAssumption, AddrMaxAssumption
<1> HIDE DEF range, it
(* the branches of Step, one per case of insert() *)
<1>6. CASE range[1] = it[2] + 1
  <2>1. Recur(it, <<it[1], range[2]>>)  BY <1>4, <1>6 DEF Step, range, it
  <2>2. <<it[1], range[2]>> \in InputRanges  BY <1>0, <1>6, MkRange
  <2>. QED  BY <1>3, <2>1, <2>2, RecurIInv
<1>7. CASE range[1] # it[2] + 1 /\ range[2] + 1 = it[1]
  <2>1. Recur(it, ExtendDown(range, it))  BY <1>4, <1>7 DEF Step, range, it
  <2>2. ExtendDown(range, it) \in InputRanges
    BY <1>0, <1>7, MkRange DEF ExtendDown
  <2>. QED  BY <1>3, <2>1, <2>2, RecurIInv
<1>8. CASE range[1] # it[2] + 1 /\ range[2] + 1 # it[1]
  <2>1. \/ /\ range[1] > it[2] /\ Done(range)
        \/ /\ range[1] <= it[2] /\ range[1] >= it[1]
           /\ \/ range[2] > it[2] /\ Recur(it, <<it[1], range[2]>>)
              \/ range[2] <= it[2] /\ pending' = NoRange /\ UNCHANGED ms
        \/ /\ range[1] <= it[2] /\ range[1] < it[1]
           /\ \/ range[2] < it[1] /\ Done(range)
              \/ /\ range[2] >= it[1] /\ range[2] <= it[2]
                 /\ ms' = (ms \ {it}) \cup {BeginExtended(range, it)}
                 /\ pending' = NoRange
              \/ range[2] > it[2] /\ Recur(it, range)
    BY <1>4, <1>8 DEF Step, range, it
  <2>2. CASE range[1] > it[2] /\ Done(range)
    (* disjoint above: `it` is the last range, and range is clear above it *)
    <3>1. ~(~Less(it, range))  BY <1>0, <2>2 DEF Less
    <3>2. /\ \A x \in ms : Less(x, range) => ~Less(it, x)
          /\ (\A x \in ms : Less(x, range)) \/ range[1] <= it[2] + 1
      BY <1>2, <3>1 DEF CandidateFacts
    <3>3. \A x \in ms : Less(x, range)  BY <1>0, <3>2, <1>8, <2>2
    <3>4. ASSUME NEW y \in ms PROVE y[2] + 1 < range[1]
      <4>1. CASE y = it  BY <1>0, <4>1, <1>8, <2>2
      <4>2. CASE y # it
        <5>1. Less(y, it)  BY <1>3, <1>5, <3>2, <3>3, <4>2, LessTotal
        <5>2. y[2] + 1 < it[1]  BY <1>3, <1>5, <5>1, Sorted DEF IInv
        <5>. QED  BY <1>0, <1>9, <5>2, <1>8, <2>2
      <4>. QED  BY <4>1, <4>2
    <3>. QED  BY <1>1, <2>2, <3>4, DoneIInv
  <2>3. CASE range[1] <= it[2] /\ range[1] >= it[1] /\ range[2] > it[2]
             /\ Recur(it, <<it[1], range[2]>>)
    <3>1. <<it[1], range[2]>> \in InputRanges  BY <1>0, <2>3, MkRange
    <3>. QED  BY <1>3, <2>3, <3>1, RecurIInv
  <2>4. CASE pending' = NoRange /\ UNCHANGED ms
    BY <2>4 DEF IInv, TypeOK, InBounds, Coalesced
  <2>5. CASE range[1] < it[1] /\ range[2] < it[1] /\ Done(range)
    (* disjoint below: `it` is the first range from range on *)
    <3>1. ~Less(it, range)  BY <1>0, <2>5 DEF Less
    <3>2. /\ \A x \in ms : ~Less(x, range) => ~Less(x, it)
          /\ \A x \in ms : Less(x, range) => x[2] + 1 < range[1]
      BY <1>2, <3>1 DEF CandidateFacts
    <3>3. ASSUME NEW y \in ms, ~Less(y, range) PROVE range[2] + 1 < y[1]
      <4>1. CASE y = it  BY <1>0, <4>1, <1>8, <2>5
      <4>2. CASE y # it
        <5>1. Less(it, y)  BY <1>3, <1>5, <3>2, <3>3, <4>2, LessTotal
        <5>2. it[2] + 1 < y[1]  BY <1>3, <1>5, <5>1, Sorted DEF IInv
        <5>. QED  BY <1>0, <1>9, <5>2, <2>5
      <4>. QED  BY <4>1, <4>2
    <3>. QED  BY <1>1, <2>5, <3>2, <3>3, DoneIInv
  <2>6. CASE /\ range[1] < it[1] /\ range[2] >= it[1] /\ range[2] <= it[2]
             /\ ms' = (ms \ {it}) \cup {BeginExtended(range, it)}
             /\ pending' = NoRange
    (* begin extended: `it` starts below no other range that range reaches *)
    <3> DEFINE nr == BeginExtended(range, it)
    <3>1. ~Less(it, range)  BY <1>0, <2>6 DEF Less
    <3>2. /\ \A x \in ms : ~Less(x, range) => ~Less(x, it)
          /\ \A x \in ms : Less(x, range) => x[2] + 1 < range[1]
      BY <1>2, <3>1 DEF CandidateFacts
    <3>3. nr \in InputRanges /\ nr = <<range[1], it[2]>>
      BY <1>0, <2>6, MkRange DEF BeginExtended
    <3>4. ASSUME NEW y \in ms \ {it}
          PROVE  y[2] + 1 < nr[1] \/ nr[2] + 1 < y[1]
      <4>1. CASE Less(y, range)  BY <3>2, <3>3, <4>1
      <4>2. CASE ~Less(y, range)
        <5>1. Less(it, y)  BY <1>3, <1>5, <3>2, <4>2, LessTotal
        <5>2. it[2] + 1 < y[1]  BY <1>3, <1>5, <5>1, Sorted DEF IInv
        <5>. QED  BY <5>2, <3>3
      <4>. QED  BY <4>1, <4>2
    <3>5. ms' \subseteq InputRanges  BY <2>6, <3>3 DEF IInv, InBounds
    <3>6. Coalesced'
      BY <2>6, <3>3, <3>4, <3>5 DEF IInv, Coalesced, InputRanges
    <3>7. ms' \subseteq AddrRange  BY <3>5, InputRangeFacts
    <3>. QED  BY <2>6, <3>5, <3>6, <3>7 DEF IInv, TypeOK, InBounds
  <2>7. CASE range[2] > it[2] /\ Recur(it, range)
    BY <1>1, <1>3, <2>7, RecurIInv
  <2>. QED  BY <2>1, <2>2, <2>3, <2>4, <2>5, <2>6, <2>7
<1>. QED  BY <1>6, <1>7, <1>8

LEMMA NextIInv ==
  ASSUME NoWrap, IInv, [Next]_vars PROVE IInv'
<1>1. ASSUME NEW r \in InputRanges, Insert(r) PROVE IInv'
  <2>1. r \in AddrRange  BY InputRangeFacts
  <2>. QED  BY <1>1, <2>1 DEF Insert, IInv, TypeOK, InBounds, Coalesced
<1>2. CASE Clear  BY <1>2 DEF Clear, IInv, TypeOK, InBounds, Coalesced
<1>3. CASE InsertFirst
  <2>1. pending \in InputRanges  BY <1>3 DEF InsertFirst, IInv, InBounds
  <2>. QED  BY <1>3, <2>1, DoneIInv DEF InsertFirst
<1>4. CASE Step  BY <1>4, StepIInv
<1>5. CASE UNCHANGED vars  BY <1>5 DEF vars, IInv, TypeOK, InBounds, Coalesced
<1>. QED  BY <1>1, <1>2, <1>3, <1>4, <1>5 DEF Next

(* THEOREM: when no inserted range contains the top address, the set of *)
(* ranges is coalesced in every state, between the recursive activations *)
(* of insert() as well as between calls: insert() merges a range with    *)
(* each neighbour it touches or overlaps before storing it.              *)
THEOREM CoalescedHolds ==
  ASSUME NoWrap PROVE Spec => []Coalesced
<1>1. Spec => []IInv  BY InitIInv, NextIInv, PTL DEF Spec
<1>. QED  BY <1>1, PTL DEF IInv

(* THEOREM: when no inserted range contains the top address, every stored *)
(* range and the argument of a running insert() is a well-formed range     *)
(* (begin <= end) of the address space.  Without the hypothesis it fails:  *)
(* with AddrMax = InputMax = 5, inserting <<0, 0>> and then <<2, 5>> makes *)
(* range.second + 1 wrap to 0 = it->first, and insert() recurs on the      *)
(* malformed range <<2, 0>>.                                               *)
THEOREM TypeCorrect ==
  ASSUME NoWrap PROVE Spec => []TypeOK
<1>1. Spec => []IInv  BY InitIInv, NextIInv, PTL DEF Spec
<1>. QED  BY <1>1, PTL DEF IInv

-----------------------------------------------------------------------------
(***************************************************************************)
(* Refinement: AddrSet implements AddrPointSet under pts <- Covered.  An    *)
(* insert() call adds the bytes of its range when it starts; each          *)
(* activation after that only moves bytes between the stored ranges and   *)
(* the pending one, so it is a stuttering step of AddrPointSet.           *)
(***************************************************************************)
UnionOf(S) == UNION {Points(x) : x \in S}

(* Taking one range out of the set, and putting its bytes back. *)
LEMMA UnionRemove ==
  ASSUME NEW S, NEW it \in S
  PROVE  UnionOf(S) = UnionOf(S \ {it}) \cup Points(it)
  BY DEF UnionOf

LEMMA UnionAdd ==
  ASSUME NEW S, NEW x
  PROVE  UnionOf(S \cup {x}) = UnionOf(S) \cup Points(x)
  BY DEF UnionOf

LEMMA CoveredDef ==
  /\ pending = NoRange => Covered = UnionOf(ms)
  /\ pending # NoRange => Covered = UnionOf(ms) \cup Points(pending)
  BY DEF Covered, UnionOf

(* The branches of insert() whose bytes are those of `it` and `range`. *)
LEMMA MergeCovered ==
  ASSUME IInv, pending # NoRange, NEW it \in ms, NEW x \in InputRanges,
         Points(x) = Points(it) \cup Points(pending),
         \/ Recur(it, x)
         \/ ms' = (ms \ {it}) \cup {x} /\ pending' = NoRange
  PROVE  Covered' = Covered
<1>1. x # NoRange  BY NoRangeAssumption, InputRangeFacts DEF NatPair
<1>2. Covered = UnionOf(ms \ {it}) \cup Points(it) \cup Points(pending)
  BY UnionRemove, CoveredDef
<1>3. CASE Recur(it, x)
  <2>1. Covered' = UnionOf(ms \ {it}) \cup Points(x)
    BY <1>1, <1>3 DEF Recur, Covered, UnionOf
  <2>. QED  BY <1>2, <2>1
<1>4. CASE ms' = (ms \ {it}) \cup {x} /\ pending' = NoRange
  <2>1. Covered' = UnionOf((ms \ {it}) \cup {x})  BY <1>4 DEF Covered, UnionOf
  <2>2. Covered' = UnionOf(ms \ {it}) \cup Points(x)  BY <2>1, UnionAdd
  <2>. QED  BY <1>2, <2>2
<1>. QED  BY <1>3, <1>4


(* ms.insert(range) at the end of a call keeps the bytes where they are. *)
LEMMA DoneCovered ==
  ASSUME pending # NoRange, Done(pending) PROVE Covered' = Covered
<1>1. Covered' = UnionOf(ms \cup {pending})  BY DEF Done, Covered, UnionOf
<1>. QED  BY <1>1, UnionAdd, CoveredDef

(* Every activation of insert() after the first step leaves the covered *)
(* bytes unchanged.                                                      *)
LEMMA StepCovered ==
  ASSUME NoWrap, IInv, Step PROVE Covered' = Covered
<1> DEFINE range == pending
           it == Candidate(range)
<1>1. range \in InputRanges /\ ms # {}  BY DEF Step, IInv, InBounds
<1>2. CandidateFacts(range, it)  BY <1>1, CandidateSpec DEF IInv
<1>3. it \in ms /\ it \in InputRanges  BY <1>2 DEF CandidateFacts, IInv, InBounds
<1>4. Succ(it[2]) = it[2] + 1 /\ Succ(range[2]) = range[2] + 1
  BY <1>1, <1>3, SuccNoWrap, InputRangeFacts
<1>0. /\ range[1] \in 0..InputMax /\ range[2] \in 0..InputMax /\ range[1] <= range[2]
      /\ it[1] \in 0..InputMax /\ it[2] \in 0..InputMax /\ it[1] <= it[2]
  BY <1>1, <1>3, InputRangeFacts
<1>5. range # NoRange  BY DEF Step
<1> HIDE DEF range, it
<1>6. CASE range[1] = it[2] + 1
  <2>1. Recur(it, <<it[1], range[2]>>)  BY <1>4, <1>6 DEF Step, range, it
  <2>2. <<it[1], range[2]>> \in InputRanges  BY <1>0, <1>6, MkRange
  <2>3. Points(<<it[1], range[2]>>) = Points(it) \cup Points(range)
    BY <1>0, <1>6 DEF Points
  <2>. QED  BY <1>3, <1>5, <2>1, <2>2, <2>3, MergeCovered DEF range
<1>7. CASE range[1] # it[2] + 1 /\ range[2] + 1 = it[1]
  <2>1. Recur(it, ExtendDown(range, it))  BY <1>4, <1>7 DEF Step, range, it
  <2>2. ExtendDown(range, it) \in InputRanges  BY <1>0, <1>7, MkRange DEF ExtendDown
  <2>3. Points(ExtendDown(range, it)) = Points(it) \cup Points(range)
    BY <1>0, <1>7 DEF Points, ExtendDown
  <2>. QED  BY <1>3, <1>5, <2>1, <2>2, <2>3, MergeCovered DEF range
<1>8. CASE range[1] # it[2] + 1 /\ range[2] + 1 # it[1]
  <2>1. \/ /\ range[1] > it[2] /\ Done(range)
        \/ /\ range[1] <= it[2] /\ range[1] >= it[1]
           /\ \/ range[2] > it[2] /\ Recur(it, <<it[1], range[2]>>)
              \/ range[2] <= it[2] /\ pending' = NoRange /\ UNCHANGED ms
        \/ /\ range[1] <= it[2] /\ range[1] < it[1]
           /\ \/ range[2] < it[1] /\ Done(range)
              \/ /\ range[2] >= it[1] /\ range[2] <= it[2]
                 /\ ms' = (ms \ {it}) \cup {BeginExtended(range, it)}
                 /\ pending' = NoRange
              \/ range[2] > it[2] /\ Recur(it, range)
    BY <1>4, <1>8 DEF Step, range, it
  <2>2. CASE Done(range)  BY <1>5, <2>2, DoneCovered DEF range
  <2>3. CASE /\ range[1] <= it[2] /\ range[1] >= it[1] /\ range[2] > it[2]
             /\ Recur(it, <<it[1], range[2]>>)
    <3>1. <<it[1], range[2]>> \in InputRanges  BY <1>0, <2>3, MkRange
    <3>2. range[1] <= it[2] + 1  BY <2>3, <1>0
    <3>3. Points(<<it[1], range[2]>>) = Points(it) \cup Points(range)
      BY <1>0, <2>3, <3>2 DEF Points
    <3>. QED  BY <1>3, <1>5, <2>3, <3>1, <3>3, MergeCovered DEF range
  <2>4. CASE range[1] >= it[1] /\ range[2] <= it[2] /\ pending' = NoRange /\ UNCHANGED ms
    (* `it` encompasses range: its bytes are already stored *)
    <3>1. Points(range) \subseteq Points(it)  BY <1>0, <2>4 DEF Points
    <3>2. Covered = UnionOf(ms) \cup Points(range)  BY <1>5, CoveredDef DEF range
    <3>3. Points(it) \subseteq UnionOf(ms)  BY <1>3 DEF UnionOf
    <3>4. Covered' = UnionOf(ms)  BY <2>4 DEF Covered, UnionOf
    <3>. QED  BY <3>1, <3>2, <3>3, <3>4
  <2>5. CASE /\ range[1] < it[1] /\ range[2] >= it[1] /\ range[2] <= it[2]
             /\ ms' = (ms \ {it}) \cup {BeginExtended(range, it)}
             /\ pending' = NoRange
    <3>1. BeginExtended(range, it) \in InputRanges  BY <1>0, <2>5, MkRange DEF BeginExtended
    <3>2. Points(BeginExtended(range, it)) = Points(it) \cup Points(range)
      BY <1>0, <2>5 DEF Points, BeginExtended
    <3>. QED  BY <1>3, <1>5, <2>5, <3>1, <3>2, MergeCovered DEF range
  <2>6. CASE range[1] < it[1] /\ range[2] > it[2] /\ Recur(it, range)
    (* range encompasses `it` *)
    <3>1. Points(range) = Points(it) \cup Points(range)  BY <1>0, <2>6 DEF Points
    <3>. QED  BY <1>1, <1>3, <1>5, <2>6, <3>1, MergeCovered DEF range
  <2>. QED  BY <2>1, <2>2, <2>3, <2>4, <2>5, <2>6
<1>. QED  BY <1>6, <1>7, <1>8

(* Each step of AddrSet is a step of AddrPointSet or leaves its state alone. *)
LEMMA NextRefines ==
  ASSUME NoWrap, IInv, [Next]_vars PROVE [Abs!PNext]_Covered
<1>1. ASSUME NEW r \in InputRanges, Insert(r) PROVE Abs!PInsert(r)
  <2>1. Covered = UnionOf(ms)  BY <1>1, CoveredDef DEF Insert
  <2>2. Covered' = UnionOf(ms) \cup Points(r)
    BY <1>1, NoRangeAssumption, InputRangeFacts DEF Insert, Covered, UnionOf, NatPair
  <2>. QED  BY <2>1, <2>2 DEF Abs!PInsert, Points, Abs!Points
<1>2. CASE Clear
  <2>1. Covered' = {}  BY <1>2 DEF Clear, Covered
  <2>. QED  BY <2>1 DEF Abs!PNext, Abs!PClear
<1>3. CASE InsertFirst  BY <1>3, DoneCovered DEF InsertFirst
<1>4. CASE Step  BY <1>4, StepCovered
<1>5. CASE UNCHANGED vars  BY <1>5 DEF vars, Covered
<1>6. Abs!InputRanges = InputRanges  BY DEF Abs!InputRanges, InputRanges
<1>. QED  BY <1>1, <1>2, <1>3, <1>4, <1>5, <1>6 DEF Next, Abs!PNext

(* THEOREM: when no inserted range contains the top address, AddrSet      *)
(* implements AddrPointSet: the bytes its ranges cover are always the     *)
(* union of the ranges inserted since the last clear(), so coalescing     *)
(* never adds nor loses an address.                                       *)
THEOREM Refinement ==
  ASSUME NoWrap PROVE Spec => AbsSpec
<1>1. Init => Abs!PInit  BY DEF Init, Abs!PInit, Covered
<1>2. Spec => []IInv  BY InitIInv, NextIInv, PTL DEF Spec
<1>3. IInv /\ [Next]_vars => [Abs!PNext]_Covered  BY NextRefines
<1>. QED  BY <1>1, <1>2, <1>3, PTL DEF Spec, AbsSpec, Abs!PSpec

=============================================================================
