--------------------------- MODULE DcchSched_proofs ---------------------------
(* Proofs about DcchSched, for every number of stations, control offsets,     *)
(* slots and late closings, with stations entering, leaving and missing       *)
(* packets at will.                                                           *)
EXTENDS DcchSched, TLAPS, WellFoundedInduction

\* A nonempty set of naturals has a least member.
LEMMA LeastExists ==
  ASSUME NEW T, T \subseteq Nat, T # {}
  PROVE  \E x \in T : \A y \in T : x <= y
<1>1. IsWellFoundedOn(OpToRel(<, Nat), Nat)
  BY NatLessThanWellFounded
<1>2. PICK x \in T : \A y \in T : ~ (<<y, x>> \in OpToRel(<, Nat))
  BY <1>1, WFMin
<1>3. \A y \in T : ~ (y < x)
  BY <1>2 DEF OpToRel
<1> QED BY <1>3

\* A nonempty set of naturals below a bound has a greatest member.
LEMMA GreatestExists ==
  ASSUME NEW n \in Nat, NEW T, T \subseteq 0 .. n, T # {}
  PROVE  \E x \in T : \A y \in T : y <= x
<1> DEFINE U == {n - y : y \in T}
<1>1. U \subseteq Nat /\ U # {}
  <2>1. \A y \in T : n - y \in Nat
    OBVIOUS
  <2>2. PICK y \in T : TRUE
    OBVIOUS
  <2>3. n - y \in U
    OBVIOUS
  <2> QED BY <2>1, <2>3
<1>2. PICK u \in U : \A v \in U : u <= v
  BY <1>1, LeastExists
<1>3. PICK x \in T : u = n - x
  BY <1>2
<1>4. ASSUME NEW y \in T PROVE y <= x
  <2>1. n - y \in U
    OBVIOUS
  <2>2. n - x <= n - y
    BY <2>1, <1>2, <1>3
  <2>3. x \in Int /\ y \in Int
    OBVIOUS
  <2> QED BY <2>2, <2>3
<1> QED BY <1>4

(***************************************************************************)
(* The helpers.                                                            *)
(***************************************************************************)

\* bs_get_highest returns a member no other member exceeds.
LEMMA HighestFacts ==
  ASSUME NEW S, S \subseteq Co, S # {}
  PROVE  HighestCo(S) \in S /\ \A d \in S : d <= HighestCo(S)
<1>1. \E c \in S : \A d \in S : d <= c
  <2>1. CoMax - 1 \in Nat /\ S \subseteq 0 .. CoMax - 1
    BY DcchAssumption DEF Co
  <2> QED BY <2>1, GreatestExists
<1> QED BY <1>1 DEF HighestCo

\* bs_alloc_resource returns a free control offset.
LEMMA LowestFreeFacts ==
  ASSUME CO_bitset # Co, CO_bitset \subseteq Co
  PROVE  LowestFree \in Co /\ LowestFree \notin CO_bitset
<1>1. \E c \in Co \ CO_bitset : \A d \in Co \ CO_bitset : c <= d
  <2>1. Co \ CO_bitset \subseteq Nat
    BY DcchAssumption DEF Co
  <2>2. Co \ CO_bitset # {}
    OBVIOUS
  <2> QED BY <2>1, <2>2, LeastExists
<1> QED BY <1>1 DEF LowestFree

\* clear_mac_CO finds an entry of the station, if there is one.
LEMMA FirstCoFacts ==
  ASSUME NEW a, \E c \in Co : mac_co_sac[c] = a
  PROVE  FirstCo(a) \in Co /\ mac_co_sac[FirstCo(a)] = a
<1> DEFINE T == {c \in Co : mac_co_sac[c] = a}
<1>1. PICK c \in T : \A d \in T : c <= d
  <2>1. T \subseteq Nat /\ T # {}
    BY DcchAssumption DEF Co
  <2> QED BY <2>1, LeastExists
<1>2. \A d \in 0 .. c - 1 : mac_co_sac[d] # a
  <2> SUFFICES ASSUME NEW d \in 0 .. c - 1, mac_co_sac[d] = a PROVE FALSE
    OBVIOUS
  <2>1. d \in T
    BY <1>1, DcchAssumption DEF Co
  <2> QED BY <2>1, <1>1, DcchAssumption DEF Co
<1>3. \E x \in Co : /\ mac_co_sac[x] = a
                    /\ \A d \in 0 .. x - 1 : mac_co_sac[d] # a
  BY <1>1, <1>2
<1> QED BY <1>3 DEF FirstCo

\* The descriptor that announces highest control offset h.
LEMMA DescFacts ==
  ASSUME NEW h \in Co, NEW s \in 0 .. SuccMod - 1
  PROVE  /\ DescCOL(h) \in 0 .. DclMax /\ DescCOL(h) \in 1 .. h + 1
         /\ DcchDesc(s, h) \in Descriptor
         /\ DcchDesc(s, h).cos = s
         /\ DcchDesc(s, h).com = h + 1
         /\ h + 1 \in 1 .. CoMax
<1>1. DescCOL(h) \in 0 .. DclMax /\ DescCOL(h) \in 1 .. h + 1 /\ h + 1 \in 1 .. CoMax
  BY DcchAssumption DEF Co, DescCOL
<1>2. DcchDesc(s, h) = [cos |-> s, col |-> DescCOL(h), com |-> h + 1]
  BY DEF DcchDesc
<1>3. s \in Nat /\ h + 1 \in 0 .. CoMax
  BY <1>1, DcchAssumption
<1>4. DcchDesc(s, h) \in Descriptor
  BY <1>1, <1>2, <1>3 DEF Descriptor
<1> QED BY <1>1, <1>2, <1>4

\* CO_successor stays within its uint8_t.
LEMMA SuccessorType ==
  ASSUME NEW h \in Co, NEW s \in 0 .. SuccMod - 1
  PROVE  NextSuccessor(s, h) \in 0 .. SuccMod - 1
<1> DEFINE sum == (s + DescCOL(h)) % SuccMod
<1>1. sum \in 0 .. SuccMod - 1 /\ h \in Nat
  BY DescFacts, DcchAssumption DEF Co
<1>2. NextSuccessor(s, h) = IF sum > h THEN sum - (h + 1) ELSE sum
  BY DEF NextSuccessor
<1> HIDE DEF sum
<1> QED BY <1>1, <1>2, DcchAssumption

\* While the sum does not overflow the uint8_t, the successor passes neither the
\* highest control offset nor the place where it was.
LEMMA SuccessorReturns ==
  ASSUME NEW h \in Co, NEW s \in 0 .. SuccMod - 1, s + DclMax < SuccMod
  PROVE  NextSuccessor(s, h) <= h \/ NextSuccessor(s, h) <= s
<1> DEFINE col == DescCOL(h)
<1>1. /\ col \in 0 .. DclMax /\ col \in 1 .. h + 1
      /\ h \in 0 .. CoMax - 1 /\ s \in Nat
  BY DescFacts, DcchAssumption DEF Co
<1>2. NextSuccessor(s, h) = IF (s + col) % SuccMod > h
                            THEN ((s + col) % SuccMod) - (h + 1)
                            ELSE (s + col) % SuccMod
  BY DEF NextSuccessor
<1> HIDE DEF col
<1>3. s + col \in 0 .. SuccMod - 1
  BY <1>1, DcchAssumption
<1>4. (s + col) % SuccMod = s + col
  BY <1>3, DcchAssumption
<1> QED BY <1>1, <1>2, <1>3, <1>4

\* In a small cell the successor of 0 is 0.
LEMMA SuccessorSmall ==
  ASSUME NEW h \in Co, h < DclMax
  PROVE  NextSuccessor(0, h) = 0
<1>1. h \in 0 .. CoMax - 1 /\ DescCOL(h) = h + 1
  BY DcchAssumption DEF Co, DescCOL
<1>2. NextSuccessor(0, h) = IF (h + 1) % SuccMod > h
                            THEN ((h + 1) % SuccMod) - (h + 1)
                            ELSE (h + 1) % SuccMod
  BY <1>1 DEF NextSuccessor
<1>3. (h + 1) % SuccMod = h + 1
  BY <1>1, DcchAssumption
<1> QED BY <1>1, <1>2, <1>3, DcchAssumption

\* A block takes no more RSC_RQSTs than there are.
LEMMA FittingFacts ==
  ASSUME NEW q \in [exit : BOOLEAN, rqsts : Nat]
  PROVE  Fitting(q) \in 0 .. q.rqsts
<1> DEFINE len == IF q.exit THEN ExitLen ELSE 0
           fit == ((SduLen - len) \div RqstLen) + 1
<1>1. SduLen - len \in Nat /\ RqstLen \in Nat \ {0} /\ q.rqsts \in Nat
  BY DcchAssumption
<1>2. \A x \in Nat : x \div RqstLen \in Nat
  BY <1>1
<1>3. fit \in Nat
  BY <1>1, <1>2
<1>4. Fitting(q) = IF q.rqsts <= fit THEN q.rqsts ELSE fit
  BY DEF Fitting
<1> HIDE DEF fit
<1> QED BY <1>1, <1>3, <1>4

-----------------------------------------------------------------------------
(***************************************************************************)
(* The inductive invariant.                                                *)
(***************************************************************************)
Slot  == 0 .. DclMax - 1
Block == [from : As, co : Co, exit : BOOLEAN]

\* Control offsets in use are ascribed to a station; one that was freed belongs
\* to a station that has left.
UsedInv == \A c \in Co : /\ c \in CO_bitset => mac_co_sac[c] # NoAs
                         /\ c \notin CO_bitset => mac_co_sac[c] \in left \cup {NoAs}

\* A station in the cell is known to the GS.
NewInv == \A a \in As : \/ a \in left
                        \/ \E c \in Co : mac_co_sac[c] = a
                        \/ /\ as_co[a] = {}
                           /\ \A r \in asseming.resps : r.as # a
                           /\ \A k \in 1 .. Len(assemed) :
                                 \A r \in assemed[k].resps : r.as # a

\* A station's CELL_EXIT is in one place at a time, and the GS holds a control
\* offset for it as long as it is anywhere.
ExitInv ==
    /\ \A a \in As : dc_pq[a].exit =>
          /\ a \in left /\ a \notin exits /\ \E c \in Co : Registered(a, c)
          /\ \A i \in Slot : slots[i] # EmptySlot /\ slots[i].from = a => ~ slots[i].exit
    /\ \A i \in Slot : slots[i] # EmptySlot /\ slots[i].exit =>
          /\ slots[i].from \in left /\ slots[i].from \notin exits
          /\ \E c \in Co : Registered(slots[i].from, c)
    /\ \A a \in exits : a \in left /\ \E c \in Co : Registered(a, c)

\* A station fills one slot in a multiframe; in a small cell that of its own
\* control offset.
SlotInv == \A i \in Slot : slots[i] # EmptySlot =>
              /\ slots[i].from \in fired
              /\ slots[i].co \in as_co[slots[i].from]
              /\ Small => slots[i].co = i

\* A small cell starts every descriptor at 0.
SmallInv == Small => /\ CO_successor = 0 /\ dc_coqueue.cos = 0
                     /\ \A d \in asseming.descs : d.cos = 0
                     /\ \A k \in 1 .. Len(assemed) : \A d \in assemed[k].descs : d.cos = 0
                     /\ \A a \in As : as_desc[a].cos = 0

\* As long as no closing timer was late, the GS's descriptor counts the control
\* offset of every station that has heard, or is about to hear, of its own.
LagInv == late = 0 =>
    /\ armed <= 1
    /\ phase = "air" =>
          /\ armed = 1
          /\ \A k \in 1 .. Len(assemed) : \A r \in assemed[k].resps :
                Registered(r.as, r.co) => r.co < dc_coqueue.com
    /\ phase # "tick" => \A a \in As : \A c \in as_co[a] :
                             Registered(a, c) => c < dc_coqueue.com

ComInv == dc_coqueue # None => dc_coqueue.com >= 1

IInv == /\ DcchTypeOK /\ UsedInv /\ NewInv /\ ExitInv /\ SlotInv /\ SmallInv /\ LagInv
        /\ ComInv /\ Attributed /\ RotationBounded

\* Slots hold blocks or nothing.
LEMMA SlotType ==
  ASSUME DcchTypeOK, NEW i \in Slot
  PROVE  slots[i] # EmptySlot => slots[i] \in Block
  BY DEF DcchTypeOK, Slot, Block

\* A block is not the empty slot.
LEMMA BlockNotEmpty == \A b \in Block : b # EmptySlot
  BY DcchAssumption DEF Block, EmptySlot

LEMMA InitIInv == Init => IInv
<1> SUFFICES ASSUME Init PROVE IInv
  OBVIOUS
<1>1. DcchTypeOK
  <2>1. None \in Descriptor
    BY DcchAssumption DEF None, Descriptor
  <2>2. 0 \in 0 .. SuccMod - 1 /\ 0 \in 0 .. MaxLate
    BY DcchAssumption
  <2>3. asseming \in Packet /\ assemed \in Seq(Packet)
    BY DEF Init, NewNode, Packet
  <2>4. /\ dc_pq \in [As -> [exit : BOOLEAN, rqsts : Nat]]
        /\ \A a \in As : dc_pq[a].rqsts <= MaxRqst[a]
    BY DcchAssumption DEF Init
  <2> QED BY <2>1, <2>2, <2>3, <2>4 DEF Init, DcchTypeOK
<1>2. UsedInv /\ NewInv /\ Attributed /\ RotationBounded /\ ComInv
  BY DEF Init, UsedInv, NewInv, Attributed, RotationBounded, ComInv, NewNode
<1>3. ExitInv /\ SlotInv
  BY DEF Init, ExitInv, SlotInv, Slot
<1>4. SmallInv /\ LagInv
  BY DEF Init, SmallInv, LagInv, NewNode, None
<1> QED BY <1>1, <1>2, <1>3, <1>4 DEF IInv

-----------------------------------------------------------------------------
(***************************************************************************)
(* The steps.                                                              *)
(***************************************************************************)

\* Nothing received, nothing ascribed.
LEMMA Silent == ASSUME received' = {} PROVE Attributed'
  BY DEF Attributed

\* What a descriptor adds to the packet that is open.
LEMMA DescJoins ==
  ASSUME DcchTypeOK, NEW d \in Descriptor,
         asseming' = [asseming EXCEPT !.descs = @ \cup {d}]
  PROVE  /\ asseming'.descs = asseming.descs \cup {d}
         /\ asseming'.resps = asseming.resps
         /\ asseming' \in Packet
  BY DEF DcchTypeOK, Packet

\* TransCc preserves the invariant: the new descriptor counts every control
\* offset in use.
LEMMA TransCcStep == ASSUME IInv, TransCc PROVE IInv'
<1>0. /\ DcchTypeOK /\ UsedInv /\ NewInv /\ ExitInv /\ SlotInv /\ SmallInv /\ LagInv
      /\ ComInv /\ Attributed /\ RotationBounded
  BY DEF IInv
<1>1. /\ UNCHANGED <<CO_bitset, mac_co_sac, assemed, as_co, as_desc, dc_pq, left, fired,
                     slots, exits, lostExit>>
      /\ phase = "tick" /\ phase' = "air" /\ armed' = armed + 1 /\ late' = late + armed
      /\ armed = 0 \/ (armed = 1 /\ late < MaxLate)
      /\ received' = {}
  BY DEF TransCc, asVars, dcVars
<1>2. UsedInv' /\ ExitInv' /\ SlotInv'
  BY <1>0, <1>1 DEF UsedInv, ExitInv, SlotInv, Registered, Small
<1>3. armed' \in 0 .. 2 /\ late' \in 0 .. MaxLate
  BY <1>0, <1>1, DcchAssumption DEF DcchTypeOK
<1>4. ASSUME late' = 0 PROVE armed' = 1
  BY <1>0, <1>1, <1>4 DEF DcchTypeOK
<1>5. CASE CO_bitset = {}
  <2>1. UNCHANGED <<CO_successor, dc_coqueue, asseming>>
    BY <1>5 DEF TransCc
  <2>2. DcchTypeOK'
    BY <1>0, <1>1, <1>3, <2>1 DEF DcchTypeOK
  <2>3. NewInv' /\ SmallInv' /\ ComInv' /\ RotationBounded'
    BY <1>0, <1>1, <2>1 DEF NewInv, SmallInv, ComInv, RotationBounded, Small, Narrow
  <2>4. LagInv'
    BY <1>1, <1>4, <1>5 DEF LagInv, Registered
  <2> QED BY <1>1, <1>2, <2>2, <2>3, <2>4, Silent DEF IInv
<1>6. CASE CO_bitset # {}
  <2> DEFINE h == HighestCo(CO_bitset)
             d == DcchDesc(CO_successor, h)
  <2>1. /\ dc_coqueue' = d
        /\ asseming' = [asseming EXCEPT !.descs = @ \cup {d}]
        /\ CO_successor' = NextSuccessor(CO_successor, h)
    BY <1>6 DEF TransCc
  <2>2. h \in CO_bitset /\ h \in Co /\ \A c \in CO_bitset : c <= h
    BY <1>0, <1>6, HighestFacts DEF DcchTypeOK
  <2>3. CO_successor \in 0 .. SuccMod - 1
    BY <1>0 DEF DcchTypeOK
  <2>4. d \in Descriptor /\ d.cos = CO_successor /\ d.com = h + 1
    BY <2>2, <2>3, DescFacts
  <2>5. CO_successor' \in 0 .. SuccMod - 1
    BY <2>1, <2>2, <2>3, SuccessorType
  <2> HIDE DEF h, d
  <2>6. /\ asseming'.descs = asseming.descs \cup {d}
        /\ asseming'.resps = asseming.resps
        /\ asseming' \in Packet
    BY <1>0, <2>1, <2>4, DescJoins
  <2>7. DcchTypeOK'
    BY <1>0, <1>1, <1>3, <2>1, <2>4, <2>5, <2>6 DEF DcchTypeOK
  <2>8. NewInv'
    BY <1>0, <1>1, <2>6 DEF NewInv
  <2>9. mac_co_sac[h] # NoAs
    BY <1>0, <2>2 DEF UsedInv
  <2>10. SmallInv'
    <3> SUFFICES ASSUME Small' PROVE SmallInv'
      BY DEF SmallInv
    <3>1. Small
      BY <1>1 DEF Small
    <3>2. CO_successor = 0 /\ h < DclMax
      BY <1>0, <2>2, <2>9, <3>1 DEF SmallInv, Small
    <3>3. CO_successor' = 0
      BY <2>1, <2>2, <3>2, SuccessorSmall
    <3>4. \A e \in asseming'.descs : e.cos = 0
      BY <1>0, <2>4, <2>6, <3>1, <3>2 DEF SmallInv
    <3> QED BY <1>0, <1>1, <2>1, <2>4, <3>1, <3>2, <3>3, <3>4 DEF SmallInv
  <2>11. LagInv'
    <3>1. ASSUME NEW a, NEW c, Registered(a, c)' PROVE c < dc_coqueue'.com
      <4>1. c \in CO_bitset
        BY <1>1, <3>1 DEF Registered
      <4>2. c <= h /\ c \in Int /\ h \in Int
        BY <1>0, <2>2, <4>1 DEF DcchTypeOK, Co
      <4> QED BY <2>1, <2>4, <4>2
    <3> QED BY <1>1, <1>4, <3>1 DEF LagInv
  <2>12. ComInv'
    BY <2>1, <2>2, <2>4 DEF ComInv, Co
  <2>13. RotationBounded'
    <3> SUFFICES ASSUME Narrow'
                 PROVE CO_successor' = 0 \/ \E c \in Co : mac_co_sac[c] # NoAs /\ CO_successor' <= c
      BY <1>1 DEF RotationBounded
    <3>1. Narrow
      BY <1>1 DEF Narrow
    <3>2. CO_successor = 0 \/ \E c \in Co : mac_co_sac[c] # NoAs /\ CO_successor <= c
      BY <1>0, <3>1 DEF RotationBounded
    <3>3. CO_successor + DclMax < SuccMod
      <4>1. CASE CO_successor = 0
        BY <4>1, DcchAssumption
      <4>2. CASE \E c \in Co : mac_co_sac[c] # NoAs /\ CO_successor <= c
        <5>1. PICK c \in Co : mac_co_sac[c] # NoAs /\ CO_successor <= c
          BY <4>2
        <5>2. c + DclMax < SuccMod
          BY <3>1, <5>1 DEF Narrow
        <5> QED BY <2>3, <5>1, <5>2, DcchAssumption DEF Co
      <4> QED BY <3>2, <4>1, <4>2
    <3>4. CO_successor' <= h \/ CO_successor' <= CO_successor
      BY <2>1, <2>2, <2>3, <3>3, SuccessorReturns
    <3>5. CASE CO_successor' <= h
      BY <2>2, <2>9, <3>5
    <3>6. CASE CO_successor' <= CO_successor
      <4>1. CASE CO_successor = 0
        BY <2>5, <3>6, <4>1, DcchAssumption
      <4>2. CASE \E c \in Co : mac_co_sac[c] # NoAs /\ CO_successor <= c
        BY <2>3, <2>5, <3>6, <4>2, DcchAssumption DEF Co
      <4> QED BY <3>2, <4>1, <4>2
    <3> QED BY <3>4, <3>5, <3>6
  <2> QED BY <1>1, <1>2, <2>7, <2>8, <2>10, <2>11, <2>12, <2>13, Silent DEF IInv
<1> QED BY <1>5, <1>6

\* The closed packets after one more.
LEMMA AppendFacts ==
  ASSUME NEW P, NEW s \in Seq(P), NEW p \in P
  PROVE  /\ Append(s, p) \in Seq(P)
         /\ \A k \in 1 .. Len(Append(s, p)) :
               (k \in 1 .. Len(s) /\ Append(s, p)[k] = s[k]) \/ Append(s, p)[k] = p
  OBVIOUS

\* The closed packets after the first was sent.
LEMMA TailFacts ==
  ASSUME NEW P, NEW s \in Seq(P), s # <<>>
  PROVE  /\ Tail(s) \in Seq(P) /\ Head(s) \in P
         /\ 1 \in 1 .. Len(s) /\ Head(s) = s[1]
         /\ \A k \in 1 .. Len(Tail(s)) : k + 1 \in 1 .. Len(s) /\ Tail(s)[k] = s[k + 1]
  OBVIOUS

\* CloseCc preserves the invariant: the open packet is queued as it is.
LEMMA CloseCcStep == ASSUME IInv, CloseCc PROVE IInv'
<1>0. /\ DcchTypeOK /\ UsedInv /\ NewInv /\ ExitInv /\ SlotInv /\ SmallInv /\ LagInv
      /\ ComInv /\ Attributed /\ RotationBounded
  BY DEF IInv
<1>1. /\ UNCHANGED <<phase, CO_bitset, mac_co_sac, CO_successor, dc_coqueue, late, as_co,
                     as_desc, dc_pq, left, fired, slots, exits, lostExit>>
      /\ armed > 0 /\ (armed = 2 \/ phase # "air") /\ armed' = armed - 1
      /\ assemed' = Append(assemed, asseming)
      /\ asseming' = NewNode
      /\ received' = {}
  BY DEF CloseCc, asVars, dcVars, coVars
<1>2. UsedInv' /\ ExitInv' /\ SlotInv' /\ ComInv' /\ RotationBounded'
  BY <1>0, <1>1 DEF UsedInv, ExitInv, SlotInv, ComInv, RotationBounded, Registered, Small, Narrow
<1>3. asseming \in Packet /\ assemed \in Seq(Packet)
  BY <1>0 DEF DcchTypeOK
<1>4. /\ assemed' \in Seq(Packet)
      /\ \A k \in 1 .. Len(assemed') :
            (k \in 1 .. Len(assemed) /\ assemed'[k] = assemed[k]) \/ assemed'[k] = asseming
  BY <1>1, <1>3, AppendFacts
<1>5. asseming'.descs = {} /\ asseming'.resps = {} /\ asseming' \in Packet
  BY <1>1 DEF NewNode, Packet
<1>6. DcchTypeOK'
  <2>1. armed' \in 0 .. 2
    BY <1>0, <1>1 DEF DcchTypeOK
  <2> QED BY <1>0, <1>1, <1>4, <1>5, <2>1 DEF DcchTypeOK
<1>7. NewInv'
  <2> SUFFICES ASSUME NEW a \in As, a \notin left, \A c \in Co : mac_co_sac[c] # a
               PROVE  /\ as_co[a] = {}
                      /\ \A r \in asseming'.resps : r.as # a
                      /\ \A k \in 1 .. Len(assemed') : \A r \in assemed'[k].resps : r.as # a
    BY <1>1 DEF NewInv
  <2>1. /\ as_co[a] = {}
        /\ \A r \in asseming.resps : r.as # a
        /\ \A k \in 1 .. Len(assemed) : \A r \in assemed[k].resps : r.as # a
    BY <1>0 DEF NewInv
  <2> QED BY <1>4, <1>5, <2>1
<1>8. SmallInv'
  <2> SUFFICES ASSUME Small PROVE SmallInv'
    BY <1>1 DEF SmallInv, Small
  <2>1. /\ \A d \in asseming.descs : d.cos = 0
        /\ \A k \in 1 .. Len(assemed) : \A d \in assemed[k].descs : d.cos = 0
    BY <1>0 DEF SmallInv
  <2>2. \A k \in 1 .. Len(assemed') : \A d \in assemed'[k].descs : d.cos = 0
    BY <1>4, <2>1
  <2> QED BY <1>0, <1>1, <1>5, <2>2 DEF SmallInv
<1>9. LagInv'
  <2> SUFFICES ASSUME late = 0 PROVE LagInv'
    BY <1>1 DEF LagInv
  <2>1. armed = 1 /\ phase # "air" /\ armed' = 0
    BY <1>0, <1>1 DEF LagInv, DcchTypeOK
  <2> QED BY <1>0, <1>1, <2>1 DEF LagInv, Registered
<1> QED BY <1>1, <1>2, <1>6, <1>7, <1>8, <1>9, Silent DEF IInv

\* SendCc preserves the invariant: descriptors and control offsets come out of
\* the packet that was closed first.
LEMMA SendCcStep ==
  ASSUME IInv, NEW heard, NEW verified, SendCc(heard, verified)
  PROVE  IInv'
<1>0. /\ DcchTypeOK /\ UsedInv /\ NewInv /\ ExitInv /\ SlotInv /\ SmallInv /\ LagInv
      /\ ComInv /\ Attributed /\ RotationBounded
  BY DEF IInv
<1>1. /\ UNCHANGED <<CO_bitset, mac_co_sac, CO_successor, dc_coqueue, armed, late, asseming,
                     dc_pq, left, fired, slots, exits, lostExit>>
      /\ phase = "air" /\ phase' = "dc" /\ received' = {}
  BY DEF SendCc, dcVars, coVars
<1>2. UsedInv' /\ ExitInv' /\ ComInv' /\ RotationBounded'
  BY <1>0, <1>1 DEF UsedInv, ExitInv, ComInv, RotationBounded, Registered, Small, Narrow
<1>3. CASE assemed = <<>>
  <2>1. UNCHANGED <<assemed, as_desc, as_co>>
    BY <1>3 DEF SendCc
  <2>2. DcchTypeOK' /\ NewInv' /\ SlotInv' /\ SmallInv'
    BY <1>0, <1>1, <2>1 DEF DcchTypeOK, NewInv, SlotInv, SmallInv, Small
  <2>3. LagInv'
    BY <1>0, <1>1, <2>1 DEF LagInv, Registered
  <2> QED BY <1>1, <1>2, <2>2, <2>3, Silent DEF IInv
<1>4. CASE assemed # <<>>
  <2> DEFINE p == Head(assemed)
             new(a) == {r.co : r \in {r \in p.resps : r.as = a /\ a \in verified}}
  <2>1. /\ assemed' = Tail(assemed)
        /\ as_co' = [a \in As |-> as_co[a] \cup new(a)]
    BY <1>4 DEF SendCc
  <2>2. PICK d \in IF p.descs = {} THEN {None} ELSE p.descs :
            as_desc' = [a \in As |-> IF a \in heard /\ d # None THEN d ELSE as_desc[a]]
    BY <1>4 DEF SendCc
  <2>3. assemed \in Seq(Packet)
    BY <1>0 DEF DcchTypeOK
  <2>4. /\ assemed' \in Seq(Packet) /\ p \in Packet
        /\ 1 \in 1 .. Len(assemed) /\ p = assemed[1]
        /\ \A k \in 1 .. Len(assemed') :
              k + 1 \in 1 .. Len(assemed) /\ assemed'[k] = assemed[k + 1]
    BY <1>4, <2>1, <2>3, TailFacts
  <2>5. p.descs \in SUBSET Descriptor /\ p.resps \in SUBSET [as : As, co : Co]
    BY <2>4 DEF Packet
  <2>6. \A a \in As : new(a) \subseteq Co
    BY <2>5
  <2>7. \A a \in As : \A c \in new(a) : \E r \in p.resps : r.as = a /\ r.co = c
    OBVIOUS
  <2> HIDE DEF new, p
  <2>8. \A a \in As : as_co'[a] = as_co[a] \cup new(a)
    BY <2>1
  <2>9. \A a \in As : as_desc'[a] = as_desc[a] \/ (d # None /\ as_desc'[a] = d)
    BY <2>2
  <2>10. d # None => d \in p.descs
    BY <2>2
  <2>11. DcchTypeOK'
    <3>1. as_co' \in [As -> SUBSET Co]
      BY <1>0, <2>1, <2>6 DEF DcchTypeOK
    <3>2. as_desc' \in [As -> Descriptor]
      BY <1>0, <2>2, <2>5, <2>10 DEF DcchTypeOK
    <3> QED BY <1>0, <1>1, <2>4, <3>1, <3>2 DEF DcchTypeOK
  <2>12. NewInv'
    <3> SUFFICES ASSUME NEW a \in As, a \notin left, \A c \in Co : mac_co_sac[c] # a
                 PROVE  /\ as_co'[a] = {}
                        /\ \A r \in asseming.resps : r.as # a
                        /\ \A k \in 1 .. Len(assemed') : \A r \in assemed'[k].resps : r.as # a
      BY <1>1 DEF NewInv
    <3>1. /\ as_co[a] = {}
          /\ \A r \in asseming.resps : r.as # a
          /\ \A k \in 1 .. Len(assemed) : \A r \in assemed[k].resps : r.as # a
      BY <1>0 DEF NewInv
    <3>2. new(a) = {}
      BY <2>4, <2>7, <3>1
    <3> QED BY <2>4, <2>8, <3>1, <3>2
  <2>13. SlotInv'
    <3> SUFFICES ASSUME NEW i \in Slot, slots[i] # EmptySlot
                 PROVE  /\ slots[i].from \in fired
                        /\ slots[i].co \in as_co'[slots[i].from]
                        /\ Small => slots[i].co = i
      BY <1>1 DEF SlotInv, Small
    <3>1. slots[i] \in Block
      BY <1>0, SlotType
    <3>2. slots[i].from \in As
      BY <3>1 DEF Block
    <3> QED BY <1>0, <2>8, <3>2 DEF SlotInv
  <2>14. SmallInv'
    <3> SUFFICES ASSUME Small PROVE SmallInv'
      BY <1>1 DEF SmallInv, Small
    <3>1. \A k \in 1 .. Len(assemed) : \A e \in assemed[k].descs : e.cos = 0
      BY <1>0 DEF SmallInv
    <3>2. d # None => d.cos = 0
      BY <2>4, <2>10, <3>1
    <3>3. \A a \in As : as_desc'[a].cos = 0
      BY <1>0, <2>9, <3>2 DEF SmallInv
    <3>4. \A k \in 1 .. Len(assemed') : \A e \in assemed'[k].descs : e.cos = 0
      BY <2>4, <3>1
    <3> QED BY <1>0, <1>1, <3>3, <3>4 DEF SmallInv
  <2>15. LagInv'
    <3> SUFFICES ASSUME late = 0
                 PROVE  /\ armed <= 1
                        /\ \A a \in As : \A c \in as_co'[a] :
                              Registered(a, c) => c < dc_coqueue.com
      BY <1>1 DEF LagInv, Registered
    <3>1. /\ armed <= 1
          /\ \A k \in 1 .. Len(assemed) : \A r \in assemed[k].resps :
                Registered(r.as, r.co) => r.co < dc_coqueue.com
          /\ \A a \in As : \A c \in as_co[a] : Registered(a, c) => c < dc_coqueue.com
      BY <1>0, <1>1 DEF LagInv
    <3>2. ASSUME NEW a \in As, NEW c \in new(a), Registered(a, c) PROVE c < dc_coqueue.com
      <4>1. PICK r \in p.resps : r.as = a /\ r.co = c
        BY <2>7
      <4> QED BY <2>4, <3>1, <3>2, <4>1
    <3> QED BY <2>8, <3>1, <3>2
  <2> QED BY <1>1, <1>2, <2>11, <2>12, <2>13, <2>14, <2>15, Silent DEF IInv
<1> QED BY <1>3, <1>4

\* Request preserves the invariant: a CELL_EXIT keeps its place in the queue.
LEMMA RequestStep == ASSUME IInv, NEW a \in As, Request(a) PROVE IInv'
<1>0. /\ DcchTypeOK /\ UsedInv /\ NewInv /\ ExitInv /\ SlotInv /\ SmallInv /\ LagInv
      /\ ComInv /\ Attributed /\ RotationBounded
  BY DEF IInv
<1>1. /\ UNCHANGED <<phase, CO_bitset, mac_co_sac, CO_successor, dc_coqueue, armed, late,
                     asseming, assemed, as_co, as_desc, left, fired, slots, exits, lostExit>>
      /\ dc_pq[a].rqsts < MaxRqst[a]
      /\ dc_pq' = [dc_pq EXCEPT ![a].rqsts = @ + 1]
      /\ received' = {}
  BY DEF Request, dcVars, coVars, pktVars
<1>2. dc_pq \in [As -> [exit : BOOLEAN, rqsts : Nat]]
  BY <1>0 DEF DcchTypeOK
<1>3. /\ dc_pq' \in [As -> [exit : BOOLEAN, rqsts : Nat]]
      /\ \A b \in As : dc_pq'[b].exit = dc_pq[b].exit
      /\ dc_pq'[a].rqsts = dc_pq[a].rqsts + 1
      /\ \A b \in As : b # a => dc_pq'[b].rqsts = dc_pq[b].rqsts
  BY <1>1, <1>2
<1>4. DcchTypeOK'
  <2>1. \A b \in As : dc_pq'[b].rqsts <= MaxRqst[b]
    BY <1>0, <1>1, <1>2, <1>3, DcchAssumption DEF DcchTypeOK
  <2> QED BY <1>0, <1>1, <1>3, <2>1 DEF DcchTypeOK
<1>5. ExitInv'
  BY <1>0, <1>1, <1>3 DEF ExitInv, Registered
<1>6. UsedInv' /\ NewInv' /\ SlotInv' /\ SmallInv' /\ LagInv' /\ ComInv' /\ RotationBounded'
  BY <1>0, <1>1 DEF UsedInv, NewInv, SlotInv, SmallInv, LagInv, ComInv, RotationBounded,
                    Registered, Small, Narrow
<1> QED BY <1>1, <1>4, <1>5, <1>6, Silent DEF IInv

\* Leave preserves the invariant: a station that was told of a control offset is
\* registered, and has sent no CELL_EXIT before it leaves.
LEMMA LeaveStep == ASSUME IInv, NEW a \in As, Leave(a) PROVE IInv'
<1>0. /\ DcchTypeOK /\ UsedInv /\ NewInv /\ ExitInv /\ SlotInv /\ SmallInv /\ LagInv
      /\ ComInv /\ Attributed /\ RotationBounded
  BY DEF IInv
<1>1. /\ UNCHANGED <<phase, CO_bitset, mac_co_sac, CO_successor, dc_coqueue, armed, late,
                     asseming, assemed, as_co, as_desc, fired, slots, exits, lostExit>>
      /\ as_co[a] # {} /\ a \notin left
      /\ dc_pq' = [dc_pq EXCEPT ![a].exit = TRUE]
      /\ left' = left \cup {a}
      /\ received' = {}
  BY DEF Leave, dcVars, coVars, pktVars
<1>2. dc_pq \in [As -> [exit : BOOLEAN, rqsts : Nat]]
  BY <1>0 DEF DcchTypeOK
<1>3. /\ dc_pq' \in [As -> [exit : BOOLEAN, rqsts : Nat]]
      /\ \A b \in As : dc_pq'[b].rqsts = dc_pq[b].rqsts
      /\ \A b \in As : b # a => dc_pq'[b].exit = dc_pq[b].exit
  BY <1>1, <1>2
<1>4. DcchTypeOK'
  BY <1>0, <1>1, <1>3 DEF DcchTypeOK
<1>5. \E c \in Co : Registered(a, c)
  <2>1. PICK c \in Co : mac_co_sac[c] = a
    BY <1>0, <1>1 DEF NewInv
  <2>2. c \in CO_bitset
    BY <1>0, <1>1, <2>1, DcchAssumption DEF UsedInv
  <2> QED BY <2>1, <2>2 DEF Registered
<1>6. a \notin exits /\ \A i \in Slot : slots[i] # EmptySlot /\ slots[i].from = a => ~ slots[i].exit
  BY <1>0, <1>1 DEF ExitInv
<1>7. ExitInv'
  <2>1. ASSUME NEW b \in As, dc_pq'[b].exit
        PROVE  /\ b \in left' /\ b \notin exits /\ \E c \in Co : Registered(b, c)
               /\ \A i \in Slot : slots[i] # EmptySlot /\ slots[i].from = b => ~ slots[i].exit
    <3>1. CASE b = a
      BY <1>1, <1>5, <1>6, <3>1
    <3>2. CASE b # a
      BY <1>0, <1>1, <1>3, <2>1, <3>2 DEF ExitInv
    <3> QED BY <3>1, <3>2
  <2>2. \A i \in Slot : slots[i] # EmptySlot /\ slots[i].exit =>
          /\ slots[i].from \in left' /\ slots[i].from \notin exits
          /\ \E c \in Co : Registered(slots[i].from, c)
    BY <1>0, <1>1 DEF ExitInv
  <2>3. \A b \in exits : b \in left' /\ \E c \in Co : Registered(b, c)
    BY <1>0, <1>1 DEF ExitInv
  <2> QED BY <1>1, <2>1, <2>2, <2>3 DEF ExitInv, Registered
<1>8. UsedInv' /\ NewInv' /\ SlotInv' /\ SmallInv' /\ LagInv' /\ ComInv' /\ RotationBounded'
  BY <1>0, <1>1 DEF UsedInv, NewInv, SlotInv, SmallInv, LagInv, ComInv, RotationBounded,
                    Registered, Small, Narrow
<1> QED BY <1>1, <1>4, <1>7, <1>8, Silent DEF IInv

\* Grant preserves the invariant: the control offset was free, and so was the
\* station's.
LEMMA GrantStep == ASSUME IInv, NEW a \in As, Grant(a) PROVE IInv'
<1> DEFINE n == LowestFree
<1>0. /\ DcchTypeOK /\ UsedInv /\ NewInv /\ ExitInv /\ SlotInv /\ SmallInv /\ LagInv
      /\ ComInv /\ Attributed /\ RotationBounded
  BY DEF IInv
<1>1. /\ UNCHANGED <<phase, CO_successor, dc_coqueue, armed, late, assemed, as_co, as_desc,
                     dc_pq, left, fired, slots, exits, lostExit>>
      /\ a \notin left /\ \A c \in Co : mac_co_sac[c] # a
      /\ CO_bitset # Co
      /\ CO_bitset' = CO_bitset \cup {n}
      /\ mac_co_sac' = [mac_co_sac EXCEPT ![n] = a]
      /\ asseming' = [asseming EXCEPT !.resps = @ \cup {[as |-> a, co |-> n]}]
      /\ received' = {}
  BY DEF Grant, asVars, dcVars
<1>2. n \in Co /\ n \notin CO_bitset
  BY <1>0, <1>1, LowestFreeFacts DEF DcchTypeOK
<1> HIDE DEF n
<1>3. mac_co_sac \in [Co -> As \cup {NoAs}] /\ a # NoAs
  BY <1>0, DcchAssumption DEF DcchTypeOK
<1>4. /\ mac_co_sac' \in [Co -> As \cup {NoAs}]
      /\ mac_co_sac'[n] = a
      /\ \A c \in Co : c # n => mac_co_sac'[c] = mac_co_sac[c]
  BY <1>1, <1>2, <1>3
<1>5. asseming \in Packet
  BY <1>0 DEF DcchTypeOK
<1>6. /\ asseming'.descs = asseming.descs
      /\ asseming'.resps = asseming.resps \cup {[as |-> a, co |-> n]}
      /\ asseming' \in Packet
  BY <1>1, <1>2, <1>5 DEF Packet
<1>7. Small' => Small
  BY <1>3, <1>4 DEF Small
<1>8. Narrow' => Narrow
  BY <1>3, <1>4 DEF Narrow
<1>9. mac_co_sac[n] \in left \cup {NoAs}
  BY <1>0, <1>2 DEF UsedInv
<1>10. \A b, c : b # a /\ c \in Co => (Registered(b, c)' => Registered(b, c))
  BY <1>1, <1>4 DEF Registered
<1>11. \A b \in As : (\E c \in Co : Registered(b, c)) => (\E c \in Co : Registered(b, c)')
  <2> SUFFICES ASSUME NEW b \in As, NEW c \in Co, Registered(b, c) PROVE Registered(b, c)'
    OBVIOUS
  <2> QED BY <1>1, <1>2, <1>4 DEF Registered
<1>12. DcchTypeOK'
  <2>1. CO_bitset' \subseteq Co
    BY <1>0, <1>1, <1>2 DEF DcchTypeOK
  <2> QED BY <1>0, <1>1, <1>4, <1>6, <2>1 DEF DcchTypeOK
<1>13. UsedInv'
  BY <1>0, <1>1, <1>2, <1>3, <1>4 DEF UsedInv
<1>14. NewInv'
  <2> SUFFICES ASSUME NEW b \in As, b \notin left, \A c \in Co : mac_co_sac'[c] # b
               PROVE  /\ as_co[b] = {}
                      /\ \A r \in asseming'.resps : r.as # b
                      /\ \A k \in 1 .. Len(assemed) : \A r \in assemed[k].resps : r.as # b
    BY <1>1 DEF NewInv
  <2>1. b # a /\ b # NoAs
    BY <1>2, <1>4, DcchAssumption
  <2>2. \A c \in Co : mac_co_sac[c] # b
    BY <1>4, <1>9, <2>1
  <2> QED BY <1>0, <1>6, <2>1, <2>2 DEF NewInv
<1>15. ExitInv'
  <2>1. ASSUME NEW b \in As, dc_pq[b].exit
        PROVE  /\ b \in left /\ b \notin exits /\ \E c \in Co : Registered(b, c)'
               /\ \A i \in Slot : slots[i] # EmptySlot /\ slots[i].from = b => ~ slots[i].exit
    BY <1>0, <1>11, <2>1 DEF ExitInv
  <2>2. ASSUME NEW i \in Slot, slots[i] # EmptySlot, slots[i].exit
        PROVE  /\ slots[i].from \in left /\ slots[i].from \notin exits
               /\ \E c \in Co : Registered(slots[i].from, c)'
    <3>1. slots[i].from \in As
      BY <1>0, <2>2, SlotType DEF Block
    <3>2. /\ slots[i].from \in left /\ slots[i].from \notin exits
          /\ \E c \in Co : Registered(slots[i].from, c)
      BY <1>0, <2>2 DEF ExitInv
    <3> QED BY <1>1, <1>11, <3>1, <3>2
  <2>3. ASSUME NEW b \in exits PROVE b \in left /\ \E c \in Co : Registered(b, c)'
    <3>1. b \in As
      BY <1>0 DEF DcchTypeOK
    <3> QED BY <1>0, <1>11, <3>1 DEF ExitInv
  <2> QED BY <1>1, <2>1, <2>2, <2>3 DEF ExitInv
<1>16. SlotInv' /\ ComInv'
  BY <1>0, <1>1, <1>7 DEF SlotInv, ComInv
<1>17. SmallInv'
  BY <1>0, <1>1, <1>6, <1>7 DEF SmallInv
<1>18. LagInv'
  <2> SUFFICES ASSUME late = 0
               PROVE  /\ armed <= 1
                      /\ phase = "air" =>
                            /\ armed = 1
                            /\ \A k \in 1 .. Len(assemed) : \A r \in assemed[k].resps :
                                  Registered(r.as, r.co)' => r.co < dc_coqueue.com
                      /\ phase # "tick" => \A b \in As : \A c \in as_co[b] :
                                               Registered(b, c)' => c < dc_coqueue.com
    BY <1>1 DEF LagInv, Registered
  <2>1. \A k \in 1 .. Len(assemed) : \A r \in assemed[k].resps : r.as # a /\ r.co \in Co
    <3>1. ASSUME NEW k \in 1 .. Len(assemed), NEW r \in assemed[k].resps
          PROVE  r.as # a /\ r.co \in Co
      <4>1. assemed[k] \in Packet
        BY <1>0 DEF DcchTypeOK
      <4>2. r \in [as : As, co : Co]
        BY <4>1 DEF Packet
      <4> QED BY <1>0, <1>1, <4>2 DEF NewInv
    <3> QED BY <3>1
  <2>2. as_co[a] = {}
    BY <1>0, <1>1 DEF NewInv
  <2>3. armed <= 1 /\ (phase = "air" => armed = 1)
    BY <1>0 DEF LagInv
  <2>4. ASSUME phase = "air", NEW k \in 1 .. Len(assemed), NEW r \in assemed[k].resps,
               Registered(r.as, r.co)'
        PROVE  r.co < dc_coqueue.com
    BY <1>0, <1>10, <2>1, <2>4 DEF LagInv
  <2>5. ASSUME phase # "tick", NEW b \in As, NEW c \in as_co[b], Registered(b, c)'
        PROVE  c < dc_coqueue.com
    <3>1. b # a /\ c \in Co
      BY <1>0, <2>2 DEF DcchTypeOK
    <3> QED BY <1>0, <1>10, <2>5, <3>1 DEF LagInv
  <2> QED BY <2>3, <2>4, <2>5
<1>19. RotationBounded'
  <2> SUFFICES ASSUME Narrow'
               PROVE CO_successor = 0 \/ \E c \in Co : mac_co_sac'[c] # NoAs /\ CO_successor <= c
    BY <1>1 DEF RotationBounded
  <2>1. \A c \in Co : mac_co_sac[c] # NoAs => mac_co_sac'[c] # NoAs
    BY <1>3, <1>4
  <2> QED BY <1>0, <1>8, <2>1 DEF RotationBounded
<1> QED BY <1>1, <1>12, <1>13, <1>14, <1>15, <1>16, <1>17, <1>18, <1>19, Silent DEF IInv

\* CellExit preserves the invariant: clear_mac_CO finds the control offset of the
\* station itself, which no other station holds.
LEMMA CellExitStep == ASSUME IInv, NEW a \in As, CellExit(a) PROVE IInv'
<1> DEFINE f == FirstCo(a)
<1>0. /\ DcchTypeOK /\ UsedInv /\ NewInv /\ ExitInv /\ SlotInv /\ SmallInv /\ LagInv
      /\ ComInv /\ Attributed /\ RotationBounded
  BY DEF IInv
<1>1. /\ UNCHANGED <<phase, mac_co_sac, CO_successor, dc_coqueue, armed, late, asseming,
                     assemed, as_co, as_desc, dc_pq, left, fired, slots, lostExit>>
      /\ a \in exits
      /\ exits' = exits \ {a}
      /\ CO_bitset' = CO_bitset \ {f}
      /\ received' = {}
  BY DEF CellExit, asVars, dcVars, pktVars
<1>2. a \in left /\ \E c \in Co : mac_co_sac[c] = a
  BY <1>0, <1>1 DEF ExitInv, Registered
<1>3. f \in Co /\ mac_co_sac[f] = a
  BY <1>2, FirstCoFacts
<1> HIDE DEF f
<1>4. \A b, c : b # a => (Registered(b, c) <=> Registered(b, c)')
  BY <1>1, <1>3 DEF Registered
<1>5. \A b, c : Registered(b, c)' => Registered(b, c)
  BY <1>1 DEF Registered
<1>6. DcchTypeOK'
  BY <1>0, <1>1 DEF DcchTypeOK
<1>7. UsedInv'
  <2>1. \A c \in Co : c \notin CO_bitset' => c \notin CO_bitset \/ c = f
    BY <1>1
  <2>2. \A c \in Co : c \in CO_bitset' => c \in CO_bitset
    BY <1>1
  <2> QED BY <1>0, <1>1, <1>2, <1>3, <2>1, <2>2 DEF UsedInv
<1>8. ExitInv'
  <2>1. ASSUME NEW b \in As, dc_pq[b].exit
        PROVE  /\ b \in left /\ b \notin exits' /\ \E c \in Co : Registered(b, c)'
               /\ \A i \in Slot : slots[i] # EmptySlot /\ slots[i].from = b => ~ slots[i].exit
    <3>1. b # a
      BY <1>0, <1>1, <2>1 DEF ExitInv
    <3> QED BY <1>0, <1>1, <1>4, <2>1, <3>1 DEF ExitInv
  <2>2. ASSUME NEW i \in Slot, slots[i] # EmptySlot, slots[i].exit
        PROVE  /\ slots[i].from \in left /\ slots[i].from \notin exits'
               /\ \E c \in Co : Registered(slots[i].from, c)'
    <3>1. slots[i].from # a
      BY <1>0, <1>1, <2>2 DEF ExitInv
    <3> QED BY <1>0, <1>1, <1>4, <2>2, <3>1 DEF ExitInv
  <2>3. ASSUME NEW b \in exits' PROVE b \in left /\ \E c \in Co : Registered(b, c)'
    <3>1. b \in exits /\ b # a
      BY <1>1
    <3> QED BY <1>0, <1>4, <3>1 DEF ExitInv
  <2> QED BY <1>1, <2>1, <2>2, <2>3 DEF ExitInv
<1>9. LagInv'
  BY <1>0, <1>1, <1>5 DEF LagInv
<1>10. NewInv' /\ SlotInv' /\ SmallInv' /\ ComInv' /\ RotationBounded'
  BY <1>0, <1>1 DEF NewInv, SlotInv, SmallInv, ComInv, RotationBounded, Small, Narrow
<1> QED BY <1>1, <1>6, <1>7, <1>8, <1>9, <1>10, Silent DEF IInv

\* SendDc preserves the invariant: in a small cell the block goes into the slot of
\* its control offset, and the CELL_EXIT moves from the queue to the slot.
LEMMA SendDcStep ==
  ASSUME IInv, NEW a \in As, NEW co \in Co, SendDc(a, co)
  PROVE  IInv'
<1> DEFINE ind == SlotOf(a, co)
           blk == [from |-> a, co |-> co, exit |-> dc_pq[a].exit]
<1>0. /\ DcchTypeOK /\ UsedInv /\ NewInv /\ ExitInv /\ SlotInv /\ SmallInv /\ LagInv
      /\ ComInv /\ Attributed /\ RotationBounded
  BY DEF IInv
<1>1. /\ UNCHANGED <<phase, CO_bitset, mac_co_sac, CO_successor, dc_coqueue, armed, late,
                     asseming, assemed, as_co, as_desc, left, exits>>
      /\ a \notin fired /\ co \in as_co[a]
      /\ fired' = fired \cup {a}
      /\ slots' = [i \in DOMAIN slots |-> IF i = ind THEN blk ELSE slots[i]]
      /\ lostExit' = lostExit \cup Overwritten(ind)
      /\ dc_pq' = [dc_pq EXCEPT ![a] = [exit |-> FALSE, rqsts |-> @.rqsts - Fitting(@)]]
      /\ received' = {}
  BY DEF SendDc, coVars, pktVars
<1>2. dc_pq \in [As -> [exit : BOOLEAN, rqsts : Nat]] /\ dc_pq[a].exit \in BOOLEAN
  BY <1>0 DEF DcchTypeOK
<1>3. blk \in Block /\ blk # EmptySlot /\ blk.from = a /\ blk.co = co /\ blk.exit = dc_pq[a].exit
  BY <1>2, BlockNotEmpty DEF Block
<1>4. Small => ind = co
  BY <1>0 DEF SmallInv, SlotOf, Co
<1>5. Fitting(dc_pq[a]) \in 0 .. dc_pq[a].rqsts
  BY <1>2, FittingFacts
<1>6. /\ dc_pq' \in [As -> [exit : BOOLEAN, rqsts : Nat]]
      /\ dc_pq'[a].exit = FALSE
      /\ dc_pq'[a].rqsts = dc_pq[a].rqsts - Fitting(dc_pq[a])
      /\ \A b \in As : b # a => dc_pq'[b] = dc_pq[b]
  BY <1>1, <1>2, <1>5
<1> HIDE DEF ind, blk
<1>7. DOMAIN slots = Slot /\ slots \in [Slot -> Block \cup {EmptySlot}]
  BY <1>0 DEF DcchTypeOK, Slot, Block
<1>8. /\ slots' \in [Slot -> Block \cup {EmptySlot}]
      /\ \A i \in Slot : (i = ind /\ slots'[i] = blk) \/ (i # ind /\ slots'[i] = slots[i])
  BY <1>1, <1>3, <1>7
<1>9. DcchTypeOK'
  <2>1. \A b \in As : dc_pq'[b].rqsts <= MaxRqst[b]
    <3>1. dc_pq'[a].rqsts <= MaxRqst[a]
      <4>1. dc_pq[a].rqsts <= MaxRqst[a] /\ dc_pq[a].rqsts \in Nat /\ MaxRqst[a] \in Nat
        BY <1>0, <1>2, DcchAssumption DEF DcchTypeOK
      <4> QED BY <1>5, <1>6, <4>1
    <3> QED BY <1>0, <1>6, <3>1 DEF DcchTypeOK
  <2>2. Overwritten(ind) \subseteq As
    <3>1. CASE ind \in Slot /\ slots[ind] # EmptySlot
      <4>1. slots[ind].from \in As
        BY <1>0, <3>1, SlotType DEF Block
      <4> QED BY <4>1, <1>7, <3>1 DEF Overwritten
    <3>2. CASE ~(ind \in Slot /\ slots[ind] # EmptySlot)
      BY <1>7, <3>2 DEF Overwritten
    <3> QED BY <3>1, <3>2
  <2>3. slots' \in [0 .. DclMax - 1 -> [from : As, co : Co, exit : BOOLEAN] \cup {EmptySlot}]
    BY <1>8 DEF Slot, Block
  <2>4. fired' \subseteq As /\ lostExit' \subseteq As
    BY <1>0, <1>1, <2>2 DEF DcchTypeOK
  <2> QED BY <1>0, <1>1, <1>6, <2>1, <2>3, <2>4 DEF DcchTypeOK
<1>10. ExitInv'
  <2>1. ASSUME NEW b \in As, dc_pq'[b].exit
        PROVE  /\ b \in left /\ b \notin exits /\ \E c \in Co : Registered(b, c)
               /\ \A i \in Slot : slots'[i] # EmptySlot /\ slots'[i].from = b => ~ slots'[i].exit
    <3>1. b # a
      BY <1>6, <2>1
    <3>2. dc_pq[b].exit
      BY <1>6, <2>1, <3>1
    <3> QED BY <1>0, <1>3, <1>8, <3>1, <3>2 DEF ExitInv
  <2>2. ASSUME NEW i \in Slot, slots'[i] # EmptySlot, slots'[i].exit
        PROVE  /\ slots'[i].from \in left /\ slots'[i].from \notin exits
               /\ \E c \in Co : Registered(slots'[i].from, c)
    <3>1. CASE i = ind
      <4>1. slots'[i] = blk
        BY <1>8, <3>1
      <4>2. dc_pq[a].exit
        BY <1>3, <2>2, <4>1
      <4> QED BY <1>0, <1>3, <4>1, <4>2 DEF ExitInv
    <3>2. CASE i # ind
      BY <1>0, <1>8, <2>2, <3>2 DEF ExitInv
    <3> QED BY <3>1, <3>2
  <2> QED BY <1>0, <1>1, <2>1, <2>2 DEF ExitInv, Registered
<1>11. SlotInv'
  <2> SUFFICES ASSUME NEW i \in Slot, slots'[i] # EmptySlot
               PROVE  /\ slots'[i].from \in fired'
                      /\ slots'[i].co \in as_co[slots'[i].from]
                      /\ Small => slots'[i].co = i
    BY <1>1 DEF SlotInv, Small
  <2>1. CASE i = ind
    <3>1. slots'[i] = blk
      BY <1>8, <2>1
    <3> QED BY <1>1, <1>3, <1>4, <2>1, <3>1
  <2>2. CASE i # ind
    BY <1>0, <1>1, <1>8, <2>2 DEF SlotInv
  <2> QED BY <2>1, <2>2
<1>12. UsedInv' /\ NewInv' /\ SmallInv' /\ LagInv' /\ ComInv' /\ RotationBounded'
  BY <1>0, <1>1 DEF UsedInv, NewInv, SmallInv, LagInv, ComInv, RotationBounded, Registered,
                    Small, Narrow
<1> QED BY <1>1, <1>9, <1>10, <1>11, <1>12, Silent DEF IInv

\* PHY_DC_IND preserves the invariant: in a small cell slot i holds a block of
\* control offset i, and the descriptor that is taken starts at 0.
LEMMA DcIndStep == ASSUME IInv, NEW lost, DcInd(lost) PROVE IInv'
<1> DEFINE full  == {i \in DOMAIN slots : slots[i] # EmptySlot}
           taken == IF dc_coqueue = None THEN {} ELSE full \ lost
           got(i) == [from |-> slots[i].from, co |-> slots[i].co,
                      counted |-> slots[i].co < dc_coqueue.com, sac |-> SlotSac(i)]
<1>0. /\ DcchTypeOK /\ UsedInv /\ NewInv /\ ExitInv /\ SlotInv /\ SmallInv /\ LagInv
      /\ ComInv /\ Attributed /\ RotationBounded
  BY DEF IInv
<1>1. /\ UNCHANGED <<CO_bitset, mac_co_sac, CO_successor, armed, late, asseming, assemed,
                     as_co, as_desc, dc_pq, left>>
      /\ phase = "dc" /\ phase' = "tick" /\ dc_coqueue' = None /\ fired' = {}
      /\ slots' = [i \in DOMAIN slots |-> EmptySlot]
  BY DEF DcInd, coVars, pktVars, asVars
<1>2. /\ received' = {got(i) : i \in taken}
      /\ exits' = exits \cup {slots[i].from : i \in {i \in taken : slots[i].exit}}
      /\ lostExit' = lostExit \cup
             {slots[i].from : i \in {i \in full \cap lost : slots[i].exit}}
  BY DEF DcInd
<1>3. DOMAIN slots = Slot /\ \A i \in full : i \in Slot /\ slots[i] # EmptySlot /\ slots[i] \in Block
  BY <1>0, SlotType DEF DcchTypeOK, Slot
<1>4. taken \subseteq full
  OBVIOUS
<1>5. ASSUME NEW i \in taken
      PROVE  /\ dc_coqueue # None /\ dc_coqueue \in Descriptor /\ dc_coqueue.com >= 1
             /\ i \in Slot /\ slots[i].from \in As /\ slots[i].co \in Co
             /\ SlotSac(i) \in As \cup {NoAs}
  <2>1. i \in Slot /\ slots[i].from \in As /\ slots[i].co \in Co
    BY <1>3 DEF Block
  <2>2. dc_coqueue # None /\ dc_coqueue \in Descriptor /\ dc_coqueue.com >= 1
    BY <1>0 DEF ComInv, DcchTypeOK
  <2>3. dc_coqueue.cos \in Nat /\ dc_coqueue.com \in 1 .. CoMax /\ i \in Nat
    BY <2>1, <2>2, DcchAssumption DEF Descriptor, Slot
  <2>4. (dc_coqueue.cos + i) % dc_coqueue.com \in Co
    BY <2>3, DcchAssumption DEF Co
  <2>5. SlotSac(i) \in As \cup {NoAs}
    BY <1>0, <2>4 DEF SlotSac, DcchTypeOK
  <2> QED BY <2>1, <2>2, <2>5
<1>6. received' \subseteq [from : As, co : Co, counted : BOOLEAN, sac : As \cup {NoAs}]
  <2>1. ASSUME NEW i \in taken
        PROVE  got(i) \in [from : As, co : Co, counted : BOOLEAN, sac : As \cup {NoAs}]
    BY <1>5
  <2> HIDE DEF got, taken
  <2> QED BY <1>2, <2>1
<1>7. ASSUME NEW b \in exits'
      PROVE  b \in exits \/ \E i \in taken : slots[i].exit /\ slots[i].from = b
  BY <1>2
<1>8. /\ exits' \subseteq As /\ lostExit' \subseteq As
  <2>1. \A i \in full : slots[i].from \in As
    BY <1>3 DEF Block
  <2> QED BY <1>0, <1>2, <1>4, <2>1 DEF DcchTypeOK
<1> HIDE DEF full, taken, got
<1>9. \A i \in Slot : slots'[i] = EmptySlot
  BY <1>1, <1>3
<1>10. DcchTypeOK'
  <2>1. None \in Descriptor
    BY DcchAssumption DEF None, Descriptor
  <2>2. slots' \in [0 .. DclMax - 1 -> [from : As, co : Co, exit : BOOLEAN] \cup {EmptySlot}]
    BY <1>1, <1>3 DEF Slot
  <2> QED BY <1>0, <1>1, <1>6, <1>8, <2>1, <2>2 DEF DcchTypeOK
<1>11. ExitInv'
  <2>1. ASSUME NEW b \in As, dc_pq[b].exit
        PROVE  b \in left /\ b \notin exits' /\ \E c \in Co : Registered(b, c)
    <3>1. /\ b \in left /\ b \notin exits /\ \E c \in Co : Registered(b, c)
          /\ \A i \in Slot : slots[i] # EmptySlot /\ slots[i].from = b => ~ slots[i].exit
      BY <1>0, <2>1 DEF ExitInv
    <3>2. SUFFICES ASSUME b \in exits' PROVE FALSE
      BY <3>1
    <3>3. PICK i \in taken : slots[i].exit /\ slots[i].from = b
      BY <1>7, <3>1, <3>2
    <3> QED BY <1>3, <1>4, <3>1, <3>3
  <2>2. ASSUME NEW b \in exits' PROVE b \in left /\ \E c \in Co : Registered(b, c)
    <3>1. CASE b \in exits
      BY <1>0, <3>1 DEF ExitInv
    <3>2. CASE \E i \in taken : slots[i].exit /\ slots[i].from = b
      <4>1. PICK i \in taken : slots[i].exit /\ slots[i].from = b
        BY <3>2
      <4>2. i \in Slot /\ slots[i] # EmptySlot
        BY <1>3, <1>4
      <4> QED BY <1>0, <4>1, <4>2 DEF ExitInv
    <3> QED BY <1>7, <3>1, <3>2
  <2>3. \A b, c : Registered(b, c) <=> Registered(b, c)'
    BY <1>1 DEF Registered
  <2> QED BY <1>1, <1>9, <2>1, <2>2, <2>3 DEF ExitInv
<1>12. SlotInv' /\ ComInv'
  BY <1>1, <1>9 DEF SlotInv, ComInv
<1>13. SmallInv'
  BY <1>0, <1>1 DEF SmallInv, Small, None
<1>14. LagInv'
  BY <1>0, <1>1 DEF LagInv, Registered
<1>15. UsedInv' /\ NewInv' /\ RotationBounded'
  BY <1>0, <1>1 DEF UsedInv, NewInv, RotationBounded, Narrow
<1>16. Attributed'
  <2> SUFFICES ASSUME Small, NEW r \in received', Registered(r.from, r.co)
               PROVE  (r.counted => r.sac = r.from) /\ (r.counted \/ late > 0)
    BY <1>1 DEF Attributed, Small, Registered
  <2>1. PICK i \in taken : r = got(i)
    BY <1>2
  <2>2. /\ r.from = slots[i].from /\ r.co = slots[i].co
        /\ r.counted = (slots[i].co < dc_coqueue.com) /\ r.sac = SlotSac(i)
    BY <2>1 DEF got
  <2>3. slots[i].co = i /\ slots[i].co \in as_co[slots[i].from]
    BY <1>0, <1>3, <1>4 DEF SlotInv
  <2>4. dc_coqueue.cos = 0
    BY <1>0 DEF SmallInv
  <2>5. dc_coqueue.com \in Nat /\ i \in Nat /\ i \in Co /\ slots[i].from \in As
    BY <1>5, <2>3, DcchAssumption DEF Descriptor, Co
  <2>6. ASSUME i < dc_coqueue.com PROVE SlotSac(i) = slots[i].from
    <3>1. (0 + i) % dc_coqueue.com = i
      BY <2>5, <2>6
    <3>2. mac_co_sac[i] = slots[i].from
      BY <2>2, <2>3 DEF Registered
    <3> QED BY <2>4, <3>1, <3>2 DEF SlotSac
  <2>7. ASSUME late = 0 PROVE i < dc_coqueue.com
    <3>1. Registered(slots[i].from, slots[i].co)
      BY <2>2
    <3>2. \A a \in As : \A c \in as_co[a] : Registered(a, c) => c < dc_coqueue.com
      BY <1>0, <1>1, <2>7 DEF LagInv
    <3> QED BY <2>3, <2>5, <3>1, <3>2
  <2>8. late = 0 \/ late > 0
    BY <1>0, DcchAssumption DEF DcchTypeOK
  <2>9. r.counted = (i < dc_coqueue.com)
    BY <2>2, <2>3
  <2>10. r.counted => r.sac = r.from
    BY <2>2, <2>6, <2>9
  <2>11. late = 0 => r.counted
    BY <2>7, <2>9
  <2> QED BY <2>8, <2>10, <2>11
<1> QED BY <1>10, <1>11, <1>12, <1>13, <1>14, <1>15, <1>16 DEF IInv

-----------------------------------------------------------------------------
(***************************************************************************)
(* The theorems.                                                           *)
(***************************************************************************)

LEMMA StepIInv == IInv /\ [Next]_vars => IInv'
<1> SUFFICES ASSUME IInv, [Next]_vars PROVE IInv'
  OBVIOUS
<1>1. CASE TransCc
  BY <1>1, TransCcStep
<1>2. CASE CloseCc
  BY <1>2, CloseCcStep
<1>3. CASE CcSlot
  BY <1>3, SendCcStep DEF CcSlot
<1>4. CASE DcSlot
  BY <1>4, DcIndStep DEF DcSlot
<1>5. ASSUME NEW a \in As, Grant(a) PROVE IInv'
  BY <1>5, GrantStep
<1>6. ASSUME NEW a \in As, CellExit(a) PROVE IInv'
  BY <1>6, CellExitStep
<1>7. ASSUME NEW a \in As, Request(a) PROVE IInv'
  BY <1>7, RequestStep
<1>8. ASSUME NEW a \in As, Leave(a) PROVE IInv'
  BY <1>8, LeaveStep
<1>9. ASSUME NEW a \in As, NEW co \in Co, SendDc(a, co) PROVE IInv'
  BY <1>9, SendDcStep
<1>10. CASE UNCHANGED vars
  <2>1. UNCHANGED <<phase, CO_bitset, mac_co_sac, CO_successor, dc_coqueue, armed, late,
                    asseming, assemed, as_co, as_desc, dc_pq, left, fired, slots, received,
                    exits, lostExit>>
    BY <1>10 DEF vars, coVars, pktVars, asVars, dcVars
  <2>2. DcchTypeOK' /\ UsedInv' /\ NewInv' /\ SlotInv' /\ SmallInv'
    BY <2>1 DEF IInv, DcchTypeOK, UsedInv, NewInv, SlotInv, SmallInv, Small
  <2>3. ExitInv' /\ LagInv' /\ ComInv' /\ Attributed' /\ RotationBounded'
    BY <2>1 DEF IInv, ExitInv, LagInv, ComInv, Attributed, RotationBounded, Registered,
                Small, Narrow
  <2> QED BY <2>2, <2>3 DEF IInv
<1> QED BY <1>1, <1>2, <1>3, <1>4, <1>5, <1>6, <1>7, <1>8, <1>9, <1>10 DEF Next

LEMMA Invariance == Spec => []IInv
  BY InitIInv, StepIInv, PTL DEF Spec

\* Descriptors, packets, slots and queues hold what their formats allow, and the
\* successor stays within its uint8_t, in every reachable state.
THEOREM TypeCorrect == Spec => []DcchTypeOK
<1>1. IInv => DcchTypeOK
  BY DEF IInv
<1> QED BY <1>1, Invariance, PTL

\* For every number of stations, of control offsets and of late closings: as long
\* as at most DCL_MAX control offsets were ever assigned, PHY_DC_IND ascribes the
\* block of a registered station to its own SAC, although its descriptor is not
\* the one the station answered, unless it does not count the station's control
\* offset, which takes a packet that was closed late.
THEOREM RightStation == Spec => []Attributed
<1>1. IInv => Attributed
  BY DEF IInv
<1> QED BY <1>1, Invariance, PTL

\* As long as at most DCL_MAX control offsets were ever assigned, no registered
\* station writes over the block of another, whatever descriptors they missed.
THEOREM OneStationPerSlot == Spec => NoClash
<1> DEFINE Clash == \E i \in DOMAIN slots :
                       /\ slots[i] # EmptySlot /\ slots'[i] # EmptySlot
                       /\ slots'[i] # slots[i]
                       /\ Small
                       /\ Registered(slots[i].from, slots[i].co)
                       /\ Registered(slots'[i].from, slots'[i].co)
<1>1. IInv /\ [Next]_vars => [~ Clash]_vars
  <2> SUFFICES ASSUME IInv, [Next]_vars, Clash PROVE FALSE
    OBVIOUS
  <2>0. DcchTypeOK /\ SlotInv /\ SmallInv
    BY DEF IInv
  <2>1. PICK i \in DOMAIN slots :
            /\ slots[i] # EmptySlot /\ slots'[i] # EmptySlot
            /\ slots'[i] # slots[i]
            /\ Small
            /\ Registered(slots[i].from, slots[i].co)
            /\ Registered(slots'[i].from, slots'[i].co)
    OBVIOUS
  <2>2. i \in Slot /\ DOMAIN slots = Slot
    BY <2>0, <2>1 DEF DcchTypeOK, Slot
  <2>3. slots' # slots
    BY <2>1
  <2>4. CASE DcSlot
    <3>1. slots'[i] = EmptySlot
      BY <2>1, <2>4 DEF DcSlot, DcInd
    <3> QED BY <2>1, <3>1
  <2>5. ASSUME NEW a \in As, NEW co \in Co, SendDc(a, co) PROVE FALSE
    <3> DEFINE ind == SlotOf(a, co)
               blk == [from |-> a, co |-> co, exit |-> dc_pq[a].exit]
    <3>1. /\ a \notin fired
          /\ slots' = [j \in DOMAIN slots |-> IF j = ind THEN blk ELSE slots[j]]
      BY <2>5 DEF SendDc
    <3>2. blk.from = a /\ blk.co = co
      OBVIOUS
    <3>3. ind = co
      BY <2>0, <2>1 DEF SmallInv, SlotOf, Co
    <3> HIDE DEF ind, blk
    <3>4. i = ind /\ slots'[i] = blk
      BY <2>1, <3>1
    <3>5. slots[i].co = i /\ slots[i].from \in fired
      BY <2>0, <2>1, <2>2 DEF SlotInv
    <3>6. mac_co_sac[i] = slots[i].from /\ mac_co_sac[i] = a
      BY <2>1, <3>2, <3>3, <3>4, <3>5 DEF Registered
    <3> QED BY <3>1, <3>5, <3>6
  <2>6. CASE UNCHANGED slots
    BY <2>3, <2>6
  <2>7. TransCc \/ CloseCc \/ CcSlot \/ (\E a \in As : Grant(a) \/ CellExit(a) \/ Request(a) \/ Leave(a))
          => UNCHANGED slots
    BY DEF TransCc, CloseCc, CcSlot, SendCc, Grant, CellExit, Request, Leave, dcVars
  <2>8. UNCHANGED vars => UNCHANGED slots
    BY DEF vars, dcVars
  <2> QED BY <2>4, <2>5, <2>6, <2>7, <2>8 DEF Next
<1>2. [~ Clash]_vars => [\A i \in DOMAIN slots :
                            /\ slots[i] # EmptySlot /\ slots'[i] # EmptySlot
                            /\ slots'[i] # slots[i]
                            => ~ /\ Small
                                 /\ Registered(slots[i].from, slots[i].co)
                                 /\ Registered(slots'[i].from, slots'[i].co)]_vars
  OBVIOUS
<1> QED BY <1>1, <1>2, Invariance, PTL DEF Spec, NoClash

\* For every size of the cell and of CO_successor: unless the successor's width
\* is exceeded, it never runs past the highest control offset that was assigned,
\* whoever leaves, so that the next descriptor starts within the cell.
THEOREM RotationStays == Spec => []RotationBounded
<1>1. IInv => RotationBounded
  BY DEF IInv
<1> QED BY <1>1, Invariance, PTL
==============================================================================
