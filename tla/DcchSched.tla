------------------------------ MODULE DcchSched ------------------------------
(***************************************************************************)
(* The dedicated control channel of one cell: the rotation of the DCCH     *)
(* descriptor (trans_cc_dd_func of lme_rms.c), the descriptor's way to the *)
(* aircraft stations in a CC packet, their choice of a DC slot (judge_co,  *)
(* generate_dc_pkt of mac.c) and the attribution of the received slots     *)
(* (PHY_DC_IND of mac.c), while stations enter and leave the cell.         *)
(*                                                                         *)
(* A multiframe passes through three phases: "tick", when the LME's timer  *)
(* draws up a descriptor; "air", 5 ms later, when the PHY sends the CC     *)
(* packet that was closed before; "dc", when the stations fill their DC    *)
(* slots and the PHY hands them to the GS's MAC.  A descriptor goes two    *)
(* ways from the LME: into dc_coqueue, whose head PHY_DC_IND takes in the  *)
(* same multiframe, and into the CC packet, which another timer closes     *)
(* near the end of the multiframe and which is sent in the next.  The GS   *)
(* so takes the slots in by a descriptor one younger than the one the      *)
(* stations fill them by, and two younger after the timer was late once.   *)
(*                                                                         *)
(* A station enters the cell at most once (see CellEntry for the rest).    *)
(***************************************************************************)
EXTENDS Integers, Sequences, FiniteSets

CONSTANTS
    As,       \* aircraft stations; a station is also its own SAC
    Leaver,   \* those that may leave the cell
    NoAs,     \* what mac_co_sac holds for a CO that was never assigned
    CoMax,    \* CO_MAX: number of control offsets
    DclMax,   \* DCL_MAX: control offsets polled per multiframe
    SuccMod,  \* number of values of CO_successor (a uint8_t)
    SduLen,   \* DC_SDU_LEN_MAX
    ExitLen,  \* length of a CELL_EXIT
    RqstLen,  \* length of a RSC_RQST
    MaxRqst,  \* bound: MaxRqst[a] RSC_RQSTs wait at station a
    MaxLate,  \* bound: how often the closing timer is late, by up to a multiframe
    Deaf      \* stations that may miss a CC packet or fail to verify it; if
              \* there are any, the GS may miss DC slots

ASSUME DcchAssumption == /\ Leaver \subseteq As /\ Deaf \subseteq As
                         /\ NoAs \notin As
                         /\ CoMax \in Nat \ {0}
                         /\ DclMax \in Nat \ {0}
                         /\ SuccMod \in Nat /\ DclMax < SuccMod
                         /\ SduLen \in Nat /\ ExitLen \in 1 .. SduLen
                         /\ RqstLen \in Nat \ {0}
                         /\ MaxRqst \in [As -> Nat]
                         /\ MaxLate \in Nat

Co == 0 .. CoMax - 1

None == [cos |-> 0, col |-> 0, com |-> 0]   \* no descriptor: COM.value == 0

Descriptor == [cos : Nat, col : 0 .. DclMax, com : 0 .. CoMax]

VARIABLES
    phase,        \* phase of the multiframe
    CO_bitset,    \* control offsets in use
    mac_co_sac,   \* whom the GS believes to hold a control offset
    CO_successor, \* where the next descriptor starts
    dc_coqueue,   \* the descriptor waiting for PHY_DC_IND, or None
    armed,        \* closing timers that have not closed a packet
    late,         \* history: how often a closing timer was late
    asseming,     \* cd_asseming_node
    assemed,      \* cd_assemed_qs: closed CC packets
    as_co,        \* as_co[a]: control offsets in lme_as_man.CO of station a
    as_desc,      \* as_desc[a]: COS, COL, COM at station a
    dc_pq,        \* dc_pq[a]: control messages waiting at station a
    left,         \* stations whose LME has left the cell
    fired,        \* stations that have sent in this multiframe
    slots,        \* slots[i]: the block in DC slot i, or EmptySlot
    received,     \* what PHY_DC_IND made of the slots in the last step
    exits,        \* CELL_EXITs in the GS's dc_pq
    lostExit      \* history: stations whose CELL_EXIT did not come through

coVars  == <<CO_bitset, mac_co_sac, CO_successor>>
pktVars == <<armed, late, asseming, assemed>>
asVars  == <<as_co, as_desc, dc_pq, left>>
dcVars  == <<fired, slots>>
vars    == <<phase, coVars, dc_coqueue, pktVars, asVars, dcVars, received, exits, lostExit>>

-----------------------------------------------------------------------------
(* The descriptor.  *)

\* bs_get_highest of a bitset with members.
HighestCo(cos) == CHOOSE c \in cos : \A d \in cos : d <= c

\* bs_alloc_resource hands out the lowest free member.
LowestFree == CHOOSE c \in Co \ CO_bitset : \A d \in Co \ CO_bitset : c <= d

\* Mutant: all control offsets, although there are too few slots.
DescCOLUncapped(h) == h + 1

\* COL and SLOT_DESC.DCL.
DescCOL(h) == IF h + 1 >= DclMax THEN DclMax ELSE h + 1

\* Mutant: COM is the number of control offsets in use.
DcchDescCounts(s, h) == [cos |-> s, col |-> DescCOL(h), com |-> Cardinality(CO_bitset)]

DcchDesc(s, h) == [cos |-> s, col |-> DescCOL(h), com |-> h + 1]

\* Mutant: the rotation never returns.
NextSuccessorRuns(s, h) == (s + DescCOL(h)) % SuccMod

\* The update of CO_successor, in its own width.
NextSuccessor(s, h) ==
    LET sum == (s + DescCOL(h)) % SuccMod
    IN  IF sum > h THEN sum - (h + 1) ELSE sum

\* trans_cc_func and trans_cc_dd_func at the start of a multiframe.  The closing
\* timer is armed; the descriptor joins dc_coqueue and the packet that is open.
TransCc ==
    /\ phase = "tick"
    /\ armed = 0 \/ (armed = 1 /\ late < MaxLate)
    /\ phase' = "air"
    /\ armed' = armed + 1
    /\ late' = late + armed
    /\ IF CO_bitset = {}
       THEN UNCHANGED <<CO_successor, dc_coqueue, asseming>>
       ELSE LET h == HighestCo(CO_bitset) IN
            /\ dc_coqueue' = DcchDesc(CO_successor, h)
            /\ asseming' = [asseming EXCEPT !.descs = @ \cup {DcchDesc(CO_successor, h)}]
            /\ CO_successor' = NextSuccessor(CO_successor, h)
    /\ received' = {}
    /\ UNCHANGED <<CO_bitset, mac_co_sac, assemed, asVars, dcVars, exits, lostExit>>

-----------------------------------------------------------------------------
(* The CC packet.                                                           *)

NewNode == [descs |-> {}, resps |-> {}]

\* trans_cc_must_timer_func, near the end of its own multiframe or, if it is
\* late, in the next: M_SAPC queues the packet on the CC_MAC.
CloseCc ==
    /\ armed > 0
    /\ armed = 2 \/ phase # "air"
    /\ armed' = armed - 1
    /\ assemed' = Append(assemed, asseming)
    /\ asseming' = NewNode
    /\ received' = {}
    /\ UNCHANGED <<phase, coVars, dc_coqueue, late, asVars, dcVars, exits, lostExit>>

\* trans_cc_timer_func sends a closed packet, if there is one.  A station that
\* hears it takes the descriptor over while it parses the packet, the last one
\* of several, and the CELL_RESPs once the CC_MAC is verified (PHY_CC_IND;
\* CELL_RESP in M_SAPC_L_cb, add_co).
SendCc(heard, verified) ==
    /\ phase = "air"
    /\ phase' = "dc"
    /\ IF assemed = <<>>
       THEN UNCHANGED <<assemed, as_desc, as_co>>
       ELSE LET p == Head(assemed) IN
            /\ assemed' = Tail(assemed)
            /\ \E d \in IF p.descs = {} THEN {None} ELSE p.descs :
                  as_desc' = [a \in As |-> IF a \in heard /\ d # None
                                          THEN d ELSE as_desc[a]]
            /\ as_co' = [a \in As |-> as_co[a] \cup
                  {r.co : r \in {r \in p.resps : r.as = a /\ a \in verified}}]
    /\ received' = {}
    /\ UNCHANGED <<coVars, dc_coqueue, armed, late, asseming, dc_pq, left, dcVars,
                   exits, lostExit>>

-----------------------------------------------------------------------------
(* Entering and leaving the cell, as far as it concerns control offsets.    *)

\* D_SAPC_cb: a granted station gets the lowest free CO, the CELL_RESP joins
\* the packet that is open.  It may do so at any time, even after the descriptor
\* of that very packet was drawn up.
Grant(a) ==
    /\ a \notin left /\ \A c \in Co : mac_co_sac[c] # a
    /\ CO_bitset # Co
    /\ CO_bitset' = CO_bitset \cup {LowestFree}
    /\ mac_co_sac' = [mac_co_sac EXCEPT ![LowestFree] = a]
    /\ asseming' = [asseming EXCEPT !.resps = @ \cup {[as |-> a, co |-> LowestFree]}]
    /\ received' = {}
    /\ UNCHANGED <<phase, CO_successor, dc_coqueue, armed, late, assemed, asVars,
                   dcVars, exits, lostExit>>

\* clear_mac_CO.
FirstCo(a) == CHOOSE c \in Co : /\ mac_co_sac[c] = a
                               /\ \A d \in 0 .. c - 1 : mac_co_sac[d] # a

\* M_SAPC_L_cb, CELL_EXIT: clear_as_man frees the first CO that mac_co_sac
\* ascribes to the station; the entry itself stays.
CellExit(a) ==
    /\ a \in exits
    /\ exits' = exits \ {a}
    /\ CO_bitset' = CO_bitset \ {FirstCo(a)}
    /\ received' = {}
    /\ UNCHANGED <<phase, mac_co_sac, CO_successor, dc_coqueue, pktVars, asVars, dcVars,
                   lostExit>>

\* MAC_DCCH_REQ for a RSC_RQST, by an entity of the station's DLS.  Leaving the
\* cell stops neither the entity nor the DC timer.
Request(a) ==
    /\ as_co[a] # {} /\ dc_pq[a].rqsts < MaxRqst[a]
    /\ dc_pq' = [dc_pq EXCEPT ![a].rqsts = @ + 1]
    /\ received' = {}
    /\ UNCHANGED <<phase, coVars, dc_coqueue, pktVars, as_co, as_desc, left, dcVars,
                   exits, lostExit>>

\* exit_LME_CONN_OPEN_action: MAC_DCCH_REQ for the CELL_EXIT, which is sent once.
Leave(a) ==
    /\ a \in Leaver /\ as_co[a] # {} /\ a \notin left
    /\ dc_pq' = [dc_pq EXCEPT ![a].exit = TRUE]
    /\ left' = left \cup {a}
    /\ received' = {}
    /\ UNCHANGED <<phase, coVars, dc_coqueue, pktVars, as_co, as_desc, dcVars,
                   exits, lostExit>>

-----------------------------------------------------------------------------
(* The DC slot.                                                             *)

\* Mutant: the first control offset of the window is left out.
JudgeCoStrict(a, co) ==
    /\ as_desc[a].com # 0
    /\ co % as_desc[a].com > as_desc[a].cos
    /\ co % as_desc[a].com < as_desc[a].cos + as_desc[a].col

\* judge_co: the window does not wrap around COM, the CO does.
JudgeCo(a, co) ==
    /\ as_desc[a].com # 0
    /\ co % as_desc[a].com >= as_desc[a].cos
    /\ co % as_desc[a].com < as_desc[a].cos + as_desc[a].col

\* Mutant: the slot is counted modulo COM, as judge_co counts.
SlotOfModulo(a, co) == (co % as_desc[a].com) - as_desc[a].cos

\* generate_dc_pkt: the slot of a control offset.
SlotOf(a, co) == co - as_desc[a].cos

EmptySlot == [from |-> NoAs]

\* generate_dc_pkt: RSC_RQSTs of a queue that fit.  The CELL_EXIT, if there is
\* one, goes first; the loop stops when the block is longer than SduLen, so that
\* the checksum may be written over the end of the last message.
Fitting(q) ==
    LET len == IF q.exit THEN ExitLen ELSE 0
        fit == ((SduLen - len) \div RqstLen) + 1
    IN  IF q.rqsts <= fit THEN q.rqsts ELSE fit

\* Whose CELL_EXIT a block in slot i is written over.
Overwritten(i) == IF i \in DOMAIN slots /\ slots[i] # EmptySlot
                  THEN {b \in {slots[i].from} : slots[i].exit} ELSE {}

\* generate_dc_pkt with a message waiting, once in a multiframe.  What does not
\* fit stays in the queue.  A block that is in the slot already is overwritten;
\* there are DclMax slots, a block past them is lost.
SendDc(a, co) ==
    /\ phase = "dc" /\ a \notin fired
    /\ co \in as_co[a]
    /\ dc_pq[a].exit \/ dc_pq[a].rqsts > 0
    /\ JudgeCo(a, co)
    /\ fired' = fired \cup {a}
    /\ LET ind == SlotOf(a, co)
           blk == [from |-> a, co |-> co, exit |-> dc_pq[a].exit]
       IN  /\ slots' = [i \in DOMAIN slots |-> IF i = ind THEN blk ELSE slots[i]]
           /\ lostExit' = lostExit \cup Overwritten(ind)
    /\ dc_pq' = [dc_pq EXCEPT ![a] = [exit |-> FALSE, rqsts |-> @.rqsts - Fitting(@)]]
    /\ received' = {}
    /\ UNCHANGED <<phase, coVars, dc_coqueue, pktVars, as_co, as_desc, left, exits>>

\* The station PHY_DC_IND takes DC slot i to be from.
SlotSac(i) == mac_co_sac[(dc_coqueue.cos + i) % dc_coqueue.com]

\* PHY_DC_IND, after which the PHY clears the slots: those that come through are
\* attributed by the head of dc_coqueue; with no descriptor they are ignored.
\* The first one whose checksum is wrong ends the loop: together with the blocks
\* that do not arrive, any set of slots may be lost.  The SAC in a CELL_EXIT is
\* the station's own.
DcInd(lost) ==
    /\ phase = "dc"
    /\ phase' = "tick"
    /\ LET full  == {i \in DOMAIN slots : slots[i] # EmptySlot}
           taken == IF dc_coqueue = None THEN {} ELSE full \ lost
       IN  /\ received' = {[from |-> slots[i].from, co |-> slots[i].co,
                            counted |-> slots[i].co < dc_coqueue.com,
                            sac |-> SlotSac(i)] : i \in taken}
           /\ exits' = exits \cup {slots[i].from : i \in {i \in taken : slots[i].exit}}
           /\ lostExit' = lostExit \cup
                  {slots[i].from : i \in {i \in full \cap lost : slots[i].exit}}
    /\ dc_coqueue' = None
    /\ slots' = [i \in DOMAIN slots |-> EmptySlot]
    /\ fired' = {}
    /\ UNCHANGED <<coVars, pktVars, asVars>>

-----------------------------------------------------------------------------
Init ==
    /\ phase = "tick"
    /\ CO_bitset = {}
    /\ mac_co_sac = [c \in Co |-> NoAs]
    /\ CO_successor = 0
    /\ dc_coqueue = None
    /\ armed = 0 /\ late = 0
    /\ asseming = NewNode /\ assemed = <<>>
    /\ as_co = [a \in As |-> {}]
    /\ as_desc = [a \in As |-> None]
    /\ dc_pq = [a \in As |-> [exit |-> FALSE, rqsts |-> 0]]
    /\ left = {}
    /\ fired = {}
    /\ slots = [i \in 0 .. DclMax - 1 |-> EmptySlot]
    /\ received = {}
    /\ exits = {} /\ lostExit = {}

\* What may be lost of the DC slots.
Losses == IF Deaf = {} THEN {{}} ELSE SUBSET DOMAIN slots

CcSlot == \E missed \in SUBSET Deaf : \E unverified \in SUBSET Deaf :
             SendCc(As \ missed, As \ (missed \cup unverified))

DcSlot == \E lost \in Losses : DcInd(lost)

Next ==
    \/ TransCc \/ CloseCc
    \/ CcSlot
    \/ DcSlot
    \/ \E a \in As :
          \/ Grant(a)
          \/ CellExit(a)
          \/ Request(a)
          \/ Leave(a)
          \/ \E co \in Co : SendDc(a, co)

Spec == Init /\ [][Next]_vars

\* The timers of the GS go off, each when it is its turn.
Timers == TransCc \/ CloseCc \/ CcSlot \/ DcSlot

\* The air lets some packets with a descriptor through; the DC timer of a station
\* fires in every multiframe (trans_dc_timer_func), so that one that finds its
\* slot polled over and over does get to send; the GS takes up its CELL_EXIT.
Fairness ==
    /\ WF_vars(Timers)
    /\ SF_vars(assemed # <<>> /\ Head(assemed).descs # {} /\ SendCc(As, As))
    /\ \A a \in Leaver : SF_vars(\E co \in Co : SendDc(a, co)) /\ WF_vars(CellExit(a))

FairSpec == Spec /\ Fairness

-----------------------------------------------------------------------------
(***************************************************************************)
(* Properties                                                              *)
(***************************************************************************)
Packet == [descs : SUBSET Descriptor, resps : SUBSET [as : As, co : Co]]

\* Type invariant: descriptors, packets, slots and queues hold what the formats
\* allow.
DcchTypeOK ==
    /\ phase \in {"tick", "air", "dc"}
    /\ CO_bitset \subseteq Co
    /\ mac_co_sac \in [Co -> As \cup {NoAs}]
    /\ CO_successor \in 0 .. SuccMod - 1
    /\ dc_coqueue \in Descriptor
    /\ armed \in 0 .. 2 /\ late \in 0 .. MaxLate
    /\ asseming \in Packet /\ assemed \in Seq(Packet)
    /\ as_co \in [As -> SUBSET Co]
    /\ as_desc \in [As -> Descriptor]
    /\ dc_pq \in [As -> [exit : BOOLEAN, rqsts : Nat]]
    /\ \A a \in As : dc_pq[a].rqsts <= MaxRqst[a]
    /\ left \subseteq As /\ fired \subseteq As
    /\ slots \in [0 .. DclMax - 1 -> [from : As, co : Co, exit : BOOLEAN] \cup {EmptySlot}]
    /\ received \subseteq [from : As, co : Co, counted : BOOLEAN, sac : As \cup {NoAs}]
    /\ exits \subseteq As /\ lostExit \subseteq As

\* The GS holds control offset c in use, and ascribes it to station a.
Registered(a, c) == c \in CO_bitset /\ mac_co_sac[c] = a

\* No more control offsets than a multiframe polls have ever been assigned.
Small == \A c \in Co : mac_co_sac[c] # NoAs => c < DclMax

\* In a small cell the DC block of a registered station is ascribed to its own
\* SAC, although the station answers an older descriptor than the one the GS
\* decodes it by, a missed one even, and others enter and leave meanwhile: unless
\* the GS's descriptor does not count its control offset, which takes a CC packet
\* that was closed late.
Attributed ==
    Small => \A r \in received : Registered(r.from, r.co) =>
                /\ r.counted => r.sac = r.from
                /\ r.counted \/ late > 0

\* The same for a cell of any size, as "wait a bit for the CC" (phy.c:146) has it:
\* the stations answer the descriptor that has just been sent to them.
AttributedAlways ==
    \A r \in received : Registered(r.from, r.co) => r.sac = r.from

\* In a small cell two registered stations never fill the same DC slot, whatever
\* descriptors they missed.
NoClash ==
    [][\A i \in DOMAIN slots :
          /\ slots[i] # EmptySlot /\ slots'[i] # EmptySlot
          /\ slots'[i] # slots[i]
          => ~ /\ Small
               /\ Registered(slots[i].from, slots[i].co)
               /\ Registered(slots'[i].from, slots'[i].co)]_vars

\* The sum of successor and COL fits the width of CO_successor.
Narrow == \A c \in Co : mac_co_sac[c] # NoAs => c + DclMax < SuccMod

\* Unless its width is exceeded, CO_successor never runs past the highest control
\* offset that was ever assigned, whoever has left since: "while the CO successor
\* more than highest CO, return to 0 and keep counting" (lme_rms.c:188).
RotationBounded ==
    Narrow => CO_successor = 0 \/ \E c \in Co : mac_co_sac[c] # NoAs /\ CO_successor <= c

\* The GS polls every control offset it has assigned, over and over.
Polled(c) == dc_coqueue # None /\ dc_coqueue.cos <= c /\ c < dc_coqueue.cos + dc_coqueue.col

EveryCoPolled ==
    \A c \in Co : c \in CO_bitset ~> Polled(c) \/ c \notin CO_bitset

\* In a small cell the control offset of a station that leaves is freed, whatever
\* waits at the station and whoever sends what in which slot, unless the block
\* with its only CELL_EXIT does not come through.
ExitHandled ==
    \A a \in Leaver :
        a \in left ~> (\A c \in Co : ~ Registered(a, c)) \/ a \in lostExit \/ ~ Small
==============================================================================
