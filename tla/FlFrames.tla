------------------------------ MODULE FlFrames ------------------------------
(***************************************************************************)
(* The forward link of one cell, multiframe by multiframe: how the ground  *)
(* station collects control messages and granted data for a multiframe     *)
(* (trans_cc_func and resource_fl_alloc_cb of lme_rms.c, M_SAPC and M_SAPD *)
(* of mac.c), turns what it has collected into a frame                     *)
(* (generate_cc_pkt, generate_data_pkt, combine_cc_data of phy.c) and how  *)
(* a station takes the frame apart (upward_FL_CC_DCH_j of phy_sim_json.c,  *)
(* PHY_CC_IND and PHY_DATA_IND of mac.c, FL_ALLOC of dls.c).               *)
(*                                                                         *)
(* Three timers drive it, each in a thread of its own: the LME's tick at   *)
(* the start of a multiframe, the timer CC_MAC_INTVL later that closes the *)
(* collection ("slightly less than MF_TIMER", mac.c), and the PHY's tick   *)
(* 5 ms into the multiframe, which sends what was closed before.  A frame  *)
(* carries the second half of one packet's data and the first of the next. *)
(*                                                                         *)
(* Lengths count blocks; a data block is labelled with the multiframe and  *)
(* the station it was granted to and its place in the grant.  The grants   *)
(* are made only where the DLS runs its entities, not in its direct mode.  *)
(***************************************************************************)
EXTENDS Integers, Sequences, FiniteSets

CONSTANTS
    As,       \* stations, by SAC
    Demands,  \* what the round robin may grant in one multiframe
    Msg,      \* control messages of other parts (CELL_RESP, HO_COM, ACK, ...)
    NoNode,   \* a null cd_asseming_node, no frame on the air
    BlkLen,   \* FL_DATA_BLK_2_F_LEN_MAX
    Blk0Max,  \* FL_DATA_BLK_3_F_LEN_MAX: what a CC slot of one block leaves
    CcPer,    \* messages in a block of the CC slot
    CclMod,   \* values of the field CCL of a SLOT_DESC
    MfMax,    \* bound on the number of multiframes
    DataMf,   \* bound: the multiframes in which something is granted
    MustLate, \* BOOLEAN: may the closing timer be up to a multiframe late?
    Deaf      \* stations that may miss frames and fail to verify a CC_MAC

\* A node of cd_assemed_qs: control messages, FL_ALLOCs and the data of the grants.
NodeType == [msgs : SUBSET Msg,
             grants : SUBSET [mf : Nat, as : As, BO : Nat, BL : Nat, kept : BOOLEAN],
             dch : Seq([mf : Nat, as : As \cup {0}, i : Nat])]

\* A demand is a sequence of grants [as |-> station, bl |-> length].
ASSUME FlAssumption ==
    /\ BlkLen \in Nat \ {0} /\ Blk0Max \in Nat \ {0} /\ CcPer \in Nat \ {0}
    /\ CclMod \in Nat \ {0} /\ MfMax \in Nat
    /\ MustLate \in BOOLEAN /\ Deaf \subseteq As
    /\ \A d \in Demands : d \in Seq([as : As, bl : Nat])
    /\ NoNode \notin NodeType

VARIABLES
    mf,             \* multiframes the LME has begun
    tick,           \* ticks of the PHY
    todo,           \* grants trans_cc_func has still to make
    BO,             \* where the next grant begins
    armed,          \* closing timers that have not closed a packet
    closing,        \* BOOLEAN: is a closing timer between SLOT_DESC and CC_MAC?
    asseming,       \* cd_asseming_node
    assemed,        \* cd_assemed_qs
    data_next_mf,   \* the GS's: the half of the data that is still to be sent
    wire,           \* the frame on the air
    cached,         \* data_next_mf of a station: the first half of the data
    cc_pq,          \* FL_ALLOCs a station's cc thread has still to handle
    fl_alloc_queue, \* grants of a station that wait for their data
    pieces,         \* what stations handed to the DLS in the last step
    accepted,       \* accepted[m]: multiframe in which M_SAPC took m, or 0
    aired           \* messages sent, each with the tick of the PHY

lmeVars == <<mf, todo, BO>>
macVars == <<armed, closing, asseming, assemed>>
phyVars == <<tick, data_next_mf, wire>>
asVars  == <<cached, cc_pq, fl_alloc_queue>>
vars    == <<lmeVars, macVars, phyVars, asVars, pieces, accepted, aired>>

Zero    == [mf |-> 0, as |-> 0, i |-> 0]    \* a block of zeros
CcBlk   == [mf |-> 0, as |-> 0, i |-> 1]    \* a block of the CC slot
Blocks(a, l) == [i \in 1 .. l |-> [mf |-> mf, as |-> a, i |-> i]]
Zeros(n) == [i \in 1 .. n |-> Zero]

-----------------------------------------------------------------------------
(* Collecting a packet.                                                     *)

NewNode == [msgs |-> {}, grants |-> {}, dch |-> <<>>]

\* M_SAPC creates the node that is missing.
Node == IF asseming = NoNode THEN NewNode ELSE asseming

\* trans_cc_func.  The DCCH descriptor and the grants are left out as long as
\* no control offset is in use.
LmeTick ==
    /\ mf < MfMax
    /\ tick = mf /\ todo = <<>>
    /\ armed = 0 \/ (MustLate /\ armed = 1)
    /\ mf' = mf + 1
    /\ BO' = 0
    /\ armed' = armed + 1
    /\ \/ UNCHANGED <<todo, asseming>>
       \/ asseming' = Node /\ todo' \in (IF mf' \in DataMf THEN Demands ELSE {<<>>})
    /\ pieces' = {}
    /\ UNCHANGED <<closing, assemed, phyVars, asVars, accepted, aired>>

\* M_SAPD: the data is dropped if there is no node.
Put(n, data) == IF n = NoNode THEN n ELSE [n EXCEPT !.dch = @ \o data]

\* `kept' says that the data is as long as the grant and begins where the FL_ALLOC
\* says.
FlAlloc(g, l) == [mf |-> mf, as |-> g.as, BO |-> BO, BL |-> g.bl,
                  kept |-> asseming # NoNode /\ l = g.bl /\ Len(asseming.dch) = BO]

\* M_SAPC for a FL_ALLOC.
Announce(n, alloc) == [(IF n = NoNode THEN NewNode ELSE n) EXCEPT !.grants = @ \cup {alloc}]

\* One grant of resource_fl_alloc_cb: LME_R_IND has the DLS put up to as many
\* blocks into the node as the grant is long, then the FL_ALLOC joins it.
Grant ==
    /\ todo # <<>>
    /\ LET g == Head(todo) IN
       /\ \E l \in 0 .. g.bl :
             asseming' = Announce(Put(asseming, Blocks(g.as, l)), FlAlloc(g, l))
       /\ BO' = BO + g.bl
    /\ todo' = Tail(todo)
    /\ pieces' = {}
    /\ UNCHANGED <<mf, armed, closing, assemed, phyVars, asVars, accepted, aired>>

\* M_SAPC for any other message, from whichever thread.
CcMsg(m) ==
    /\ mf > 0 /\ accepted[m] = 0
    /\ accepted' = [accepted EXCEPT ![m] = mf]
    /\ asseming' = [Node EXCEPT !.msgs = @ \cup {m}]
    /\ pieces' = {}
    /\ UNCHANGED <<lmeVars, armed, closing, assemed, phyVars, asVars, aired>>

\* Mutant: the pointer survives the closing of the node.
StaysOpen(n) == n

AfterClosing(n) == NoNode

\* trans_cc_must_timer_func begins when the grants of its own multiframe are
\* made: its SLOT_DESC joins the node, or creates one.  Its SYNC_POLLs, and what
\* other threads have to say before its CC_MAC, join the same node (CcMsg).
SlotDesc ==
    /\ armed > 0 /\ ~closing
    /\ armed = 2 \/ todo = <<>>
    /\ closing' = TRUE
    /\ asseming' = Node
    /\ pieces' = {}
    /\ UNCHANGED <<lmeVars, armed, assemed, phyVars, asVars, accepted, aired>>

\* Its CC_MAC, on which M_SAPC queues the node.
CcMac ==
    /\ closing
    /\ closing' = FALSE
    /\ armed' = armed - 1
    /\ assemed' = Append(assemed, Node)
    /\ asseming' = AfterClosing(Node)
    /\ pieces' = {}
    /\ UNCHANGED <<lmeVars, phyVars, asVars, accepted, aired>>

-----------------------------------------------------------------------------
(* Sending a frame.                                                         *)

\* generate_cc_pkt: the length of the CC slot, in blocks.  The messages of a packet are
\* taken to fit cc_buf (CC_BLK_LEN_MAX).
CCL(n) == (Cardinality(n.msgs) + Cardinality(n.grants)) \div CcPer + 1

\* Mutant: the first data block takes no account of the CC slot.
Blk0Fixed(ccl) == Blk0Max

\* generate_data_pkt: what the CC slot leaves of slots 13 to 21.
Blk0Len(ccl) == Blk0Max - (ccl - 1)

FirstHalf(ccl) == Blk0Len(ccl) + BlkLen

\* generate_data_pkt: the data of all grants, one after the other, in a buffer
\* as long as all blocks together.
SduBuf(n) == [i \in 1 .. FirstHalf(CCL(n)) + 2 * BlkLen |->
                 IF i <= Len(n.dch) THEN n.dch[i] ELSE Zero]

\* Packets closed less packets waiting: numbers the frames.
FramesSent == mf - armed - Len(assemed)

\* combine_cc_data: the half of the last packet that is left, the CC slot with
\* the first data block, the second data block.
FrameOf(n) ==
    LET ccl == CCL(n) IN
    [slots1_12  |-> data_next_mf,
     slots13_21 |-> [i \in 1 .. ccl |-> CcBlk] \o SubSeq(SduBuf(n), 1, Blk0Len(ccl)),
     slots22_27 |-> SubSeq(SduBuf(n), Blk0Len(ccl) + 1, FirstHalf(ccl)),
     CCL        |-> ccl % CclMod,
     full       |-> ccl,
     grants     |-> n.grants,
     no         |-> FramesSent + 1]

\* combine_cc_data: the half it keeps for the next multiframe.
NextHalf(n) == SubSeq(SduBuf(n), FirstHalf(CCL(n)) + 1, FirstHalf(CCL(n)) + 2 * BlkLen)

\* P_SAPD, called for the CC slot and for the data: the second call sends.
Transmit(n) == /\ wire' = FrameOf(n)
               /\ data_next_mf' = NextHalf(n)

\* Mutant: a packet waits for its successor.
SomethingBehind(q) == Len(q) > 1

\* generate_cc_pkt returns LD_ERR_QUEUE if there is nothing.
SomethingToSend(q) == q # <<>>

\* trans_cc_timer_func: PHY_RTX_CC_IND and, if that succeeds, PHY_RTX_DATA_IND.
\* Nothing is sent in a multiframe that finds no packet.
PhyTick ==
    /\ tick < mf /\ wire = NoNode
    /\ tick' = tick + 1
    /\ IF SomethingToSend(assemed)
       THEN LET n == Head(assemed) IN
            /\ assemed' = Tail(assemed)
            /\ Transmit(n)
            /\ aired' = aired \cup {[m |-> m, tick |-> tick + 1] : m \in n.msgs}
       ELSE UNCHANGED <<assemed, wire, data_next_mf, aired>>
    /\ pieces' = {}
    /\ UNCHANGED <<lmeVars, armed, closing, asseming, asVars, accepted>>

-----------------------------------------------------------------------------
(* Receiving it.                                                            *)

\* upward_FL_CC_DCH_j: the length of the CC slot, by its SLOT_DESC.
CcPdu(f) == f.CCL

\* What upward_FL_CC_DCH_j caches of a frame.
FirstOf(f) == SubSeq(f.slots13_21, CcPdu(f) + 1, Len(f.slots13_21)) \o f.slots22_27

\* Mutant: the frame's halves are cached before its data is handed up.
CachedEarly(a, f) == FirstOf(f) \o f.slots1_12

\* The first half that is cached and the second that the frame brings.
Completed(a, f) == cached[a] \o f.slots1_12

\* PHY_DATA_IND: every grant that waits takes its part of the completed data.
PiecesOf(a, f) ==
    LET input == Completed(a, f) IN
    {[as |-> a, rec |-> r, no |-> f.no,
      data |-> SubSeq(input, r.BO + 1, r.BO + r.BL)] : r \in fl_alloc_queue[a]}

\* PHY_CC_IND: the messages are queued if the CC_MAC, at the end of the slot,
\* is there and verified.
AllocsHeard(f, verified) ==
    IF verified /\ CcPdu(f) = f.full
    THEN {[mf |-> g.mf, as |-> g.as, BO |-> g.BO, BL |-> g.BL, kept |-> g.kept,
           no |-> f.no, full |-> f.full] : g \in f.grants}
    ELSE {}

\* upward_FL_CC_DCH_j at every station that hears the frame: first the data, then
\* the CC slot, then the halves that the next frame will complete.  Where a frame
\* is lost, or its text cannot be decoded, everything cached stays.  The cc threads
\* are done with the previous frame by then.
RecvFrame(heard, verified) ==
    /\ wire # NoNode
    /\ \A a \in As : cc_pq[a] = {}
    /\ wire' = NoNode
    /\ pieces' = UNION {PiecesOf(a, wire) : a \in heard}
    /\ fl_alloc_queue' = [a \in As |-> IF a \in heard THEN {} ELSE fl_alloc_queue[a]]
    /\ cc_pq' = [a \in As |-> IF a \in heard THEN AllocsHeard(wire, a \in verified) ELSE {}]
    /\ cached' = [a \in As |-> IF a \in heard THEN FirstOf(wire) ELSE cached[a]]
    /\ UNCHANGED <<lmeVars, macVars, tick, data_next_mf, accepted, aired>>

\* FL_ALLOC in M_SAPC_D_cb.
OwnGrants(a) == {r \in cc_pq[a] : r.as = a}

\* mac_process_func of the cc thread, until its queue is empty.
CcThread(a) ==
    /\ cc_pq[a] # {}
    /\ cc_pq' = [cc_pq EXCEPT ![a] = {}]
    /\ fl_alloc_queue' = [fl_alloc_queue EXCEPT ![a] = @ \cup OwnGrants(a)]
    /\ pieces' = {}
    /\ UNCHANGED <<lmeVars, macVars, phyVars, cached, accepted, aired>>

-----------------------------------------------------------------------------
\* make_mac_layer, init_merge_buffers.
Init ==
    /\ mf = 0 /\ tick = 0 /\ todo = <<>> /\ BO = 0
    /\ armed = 0 /\ closing = FALSE /\ asseming = NoNode /\ assemed = <<>>
    /\ data_next_mf = Zeros(2 * BlkLen)
    /\ wire = NoNode
    /\ cached = [a \in As |-> Zeros(2 * BlkLen)]
    /\ cc_pq = [a \in As |-> {}] /\ fl_alloc_queue = [a \in As |-> {}]
    /\ pieces = {} /\ accepted = [m \in Msg |-> 0] /\ aired = {}

Next ==
    \/ LmeTick \/ Grant \/ SlotDesc \/ CcMac \/ PhyTick
    \/ \E m \in Msg : CcMsg(m)
    \/ \E missed, unverified \in SUBSET Deaf : RecvFrame(As \ missed, As \ unverified)
    \/ \E a \in As : CcThread(a)

Spec == Init /\ [][Next]_vars

-----------------------------------------------------------------------------
(* Properties.                                                              *)

\* The counters keep step, a frame fills its slots whatever the length of the
\* CC slot, at most three packets wait.
TypeOK ==
    /\ mf \in 0 .. MfMax /\ tick \in {mf - 1, mf} /\ armed \in 0 .. 2 /\ (closing => armed > 0)
    /\ BO \in Nat
    /\ Len(data_next_mf) = 2 * BlkLen
    /\ wire # NoNode => /\ Len(wire.slots13_21) = Blk0Max + 1
                        /\ Len(wire.slots22_27) = BlkLen
    /\ Len(assemed) <= 3

\* What a station hands up under a grant is the data put for that grant, all of
\* it and in order, whatever the lengths of the CC slots and of the other
\* grants: if the data was put where the FL_ALLOC says, and if no frame was
\* missed between its two halves, unless it lies in the first.
RightPiece ==
    \A p \in pieces :
       (p.rec.kept /\ (p.no = p.rec.no + 1 \/ p.rec.BO + p.rec.BL <= FirstHalf(p.rec.full)))
       => p.data = [i \in 1 .. p.rec.BL |-> [mf |-> p.rec.mf, as |-> p.as, i |-> i]]

\* No control message is sent twice, although three threads share the node that
\* is being assembled.
OnceOnAir == \A x, y \in aired : x.m = y.m => x = y

\* A control message taken over in one multiframe is on the air by the third one
\* after it, even if the closing timer is late: a multiframe that found nothing to
\* send puts off all later packets, but only by one multiframe and only once.
Latency ==
    \A m \in Msg : accepted[m] # 0 =>
       \/ tick < accepted[m] + 3
       \/ \E x \in aired : x.m = m /\ x.tick <= accepted[m] + 3

=============================================================================
