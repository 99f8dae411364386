----------------------------- MODULE RlTransfer -----------------------------
(***************************************************************************)
(* The reverse link of one cell with the DLS entities at both ends: a      *)
(* station asks for what it has queued (lineup_func, acquire_cyc_func of   *)
(* dls_entity.c), the ground station grants slots of the next multiframe   *)
(* (resource_rl_alloc_cb of lme_rms.c) and keeps a record of whom it gave  *)
(* them to (set_rpsos, delay_put_rpso of mac_util.c), the station fills    *)
(* them (dls_frag_func, generate_data_pkt), the ground station sorts what  *)
(* it finds in the slots by that record (PHY_DATA_IND of mac.c), puts it   *)
(* together (dls_reassy_func) and acknowledges it once in a multiframe     *)
(* (ack_cyc_func, recv_ack).  Nothing is ever sent a second time.          *)
(*                                                                         *)
(* The entities are made only where the DLS does not run in the direct     *)
(* mode that D_SAPD and D_SAPC fix with "if (1)"; the module is about the  *)
(* other mode, "config.direct" in the comment on that line.                *)
(*                                                                         *)
(* Lengths count SDUs: a block of the data channel holds Per of them, so   *)
(* none is cut into fragments.  There is one class of service.  The SDUs   *)
(* of a station are numbered as its window numbers them (PID), and stay    *)
(* within one turn of the window.  A DC frame with a RSC_RQST arrives when *)
(* it is sent or never does.                                               *)
(*                                                                         *)
(* A grant and its record go separate ways: the record sleeps for one      *)
(* multiframe, the grant waits until a timer closes the packet it is in,   *)
(* near the end of the multiframe.  When the timer is late, the two part   *)
(* for good; what is said below of the sorting of the slots, and of all    *)
(* that rests on it, is said for as long as it never was (late = 0).       *)
(***************************************************************************)
EXTENDS Integers, Sequences, FiniteSets, Functions

CONSTANTS
    As,       \* stations, by SAC
    Sdus,     \* Sdus[a]: bound on what the upper layer hands to station a
    WinSize,  \* DLS_WINDOW_SIZE: SDUs the window holds
    AckBits,  \* width of the field BITMAP of an ACK
    ReadBits, \* width of the variable recv_ack reads it into
    Per,      \* SDUs in a block (RL_DATA_BLK_LEN_MAX)
    SlotMax,  \* RL_SLOT_MAX
    COL,      \* slots of the dedicated channel, before those of the data
    Deaf,     \* stations that may miss a frame
    Lossy,    \* stations that may lose a RSC_RQST
    Slow,     \* stations whose cc thread may be held up until the PHY's tick
    MaxLate   \* bound: multiframes from the first in which the closing timer of
              \* the one before is still to come; 0: it never is late

ASSUME RlAssumption ==
    /\ As \subseteq Nat \ {0} /\ IsFiniteSet(As)
    /\ Deaf \subseteq As /\ Lossy \subseteq As /\ Slow \subseteq As
    /\ Sdus \in [As -> Nat]
    /\ {WinSize, AckBits, ReadBits, Per} \subseteq Nat \ {0}
    /\ COL \in Nat /\ SlotMax \in Nat /\ COL < SlotMax
    /\ MaxLate \in Nat

VARIABLES
    phase,          \* where the ground station is in the multiframe
    armed,          \* closing timers that have not closed a packet
    late,           \* history: multiframes since a closing timer was late, with
                    \* the first one; 0: none was
    assembling,     \* CC messages collected in the open packet
    assembled,      \* packets that are closed and wait for the PHY
    delayed,        \* the record delay_put_rpso sleeps with, if any
    rpso_queue,     \* records that wait for their slots
    rl_drr,         \* rl_drr[a]: requested of the round robin
    slots,          \* rl_slots of the PHY
    reassy_queue,   \* reassy_queue[s]: SDUs the entity of s has still to handle
    iwindow,        \* iwindow[s]: SDUs the entity of s has received
    ack_bitset,     \* ack_bitset[s]: PIDs to acknowledge
    acking,         \* acking[s]: the cycle of s has read ack_bitset, not yet
                    \* replaced it; told[s]: what it read
    told,
    lined,          \* lined[a]: SDUs the window of a has taken
    handed,         \* handed[a]: SDUs the upper layer has handed to a
    sent,           \* sent[a]: SDUs of a cut out of the window
    acked,          \* acked[a]: PIDs acknowledged
    cos_req_res,    \* cos_req_res[a]: to be requested
    cc_pq,          \* cc_pq[a]: CC messages the cc thread of a has to handle
    RPSO, NRPS,     \* parameters of the grant of a, by set_rl_param
    frag,           \* frag[a]: blocks the cc thread is about to cut, or 0
    rl_data_q,      \* rl_data_q[a]: PDUs, each the set of its SDUs
    ticked,         \* stations whose PHY has had its tick in this multiframe
    missed,         \* missed[a]: SDUs whose request or grant got lost
    lost            \* lost[a]: SDUs lost, or whose acknowledgement was

gsvars == <<phase, armed, late, assembling, assembled, delayed, rpso_queue, rl_drr>>
envars == <<reassy_queue, iwindow, ack_bitset, acking, told>>
winvars == <<lined, handed, sent, acked, cos_req_res>>
asvars == <<cc_pq, RPSO, NRPS, frag, rl_data_q, ticked>>
vars == <<gsvars, slots, envars, winvars, asvars, missed, lost>>

Slot == 0 .. SlotMax - 1
NoAs == 0
Empty == [as |-> NoAs, sdus |-> {}]    \* a null pointer in the slots
NoGrant == [as |-> NoAs, n |-> 0]      \* what calloc leaves in rpsos
Pids(a) == 1 .. Sdus[a]

Init ==
    /\ phase = "begin" /\ armed = 0 /\ late = 0
    /\ assembling = {} /\ assembled = <<>>
    /\ delayed = <<>> /\ rpso_queue = <<>>
    /\ rl_drr = [a \in As |-> 0]
    /\ slots = [i \in Slot |-> Empty]
    /\ reassy_queue = [s \in As |-> {}] /\ iwindow = [s \in As |-> {}]
    /\ ack_bitset = [s \in As |-> {}]
    /\ acking = [s \in As |-> FALSE] /\ told = [s \in As |-> {}]
    /\ lined = [a \in As |-> 0] /\ handed = [a \in As |-> 0]
    /\ sent = [a \in As |-> 0] /\ acked = [a \in As |-> {}]
    /\ cos_req_res = [a \in As |-> 0]
    /\ cc_pq = [a \in As |-> {}]
    /\ RPSO = [a \in As |-> 0] /\ NRPS = [a \in As |-> 0]
    /\ frag = [a \in As |-> 0] /\ rl_data_q = [a \in As |-> <<>>]
    /\ ticked = As
    /\ missed = [a \in As |-> 0] /\ lost = [a \in As |-> {}]

-----------------------------------------------------------------------------
(* A station asks for resources.                                           *)

\* SDUs the window holds: it moves on over what is acknowledged in order.
InWindow(a) == {i \in 1 .. lined[a] : ~(1 .. i \subseteq acked[a])}

\* D_SAPD: there is more in the queues of the entity.
Waiting(a) == handed[a] < Sdus[a]

\* lineup_func: an SDU the window has no room for is gone.
Lineup(a) ==
    /\ Waiting(a)
    /\ handed' = [handed EXCEPT ![a] = @ + 1]
    /\ IF Cardinality(InWindow(a)) < WinSize
         THEN /\ lined' = [lined EXCEPT ![a] = @ + 1]
              /\ cos_req_res' = [cos_req_res EXCEPT ![a] = @ + 1]
         ELSE UNCHANGED <<lined, cos_req_res>>
    /\ UNCHANGED <<gsvars, slots, envars, sent, acked, asvars, missed, lost>>

\* Mutant: a request replaces what is left of the one before.
Replaced(a) == cos_req_res[a]

\* DC_TYP_RSC_RQST of M_SAPC_L_cb.
Requested(a) == rl_drr[a] + cos_req_res[a]

\* acquire_cyc_func, and the RSC_RQST, if it arrives.
Acquire(a) ==
    /\ cos_req_res[a] > 0
    /\ \/ /\ rl_drr' = [rl_drr EXCEPT ![a] = Requested(a)]
          /\ UNCHANGED missed
       \/ /\ a \in Lossy
          /\ missed' = [missed EXCEPT ![a] = @ + cos_req_res[a]]
          /\ UNCHANGED rl_drr
    /\ cos_req_res' = [cos_req_res EXCEPT ![a] = 0]
    /\ UNCHANGED <<phase, armed, late, assembling, assembled, delayed, rpso_queue,
                   slots, envars, lined, handed, sent, acked, asvars, lost>>

-----------------------------------------------------------------------------
(* The ground station grants slots.                                        *)

Total(f) == SumFunctionOnSet(f, As)

\* What the round robin may give: all that is asked for, if there is room.
Shares ==
    LET room == (SlotMax - COL) * Per IN
    {g \in [As -> 0 .. room] :
        /\ \A a \in As : g[a] <= rl_drr[a]
        /\ \/ g = rl_drr
           \/ Total(g) = room}

Blocks(sz) == (sz + Per - 1) \div Per
AllBlocks(g) == [a \in As |-> Blocks(g[a])]

\* resource_rl_alloc_cb goes through the stations by SAC.  A grant counts
\* whole blocks, so the last ones may find no room: then the loop ends, after
\* the round robin has taken the request for served.
Before(g, a) == SumFunctionOnSet(AllBlocks(g), {b \in As : b < a})
Start(g, a) == COL + Before(g, a)

\* Mutant: avail_sz is not looked at.
Unchecked(g, a) == g[a] > 0

Fits(g, a) == g[a] > 0 /\ Start(g, a) + Blocks(g[a]) <= SlotMax

Granted(g) == {a \in As : Fits(g, a)}

\* The messages of the grants.  A packet that is closed late holds those of
\* two ticks; "tick" tells them apart.
RlAllocs(g) ==
    {[typ |-> "RL_ALLOC", as |-> a, rpso |-> Start(g, a), nrps |-> Blocks(g[a]),
      sz |-> g[a], tick |-> armed] : a \in Granted(g)}

Record(g) ==
    [start |-> COL + SumFunctionOnSet(AllBlocks(g), Granted(g)),
     rpsos |-> [i \in Slot |->
        IF \E a \in Granted(g) : Start(g, a) = i
          THEN LET a == CHOOSE b \in Granted(g) : Start(g, b) = i
               IN  [as |-> a, n |-> Blocks(g[a])]
          ELSE NoGrant]]

\* Mutant: set_rpsos puts the record into the queue itself.
JoinsAtOnce(r) == <<r>>

\* delay_put_rpso: the record of a grant joins the queue a multiframe later,
\* when the slots it is about are being filled.
Joining(r) == delayed

\* The LME's tick, trans_cc_func.  It arms the timer that closes the packet;
\* the one before may not have gone off yet.
LmeTick ==
    /\ phase = "begin"
    /\ armed < 2
    /\ armed' = armed + 1
    /\ IF armed = 0 /\ late = 0
         THEN UNCHANGED late
         ELSE late < MaxLate /\ late' = late + 1
    /\ \E g \in Shares :
        /\ rl_drr' = [a \in As |-> rl_drr[a] - g[a]]
        /\ assembling' = assembling \cup RlAllocs(g)
        /\ rpso_queue' = rpso_queue \o Joining(Record(g))
        /\ delayed' = <<Record(g)>>
        /\ missed' = [a \in As |->
             missed[a] + (IF a \in Granted(g) THEN 0 ELSE g[a])]
    /\ phase' = "air"
    /\ UNCHANGED <<assembled, slots, envars, winvars, asvars, lost>>

\* trans_cc_must_timer_func: the packet is closed by a CC_MAC, near the end of
\* its own multiframe or, when the timer is late, in the next one, on either
\* side of the frame.
CloseCc ==
    /\ armed > 0
    /\ armed = 2 \/ phase = "begin"
    /\ armed' = armed - 1
    /\ assembled' = Append(assembled, assembling)
    /\ assembling' = {}
    /\ UNCHANGED <<phase, late, delayed, rpso_queue, rl_drr, slots, envars,
                   winvars, asvars, missed, lost>>

\* What the messages of M grant to station a.
RlAllocsTo(M, a) == {m \in M : m.typ = "RL_ALLOC" /\ m.as = a}
GrantsIn(M, a) == SumFunction([m \in RlAllocsTo(M, a) |-> m.sz])

AcksIn(M, a) ==
    UNION {m.bitmap : m \in {n \in M : n.typ = "ACK" /\ n.as = a}}

\* What the PHY sends: the first packet that is closed, if there is one.
Frame == IF assembled = <<>> THEN {} ELSE Head(assembled)

\* The PHY's tick; each station takes from the frame what has its SAC, unless
\* it misses the frame.  It is through with a frame when the next one comes.
CcFrame ==
    /\ phase = "air"
    /\ \A a \in As : cc_pq[a] = {} /\ frag[a] = 0
    /\ \E deaf \in SUBSET Deaf :
        /\ cc_pq' = [a \in As |-> IF a \in deaf THEN {}
             ELSE {m \in Frame : m.as = a}]
        /\ missed' = [a \in As |-> IF a \in deaf
             THEN missed[a] + GrantsIn(Frame, a) ELSE missed[a]]
        /\ lost' = [a \in As |-> IF a \in deaf
             THEN lost[a] \cup AcksIn(Frame, a) ELSE lost[a]]
    /\ assembled' = IF assembled = <<>> THEN <<>> ELSE Tail(assembled)
    /\ phase' = "data" /\ ticked' = {}
    /\ UNCHANGED <<armed, late, assembling, delayed, rpso_queue, rl_drr, slots, envars,
                   winvars, RPSO, NRPS, frag, rl_data_q>>

-----------------------------------------------------------------------------
(* A station fills the slots.  Its cc thread and its PHY's timer share the *)
(* parameters of the grant and the queue of PDUs.                          *)

SetParam(a, rpso, nrps) ==
    /\ RPSO' = [RPSO EXCEPT ![a] = rpso]
    /\ NRPS' = [NRPS EXCEPT ![a] = nrps]

\* C_TYP_RL_ALLOC of M_SAPC_D_cb, up to the return of set_rl_param.
SetRlParam(a) ==
    /\ frag[a] = 0
    /\ \E m \in cc_pq[a] :
        /\ m.typ = "RL_ALLOC"
        /\ cc_pq' = [cc_pq EXCEPT ![a] = @ \ {m}]
        /\ SetParam(a, m.rpso, m.nrps)
        /\ frag' = [frag EXCEPT ![a] = m.nrps]
    /\ UNCHANGED <<gsvars, slots, envars, winvars, rl_data_q, ticked, missed,
                   lost>>

\* dls_frag_func, and M_SAPD: a PDU of what the window has, up to the blocks
\* granted; an empty one, if it has nothing.
Cut(a) == {i \in 1 .. lined[a] : i > sent[a] /\ i <= sent[a] + frag[a] * Per}

DlsFrag(a) ==
    /\ frag[a] > 0
    /\ rl_data_q' = [rl_data_q EXCEPT ![a] = Append(@, Cut(a))]
    /\ sent' = [sent EXCEPT ![a] = @ + Cardinality(Cut(a))]
    /\ frag' = [frag EXCEPT ![a] = 0]
    /\ UNCHANGED <<gsvars, slots, envars, lined, handed, acked, cos_req_res,
                   cc_pq, RPSO, NRPS, ticked, missed, lost>>

\* What goes into a slot of the grant: block k, from 0, of a PDU.
Block(pdu, k) ==
    {i \in pdu : Cardinality({j \in pdu : j < i}) \div Per = k}

\* The slots with something in them, which the PHY packs: those of the grant
\* the parameters are about, if there is a PDU.
Occupied(a, pdu) ==
    IF pdu = {} THEN {} ELSE RPSO[a] .. RPSO[a] + NRPS[a] - 1

\* The slots of the ground station, when they have been unpacked.
Filled(a, pdu) ==
    [i \in Slot |-> IF i \in Occupied(a, pdu)
                      THEN [as |-> a, sdus |-> Block(pdu, i - RPSO[a])]
                      ELSE slots[i]]

\* generate_data_pkt of a station, by the PHY's timer 5 ms after the frame:
\* the next PDU goes to the slots of the last grant, whichever grant it was
\* cut for, and the parameters are cleared.
DataTick(a) ==
    /\ phase = "data" /\ a \notin ticked
    /\ IF frag[a] > 0 THEN a \in Slow ELSE cc_pq[a] = {}
    /\ ticked' = ticked \cup {a}
    /\ LET pdu == IF rl_data_q[a] = <<>> THEN {} ELSE Head(rl_data_q[a])
       IN  /\ slots' = Filled(a, pdu)
           /\ lost' = [lost EXCEPT ![a] = @ \cup (pdu \
                UNION {Block(pdu, i - RPSO[a]) : i \in Occupied(a, pdu)})]
    /\ rl_data_q' = [rl_data_q EXCEPT ![a] = IF @ = <<>> THEN @ ELSE Tail(@)]
    /\ SetParam(a, 0, 0)
    /\ UNCHANGED <<gsvars, envars, winvars, cc_pq, frag, missed>>

-----------------------------------------------------------------------------
(* The ground station takes the slots apart and acknowledges.              *)

\* PHY_DATA_IND of P_SAPD_cb: the slots at which the loop looks.  It goes on
\* by one from an empty slot and by the length of the grant from another.
Looked(r) ==
    LET at[i \in 0 .. r.start] ==
          i = 0 \/ \E j \in 0 .. i - 1 :
            at[j] /\ i = j + (IF slots[j] = Empty THEN 1 ELSE r.rpsos[j].n)
    IN  {i \in 0 .. r.start - 1 : at[i] /\ slots[i] # Empty}

Contents(J) ==
    UNION {{[as |-> slots[j].as, pid |-> p] : p \in slots[j].sdus} : j \in J}

\* Mutant: only the first block of a grant is taken.
FoundFirst(r, s) == Contents({k \in Looked(r) : r.rpsos[k].as = s})
\* What the entity of s gets: M_SAPD_cb of dls.c.
Found(r, s) ==
    Contents(UNION {i .. i + r.rpsos[i].n - 1 :
                      i \in {k \in Looked(r) : r.rpsos[k].as = s}})

\* The loop over the slots gets past each of them.
LoopEnds(r) == \A i \in Looked(r) : r.rpsos[i].n > 0

\* rl_data_upload: the slots are empty afterwards, whether there was a record
\* for them or not.  It does not return from a loop without end.
RlDataUpload ==
    /\ phase = "data" /\ ticked = As
    /\ rpso_queue # <<>> => LoopEnds(Head(rpso_queue))
    /\ reassy_queue' =
         IF rpso_queue = <<>> THEN reassy_queue
           ELSE [s \in As |-> reassy_queue[s] \cup Found(Head(rpso_queue), s)]
    /\ rpso_queue' = IF rpso_queue = <<>> THEN <<>> ELSE Tail(rpso_queue)
    /\ slots' = [i \in Slot |-> Empty]
    /\ phase' = "begin"
    /\ UNCHANGED <<armed, late, assembling, assembled, delayed, rl_drr,
                   iwindow, ack_bitset, acking, told, winvars, asvars, missed, lost>>

\* dls_reassy_func, one SDU after the other.
DlsReassy(s) ==
    /\ \E d \in reassy_queue[s] :
        /\ \A e \in reassy_queue[s] : d.pid <= e.pid
        /\ reassy_queue' = [reassy_queue EXCEPT ![s] = @ \ {d}]
        /\ iwindow' = [iwindow EXCEPT ![s] = @ \cup {d}]
        /\ ack_bitset' = [ack_bitset EXCEPT ![s] = @ \cup {d.pid}]
    /\ UNCHANGED <<gsvars, slots, acking, told, winvars, asvars,
                   missed, lost>>

\* get_bitmap: as many PIDs as the field holds, from the lowest.
Bitmap(P) == {p \in P : \A q \in P : p < q + AckBits}

\* ack_cyc_func, by a timer, as far as the message.  Cycles with nothing to
\* acknowledge, now or while they last, are left out.
AckCycle(s) ==
    /\ ~acking[s]
    /\ ack_bitset[s] # {} \/ reassy_queue[s] # {}
    /\ acking' = [acking EXCEPT ![s] = TRUE]
    /\ told' = [told EXCEPT ![s] = Bitmap(ack_bitset[s])]
    /\ assembling' = IF ack_bitset[s] = {} THEN assembling
         ELSE assembling \cup {[typ |-> "ACK", as |-> s,
                                bitmap |-> Bitmap(ack_bitset[s])]}
    /\ UNCHANGED <<phase, armed, late, assembled, delayed, rpso_queue, rl_drr,
                   slots, reassy_queue, iwindow, ack_bitset, winvars, asvars,
                   missed, lost>>

\* The end of ack_cyc_func: the bitset is replaced by an empty one, with all
\* that dls_reassy_func has recorded in it since.
Fresh(P) == {}

AckFresh(s) ==
    /\ acking[s]
    /\ acking' = [acking EXCEPT ![s] = FALSE]
    /\ told' = [told EXCEPT ![s] = {}]
    /\ ack_bitset' = [ack_bitset EXCEPT ![s] = Fresh(@)]
    /\ lost' = [lost EXCEPT ![s] = @ \cup (ack_bitset[s] \ told[s])]
    /\ UNCHANGED <<gsvars, slots, reassy_queue, iwindow, winvars,
                   asvars, missed>>

\* Mutant: the bits are counted from 1 (int offset = 1).
OffByOne(P) == {p + 1 : p \in {q \in P : \A r \in P : q < r + ReadBits}}
\* recv_ack of the station: the bits its variable holds.
Acknowledged(P) == {p \in P : \A q \in P : p < q + ReadBits}

RecvAck(a) ==
    /\ frag[a] = 0 /\ \A m \in cc_pq[a] : m.typ = "ACK"
    /\ \E m \in cc_pq[a] :
        /\ cc_pq' = [cc_pq EXCEPT ![a] = @ \ {m}]
        /\ acked' = [acked EXCEPT ![a] = @ \cup Acknowledged(m.bitmap)]
        /\ lost' = [lost EXCEPT ![a] = @ \cup
                      (m.bitmap \ Acknowledged(m.bitmap))]
    /\ UNCHANGED <<gsvars, slots, envars, lined, handed, sent, cos_req_res,
                   RPSO, NRPS, frag, rl_data_q, ticked, missed>>

-----------------------------------------------------------------------------
StationStep(a) ==
    \/ Lineup(a) \/ Acquire(a) \/ SetRlParam(a) \/ DlsFrag(a) \/ DataTick(a)
    \/ RecvAck(a)
EntityStep(s) == DlsReassy(s) \/ AckCycle(s) \/ AckFresh(s)

Next ==
    \/ LmeTick \/ CloseCc \/ CcFrame \/ RlDataUpload
    \/ \E a \in As : StationStep(a) \/ EntityStep(a)

Spec == Init /\ [][Next]_vars

-----------------------------------------------------------------------------
\* Types, and what bounds the rest, whatever the timers do: at most one record
\* waits for its slots, a grant ends within the slots (resource_rl_alloc_cb),
\* what is sent was in the window, and the window never holds more than it has
\* room for (lineup_func).
RlTypeOK ==
    /\ phase \in {"begin", "air", "data"}
    /\ armed \in 0 .. 2 /\ late \in 0 .. MaxLate
    /\ Len(rpso_queue) <= 1 /\ Len(delayed) <= 1
    /\ \A r \in {rpso_queue[i] : i \in 1 .. Len(rpso_queue)} :
         r.start \in COL .. SlotMax
    /\ \A a \in As :
        /\ rl_drr[a] \in 0 .. Sdus[a] /\ cos_req_res[a] \in 0 .. Sdus[a]
        /\ RPSO[a] \in {0} \cup COL .. SlotMax - 1
        /\ RPSO[a] + NRPS[a] <= SlotMax
        /\ sent[a] <= lined[a] /\ lined[a] <= handed[a]
        /\ Cardinality(InWindow(a)) <= WinSize
        /\ late = 0 =>
             \A p \in acked[a] \cup ack_bitset[a] \cup told[a] : p \in Pids(a)

\* As long as no packet was closed late, what an entity of the ground station
\* gets was sent by its own station: the record by which the slots of a
\* multiframe are sorted (P_SAPD_cb) is the one of the grants they were filled
\* by, whoever misses his grant or is late with his PDU.  The loop over the
\* slots ends: it never looks at a block where the record has no grant, for
\* which it would not go on.
RightEntity ==
    late = 0 =>
      /\ \A s \in As : \A d \in reassy_queue[s] \cup iwindow[s] : d.as = s
      /\ phase = "data" /\ rpso_queue # <<>> => LoopEnds(Head(rpso_queue))

\* As long as no packet was closed late, an acknowledgement is true: the SDU
\* has arrived (recv_ack against ack_cyc_func, which count bits from the lowest
\* PID on either side).
AckedReceived ==
    late = 0 =>
      \A a \in As : \A p \in acked[a] : [as |-> a, pid |-> p] \in iwindow[a]

\* What the closed packets hold; there is at most one as long as none is late.
Closed == UNION {assembled[i] : i \in 1 .. Len(assembled)}

\* Where an SDU of station a that is not acknowledged may be, or the ACK of it.
UnderWay(a) ==
    (UNION {rl_data_q[a][i] : i \in 1 .. Len(rl_data_q[a])})
    \cup (UNION {slots[i].sdus : i \in {j \in Slot : slots[j].as = a}})
    \cup {d.pid : d \in reassy_queue[a]}
    \cup ack_bitset[a]
    \cup AcksIn(assembling \cup Closed \cup cc_pq[a], a)

\* Nothing vanishes as long as no packet was closed late: an SDU that was sent
\* is acknowledged, or under way, or its loss has one of the causes that fill
\* "lost": a frame the station missed, a PDU cut after the PHY's tick had used
\* its grant up, a PID that the message or recv_ack has no bit for, a SDU
\* received between the reading and the replacing of ack_bitset.
NothingVanishes ==
    late = 0 =>
      \A a \in As : 1 .. sent[a] \subseteq acked[a] \cup lost[a] \cup UnderWay(a)

\* What is on its way to station a as a grant.
GrantsOf(a) ==
    GrantsIn(assembling, a) + GrantsIn(Closed, a) + GrantsIn(cc_pq[a], a)
    + frag[a] * Per

\* As long as no packet was closed late, whatever waits in a window has been
\* asked for: it is covered by what is to be requested, requested or granted,
\* except for what a lost RSC_RQST, a missed frame or a grant without room has
\* cost (nothing asks for it again: acquire_cyc_func resets cos_req_res,
\* resource_rl_alloc_cb drops the rest).
Covered ==
    late = 0 =>
      \A a \in As : sent[a] < lined[a] =>
        lined[a] - sent[a] <=
            cos_req_res[a] + rl_drr[a] + GrantsOf(a) + missed[a]

=============================================================================
