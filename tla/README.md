# Formal models of ldacs-combine

ldacs-combine simulates the L-band digital aeronautical communications system
(LDACS): aircraft stations (AS), ground stations (GS) and a ground-side gateway
(SGW), each a process of its own, that talk over a simulated radio (JSON over UDP).
This directory holds TLA+ models of its protocol layers, instances of them for the
model checker TLC, and theorems about them checked by the TLA+ proof system.

Paths below are relative to the repository's own `src/` unless they begin with
`include/`; line numbers are in the `map` of `PROJECT.json`.

Contents: [1 The system](#1-the-system) · [2 Modules](#2-modules) ·
[3 Runs](#3-runs) · [4 Bounds and fairness](#4-bounds-and-fairness) ·
[5 Theorems](#5-theorems) · [6 Findings](#6-findings) ·
[7 What is not modelled](#7-what-is-not-modelled) · [8 Plan](#8-plan) ·
[9 Running the tools](#9-running-the-tools)

## 1 The system

A station is a stack of layers in one process:

    RCU  (radio control unit: power-on, authentication, path of the aircraft)
    LME  (management: MMS = mobility, RMS = resources)      SNP (sequence numbers, security)
    DLS  (data link service: fragments, acknowledgements)
    MAC  (framing: BC, RA, DC, CC, D channels)
    PHY  (simulated, JSON)
    device (UDP sockets, table of frequencies)

A layer calls another through a *primitive*, `preempt_prim(&X_PRIM, ...)`: the mutex
of that primitive is taken, the function of the lower layer's service access point runs
in the caller's thread, then the requester's callback, which may change the result.
Nothing else serialises the layers: timers (`lct_timer`, `gtimer`), the receiving
threads of the device, the user interface, the path of the aircraft and the security
functions each call primitives from their own threads. The primitives, timers, state
machines (`change_state`), bit sets, hash maps and security functions come from the
library libldcauc, which is not part of the repository; what the models say of it is
how the code uses it, marked `external` in the map.

### Components, their state and their operations

| component | state | operations | what makes it correct |
|---|---|---|---|
| **SNP** `layer/snp` | `snp_fsm`; `send_T_SQN`, `recv_T_SQN` of each AS/GS pair | `SN_SAPC` (AUTH, OPEN), `SN_SAPD` (send), `process_snp` (receive) | PDUs are handed up in order, which includes that none is handed up twice; nothing passes before authentication; user data passes only when open |
| **Dedicated control channel** `lme_rms.c`, `mac.c`, `phy_sim_json.c` | control offsets in use (`CO_bitset`, `mac_co_sac`), the rotation (`CO_successor`), descriptors (`dc_coqueue`; `COS`, `COL`, `COM` at a station), DC slots | `trans_cc_dd_func`, `D_SAPC_cb`, `CELL_EXIT`, `P_SAPD_cb` (CC and DC), `judge_co`, `generate_dc_pkt` | a slot is ascribed to the station that filled it; two stations do not fill one slot; everybody is polled; the offset of who leaves is freed |
| **Cell entry and exit** `lme_mms.c`, `lme_rms.c`, `lme.c` | nodes by SAC (`LME_GS_AUTH_AS`), control offsets, CELL_RESPs and CELL_EXITs under way; LME state, SAC and offsets of each station | `trans_ra_cr_timer_func`, `M_SAPR_cb`, `mms_setup_entity`, `D_SAPC_cb`, `M_SAPC_L_cb`, `delete_lme_as_node_by_sac`, `exit_LME_CONN_OPEN_action` | node, SAC and control offset of a station belong together and go together; no offset leaks; everybody gets in |
| **Access inside a station** `rcu.c`, `lme.c`, `*_util.c` | `lme_fsm`, `mac_fsm`, `snp_fsm`, `finish_status`, `rcu_status`, `need_access`, `has_access`, `need_exit` | `rcu_power_on`, `rcu_start_auth`, `rcu_power_off`, `L_SAPC`, the entry functions of LME, `path_function_thread` | the layers open together; power-on and authentication end; an aircraft that leaves says so |
| **Handover** `lme.c`, `layer_p2p.c`, `lme_rms.c` | peers, nodes at both GS, `to_sync`, the tuning of the AS, SQNs | `LME_CONF_REQ`, `p2p_conn_recv`, `gst_handover_complete_key`, `send_ho_com`, HO_COM, SYNC_POLL, `MAC_SYNC_IND` | no station is forgotten by both GS; offsets go with the node |
| **CC packets** `mac.c`, `phy.c` | `cd_asseming_node`, `cd_assemed_qs`, `data_next_mf`, slots of a multiframe | `M_SAPC`, `M_SAPD`, `trans_cc_must_timer_func`, `trans_cc_timer_func`, `generate_cc_pkt`, `combine_cc_data`, `upward_FL_CC_DCH_j`, `P_SAPD_cb` | a packet is taken apart the way it was put together, its data with it; no message is sent twice or waits for ever |
| **Data channel and its resources** `lme_rms.c`, `mac.c`, `mac_util.c` | requests, records of the grants (`rpso_queue`), `RPSO`, `NRPS`, `rl_slots` | `RSC_RQST`, `resource_fl_alloc_cb`, `resource_rl_alloc_cb`, `delay_put_rpso`, `generate_data_pkt`, `PHY_DATA_IND` | a grant is used by whom it was given, in the frame it names |
| **DLS** `layer/dls` | entities, send and receive windows, `rl_data_q`, `ack_bitset` | `lineup_func`, `acquire_cyc_func`, `dls_frag_func`, `dls_reassy_func`, `ack_cyc_func`, `recv_ack` | an acknowledgement is true; what was taken over is sent, or its loss has a known cause |
| **Broadcast and super frames** `lme_mms.c`, `mac.c`, `phy_sim_json.c` | `bc_curr_out_q`, `bc_assem_qs`, `need_sync` | `trans_lme_bc_timer_func`, `trans_bc_mac_timer_func`, `trans_bc_timer_func`, `upward_BCCH_j` | a station comes to keep to the super frames of its cell |
| **Device** `device` | `freq_table`, sockets, reading threads, `msg_queue` | `set_new_freq`, `set_freq_port`, `udp_recving_msgs`, `start_recv` | a station hears the cell it was tuned to, and in the end nothing else |
| **Services** `service` | sessions | HTTP, terminal, dashboard | none of its own: they call RCU |

### Hard behaviours

* *Threads without a common lock*: a broadcast is handled while the service thread is
  between two primitives (`LME_CSCANNING` entered, MAC not yet); the path thread powers
  a station off while others work on the same machines; a control offset is taken while
  the CC packet that should announce it is being put together.
* *Packets lost, copied and late*: a CC packet carries the descriptor that decides who
  fills which slot, and a station that misses it answers by an older one. A CELL_RESP or
  HO_COM that gets lost is never repeated.
* *Two ways of one thing*: a descriptor goes into `dc_coqueue` at once and to the stations with
  the packet of its multiframe, a multiframe later; a grant goes by that packet and its record
  by a thread that sleeps. The timer that closes the packet may be late.
* *Counters of different width*: SQNs (32 bits against 24 on the wire), `CO_successor`
  (8 bits), windows of the stations that do not wrap.
* *State left behind*: `mac_co_sac` entries of stations that have left, `finish_status`
  that is never reset, frequencies that are never released, reading threads that nothing
  stops.
* *One message cut in two*: the data of a packet is sent in two frames, and the grants and
  the slots they are about belong to different multiframes; a frame that is missed, a timer
  that is late or a thread that sleeps must not join what does not belong together.
* *Restarts*: a station's process ends, the ground station still has its node.
* *Waiting for ever*: `rcu_power_on` and `rcu_start_auth` poll a flag without a bound.

The list of hazards in `PROJECT.json` names each at its line with the properties that
would catch it.

## 2 Modules

| module | models | composed of |
|---|---|---|
| `SnpSqn` | SNP layer over a lossy, copying, reordering, damaging air | implements `OrderedDelivery` |
| `OrderedDelivery` | abstract: a lossy, ordered pipe for each flow | |
| `DcchSched` | one cell's dedicated control channel: RMS and MAC of the GS, MAC of the stations, PHY slots | |
| `CellEntry` | entry and exit: MMS and RMS of the GS, LME of the stations, controller, radio | |
| `AsAccess` | the threads inside one station | |
| `Handover` | two ground stations, the connections between them, the stations' tuning | |
| `FlFrames` | the forward link of one cell by multiframes: collecting a packet, its two frames, their reception | |
| `Receiver` | a station's devices, sockets and threads, the super frames of two cells, HO_COMs | |
| `RlTransfer` | the reverse link of one cell: requests, grants, slots, the DLS entities and their acknowledgements | |
| `X_proofs` | theorems about `X`, for each of these but `OrderedDelivery`, see section 5 | extends `X`, TLAPS |
| `MCX` | instances of `X` for TLC | extends `X` |

**`SnpSqn`.** A *flow* is one direction of one AS/GS pair. `snp`, `send_T_SQN` and
`recv_T_SQN` are the code's; `air` holds the PDUs under way, `delivered` what
`SN_DATA_IND` handed up. A PDU carries `Wire(n) = n % 2^24`; `num` only tells PDUs
apart. `SnDataReq` takes its SQN before serialisation can fail and sends even if the
MAC cannot be computed, as the code does; `ProcessSnp` advances `recv_T_SQN` before
decryption can fail. `ImplementsPipe` refines `OrderedDelivery` with `sent` mapped to
`send_T_SQN`.

**`DcchSched`.** A multiframe goes through the phases *tick* → *air* → *dc*. In *tick* the LME's
timer (`TransCc`) draws up the descriptor, advances `CO_successor` and arms the closing timer. In
*air*, 5 ms later, the PHY sends the first packet that is closed (`SendCc`, `phy.c:123-134`). In
*dc* the stations fill their slots (`SendDc`) and the GS takes them in (`DcInd`). A descriptor goes
two ways from `TransCc`: into `dc_coqueue`, whose head `DcInd` takes out **in the same
multiframe** (`mac.c:487-491`, `1217-1222`), and into the packet being assembled, which
`CloseCc` (`trans_cc_must_timer_func`) closes near the end of the multiframe, so that it is sent
**in the next one**. The GS decodes by a descriptor one younger than the stations answered, two
younger after `CloseCc` was late once. `delay_put_rpso` makes up for that lag for the data
slots; nothing does for `dc_coqueue`.
`Grant` may come at any time, so a CELL_RESP may be in a packet whose descriptor does not count
it. `SendCc(heard, verified)` has a station take the descriptor over when it hears the packet, and the
CELL_RESPs only if the CC_MAC verifies. `SendDc` is `judge_co` with `generate_dc_pkt`: the CELL_EXIT
first, by its priority, then RSC_RQSTs while the block is no longer than `DC_SDU_LEN_MAX` before
the message is added; what does not fit stays queued, and leaving the cell stops neither the station's DLS nor
its DC timer. `DcInd` loses any set of slots, for a wrong checksum ends the
loop over all later ones.

**`CellEntry`.** `ra`, `cell_resps` and `exits` are what is under way on the radio,
`asked` the requests a controller has to answer. `RaInd` is `M_SAPR_cb` outside the direct mode: unless
the SACs are left to the controller (`Gsc`), `mms_setup_entity` is called with a SAC drawn at random, and
`inside_combine_sac_request` is called in either case; whether somebody `Answers` is a matter of what
runs beside the station. `setup` is the gap between storing the node and
the control offset (`mms_setup_entity` calls `DLS_OPEN_REQ`, its callback hands out the
offset). A CELL_RESP is taken in whatever state the station has, and `clear_mac_CO` takes
the first match and leaves its entry, both as in the code. `Restart` ends and starts a
station's process; only the cell remembers.

**`AsAccess`.** One variable for each thread (`svc` the service thread in
`rcu_power_on`/`rcu_start_auth`, `bc` the one that handles broadcasts, `snf` the
security functions, `pos` the path), the three state machines with their transition
tables, and the flags they share. An action ends where a thread reads or writes
something another one works on: `EnterCscanning` and `MacCscan` are two steps because
the receiver is tuned before MAC changes its state; `Sib` and `EnterConnecting` are two
because LME changes state before its entry function asks the MAC. The misspelt
transition back from `MAC_CONNECTING` (`mac_util.c:40`) is left out of `MacMoves`, for it
can never match. A call waits for its primitive's mutex (`PoweringOn`).

**`Handover`.** Two ground stations without a controller, with the functions of both
directions: `Command` is `LME_CONF_REQ`; `RecvIni` and `FinishIni` are the two halves of
`gst_handover_complete_key`, parted where the ACK has gone out and the node is not stored,
for the peer may act on the ACK in between, and a CELL_EXIT come in on another thread;
`RecvAck` is `send_ho_com`. `wire[g]` is the connection on which `g` receives; `accepting[g]` stands
for the locals of the one thread that serves it. What `gst_handover_request_handle` decides is a choice. A HO_COM
retunes whoever hears it to the frequencies of `gs2`, as `phy.c` does, and a station in
`MAC_HO2` stays there. The SNP counters and DLS frequency a HO_COM also sets are left out, as
is a station after its exit, and the answers to polls for others.

**`FlFrames`.** Three timers, each with a thread of its own, share `asseming`
(`cd_asseming_node`): `LmeTick` (`trans_cc_func`) and one `Grant` per FL_ALLOC,
the closing timer (`trans_cc_must_timer_func`) and, through the DLS and other parts, `CcMsg`. The closing
timer calls one primitive after the other: `SlotDesc` is its SLOT_DESC, its SYNC_POLLs are among the
messages of `CcMsg`, and `CcMac` its CC_MAC, at which `M_SAPC` queues the node; other threads may put messages
in between. `MustLate` lets it come after the next tick. `PhyTick` is `trans_cc_timer_func`: it takes the oldest packet, or sends nothing. A data
block is a label (multiframe, station, place in the grant), so that a property can tell
whose data a station gets; lengths count blocks. `FrameOf` is `combine_cc_data`: half of the last
packet's data, the CC slot with what it leaves of slots 13 to 21, slots 22 to 27.
`RecvFrame` is `upward_FL_CC_DCH_j` at all stations at once, in the order of the code: the
cached half completed and handed up, the CC slot, the new half cached; a station that
misses the frame keeps everything. `CCL` travels modulo the width of its field. The field
`kept` of an allocation records whether the data was put where the FL_ALLOC says; `no` and
`full` number the frame and keep the true length of its CC slot. No field of the code
carries them.

**`Receiver`.** `Tune` is `set_freq_port`: a new channel in `freq_table`, a new socket,
another reading thread; the old thread stays, blocked in `recvfrom` on the old socket
(`pthread_kill` with signal 0 stops nothing), hands on one more datagram and goes on with the
descriptor the new socket has got. `readers[d][r]` is where a thread is: at a socket, or with a datagram it
has not queued yet. A HO_COM is handled in three steps (`TuneDls`, `TunePhy`, `NeedSync`), between
which the other threads run. `owed` counts datagrams of other channels that may still be
handled; it is no variable of the code.

**`RlTransfer`.** The multiframe goes *begin* (`LmeTick`: grants and their record) → *air*
(`CcFrame`: the frame with the first packet that is closed) → *data* (`DataTick` of each
station, then `RlDataUpload`) → *begin*. `assembling` is the packet being put together, `CloseCc` its closing
timer, which may come after the next `LmeTick`, and `assembled` the queue of closed packets. `delayed` is the
thread in which `delay_put_rpso` sleeps: it knows nothing of the packet. While every packet was closed in
time, grant and record meet again, in the multiframe the slots are filled in; `late` counts the multiframes since
one was not. `RlDataUpload` cannot finish where the loop over the slots meets a filled slot without a grant
(`LoopEnds`), for the code then adds 0 to its index for ever. A station has two threads on its side: the cc thread with
`SetRlParam`, then `DlsFrag`, and the PHY's timer with `DataTick`, which sends the next PDU
under whatever grant `RPSO` and `NRPS` hold and clears them. On the other side
`DlsReassy` and the two halves of `ack_cyc_func` (`AckCycle`, `AckFresh`) share `ack_bitset`.
What the deficit round robin of libldcauc gives is a choice: all that is asked for, if there
is room, or as much as there is room for. `lost` and `missed` are filled, where the code loses
something, by the action that loses it; they name the causes for `NothingVanishes` and
`Covered`. The module is about the DLS outside its direct mode: see section 7.

## 3 Runs

| run | instance | shows |
|---|---|---|
| `snp_window` | one flow, up to the last value of a field of 6, window 3 | `InOrder`: order, and with it no second delivery; `DeafStaysDeaf`: a burst of losses longer than the window silences the flow for good; `ImplementsPipe` |
| `dcch_cell` | 3 stations, 3 offsets, 2 slots; one station has a request waiting, leaves, and misses packets until then; slots are lost; a late closing timer | `Attributed` and `NoClash`: in a cell that never held more offsets than slots, a slot goes to the SAC of the station that filled it and is filled by one station only; `ExitHandled`: the offset of a leaver is freed; `RotationBounded`: the rotation stays within the offsets ever assigned |
| `dcch_lag` | 2 stations, one slot, nothing lost, late or left | violates `AttributedAlways` (finding 1) |
| `dcch_starve` | stations leave | violates `EveryCoPolled` (finding 2) |
| `entry_gsc` | 2 stations, 2 SACs, 3 offsets, losses, two restarts each, failing registrations | `CoAccounted`: offsets in use and registered SACs match one to one; `NoSharedCo` |
| `entry_local` | random SACs that collide, a controller that answers as well, failing authentications | `RegisteredHasCo` |
| `entry_live` | no losses | `EveryoneEnters` |
| `handover` | 2 stations, 3 offsets, 3 handovers, refusals, broken connections, missed HO_COMs, exits | `Kept`: no station is forgotten by both ground stations; `OffsetsFollow`: offsets in use match nodes at a ground station that has its peer |
| `as_access` | up to two answers of the cell, a user who retries, a node from an earlier life | `LayersFollow`, `AccessEnds`, `ExitAnnounced` |
| `fl_frames` | 2 stations, 5 multiframes, late closing timer, CC slots of 1 to 3 blocks, one station that misses frames | `RightPiece`: what is handed up under a grant is the data put for it; `OnceOnAir`: no control message is sent twice; `Latency`: each is sent within three multiframes |
| `receiver` | two cells, two HO_COMs | `Followed`: where the devices are tuned after one HO_COM and after the next; `StaleBounded`: how many datagrams of a cell that was left are still handled; `Synchronised`, `OldEnds` |
| `rl_transfer` | a station that fills its window, one with a single SDU; frames missed, requests lost, a late cc thread, one late closing timer | until a packet is closed late, `RightEntity`: slots are sorted by the record of the grants they were filled by; `AckedReceived`: an acknowledgement is true; `NothingVanishes`, `Covered`: each loss of an SDU or of a request has one of the named causes. After it the bounds of `RlTypeOK` remain |

What `dcch_cell` shows rests on the cell being `Small`: the offsets ever assigned are below
`DCL_MAX` (32). Then every descriptor starts at 0, slot *i* is polled for offset *i* by every descriptor, and the lag
does no harm, with one exception that `Attributed` states: a GS decoding by a descriptor that does not
*count* an offset takes its index modulo a smaller COM. That takes a packet closed late (`late > 0`), which
brings a station its CELL_RESP before the GS has come to a descriptor drawn up after it. In a larger cell the lag
alone is enough for a wrong attribution, without any loss: that is finding 1, so nothing about larger
cells is claimed. `ExitHandled` is about the one CELL_EXIT of a station: it gets through in spite of
requests in front of it, behind it and in other slots, of the wait for a poll and of blocks that overwrite
each other, unless its block is lost (`lostExit`); nothing repeats it.

Three things `handover` shows by the form of its properties. `OffsetsFollow` is
conditional on the peer, because `gst_handover_complete_key` takes an offset before it
looks the peer up and returns with it (`lme.c:592`). Both are conditional on `Patient`, that the
user does not command a second handover of a station under way: a command that is
repeated while the station is on its way, and crossed by one back, has both ground stations
delete the node the other relies on. And nothing is said of where a
station is tuned: it obeys every HO_COM it hears (`lme_rms.c:301`), the first one for good.

What `fl_frames`, `receiver` and `rl_transfer` show of the code's weak spots, by the conditions
in their properties:

* `RightPiece` is conditional on `kept`. The data of all grants is joined without gaps, while
  every FL_ALLOC counts what was granted: a station with less to send moves the
  data of all later ones. And it is conditional on the frame after: a frame
  that was missed between the two halves is not noticed, and the half of
  another packet is taken in its place. A CC slot longer than the field CCL can
  tell makes a station drop the grants of that packet.
* `Latency` is three multiframes, not two: a tick of the PHY that finds no packet, because the
  closing timer is late, puts all later packets off by one, for good.
* `Followed` states what a second HO_COM does: MAC and PHY stay, and the DLS, which finds its channel
  taken (by itself), moves one further, where nobody sends.
* `NothingVanishes` counts among the causes of a loss the PIDs for which an ACK of 16 bits or
  the `uint8_t` of `recv_ack` has no bit, and SDUs received between the reading and the replacing of
  `ack_bitset`. Nothing is sent again.
* `Covered` counts requests and grants that got lost: nothing asks again for them, and
  the SDUs stay in a window that then refuses new ones.
* The properties of `RlTransfer` but `RlTypeOK` end with the first late closing (`late = 0`). After it, a packet holds
  the grants of two multiframes or comes a multiframe after its record; the slots are then sorted by the grants of
  other multiframes, to wrong entities, and a filled slot where the record has no grant keeps the loop
  at `mac.c:1263-1282` in place. `LmeTick` and `CloseCc` make it happen in the model; nothing the repository says
  promises better, so it is a condition here and no finding.

Deadlock is not checked: every instance bounds the PDUs, requests or grants it lets
happen, and the bounded system stops when they are used up. The properties of what must
go on are stated as liveness.

`AccessEnds` deserves a word. It does not say that a station gets access. It says that
`rcu_power_on` and `rcu_start_auth` return unless one of three named things happened,
and these are behaviours of the code worth knowing:

* *Overtaken*: the broadcast is handled between `PHY_CSCAN_REQ` and the change to
  `MAC_CSCANNING` (`mac.c:320-327`). LME is then `LME_CONNECTING`, `MAC_CONNECT_REQ`
  has failed, `start_mms` was skipped: no request is ever sent, and `rcu_power_on` waits.
* *Refused*: the GS has a node for the station, from an earlier life of its process or
  because the CELL_RESP was lost. It drops the requests (`lme_mms.c:232`).
* *Overwritten*: a second CELL_RESP (the controller was asked twice) sets
  `LME_CONNECTING_FINISHED` after `LME_AUTH_FINISHED`, within the 100 ms in which the
  service thread has not looked; `rcu_start_auth` waits, though the station is open.

## 4 Bounds and fairness

*Bounds.* SNP: 6 PDUs against a window of 3 contain a burst beyond the window with PDUs
before and after it, and use up a field of 6 values, so that `recv_T_SQN` passes its last one;
what happens when the field wraps is covered by the theorems `NeverTwice` and `Mortal` for every
width. DCCH: three offsets against two
slots is the smallest cell in which a descriptor covers part of the offsets, the
rotation passes COM, and a hole below the highest offset can appear; `SuccMod` 8 stands for the 256 values of
the `uint8_t`, above the largest sum in these instances. A block of `SduLen` 2 with messages of 2
(CELL_EXIT) and 3 (RSC_RQST), against 9, 2 and 3 in the code, stops after a CELL_EXIT and one
request (the test is `<=`, before the message is added), so the limit is met with one request in front of the exit
(`MaxRqst`) and another behind it. `MaxLate` 1 lets one packet be closed late, which holds until the end: all later
ones keep the lag of two; it is the least that makes the GS decode by a descriptor that does not count an offset. Entry: two stations and two
SACs give every collision, reuse and overtaking of two; three offsets leave one to
leak into. `MaxAsked` bounds the requests for one UA before the controller, `MaxResps` the
CELL_RESPs under way, `MaxRestart` restarts of a station. Access: `MaxGrants` = 2 is
the least that overwrites. Handover: `MaxHo` = 3 lets a
station go there, back and there again, or two cross in the air; three offsets leave one to leak into.

Forward link: a block of the slots 22 to 27 is one (`BlkLen`), the CC slot leaves two to nothing
(`Blk0Max` = 2), two messages to a block of it (`CcPer`), so a packet has CC slots of one to
three blocks, of which `CclMod` = 3 (for the 8 values of the three-bit field) can tell
two. Grants come in the first two multiframes (`DataMf`), of up to the three blocks that even the
longest CC slot leaves; five multiframes (`MfMax`) carry both packets through with their halves, late timer
included, and leave a multiframe after it. Receiver: two HO_COMs (`MaxCom`) are the
least that find the channel of the first taken, six channels leave room for it; queue and
socket hold one datagram each, which with one per thread is enough for a stale one to stand behind a fresh one.
Reverse link: a window of 3 SDUs (`WinSize`, 32 in the code) that gets filled; an ACK of two bits (16) read into one (8), so that PIDs fall beyond either; two slots for the data
(`SlotMax` = 3, `COL` = 1), two SDUs in each, so that a grant may find no room; the station with one SDU
misses frames and loses requests, the other hands its PDUs in late. After the first late closing the run goes
on for one multiframe (`MaxLate` 1), enough to send the packet and to sort slots by the wrong record; `RlTypeOK` is
proved for any number. A window that overflows is not reached in the run, since the second station hands in no more SDUs
than its window holds; the theorems cover it.

The safety properties of all modules are also proved without these bounds, under the
assumptions of section 5.

*Symmetry* is used in runs without liveness properties only, over stations (`CellEntry`, `Handover`).

*Fairness.*
`DcchSched`: weak for the timers taken together (`Timers`), each of which goes off when it is its turn;
strong for a packet with a descriptor heard by all, so that the air does not swallow every one of them; for each station that may
leave, strong for `SendDc`, whose DC timer fires in every multiframe, so that it meets a poll that comes over and
over, and weak for the handling of its CELL_EXIT. `CellEntry`: weak for the broadcast, the
request repeated every super frame, its handling, the controller's answer, the opening
of the DLS entity, the reception of a CELL_RESP, and the authentication the dashboard
starts when power-on returns. `AsAccess`: the threads run (each is a loop or a
call that is under way), broadcasts are repeated, the cell answers a first request, the
authentication comes to its end, and the path goes on. `Receiver`: weak for the timers of each cell's
super frame, for the PHY's reading threads taken together, for the thread that
handles its queue and for the cc thread inside a HO_COM; the kernel need not serve each of the reading
threads. Nothing is assumed fair for
losses, restarts, exits or failures.

`FlFrames` and `RlTransfer` have no liveness properties: a bound in time is stated as
`Latency`, and on the reverse link what is lost stays lost, so nothing must happen eventually; what
can be said is where everything is, which are the invariants.

`AsAccess` takes the path to lead through the coverage of the first GS, then of the second,
then out of both, with at least one point in each; whether it does is a matter of
configuration (`init_single_path`, `accel_multiplier`). An aircraft that
gets access after the last point of its path never announces its exit, because the thread has
returned by then; `ExitAnnounced` therefore speaks of access gained under coverage.

## 5 Theorems

All safety properties that the passing runs check are also theorems, for every value of the
constants that satisfies the `ASSUME` of the module:

| module | theorem | statement | further assumptions |
|---|---|---|---|
| `SnpSqn_proofs` | `TypeCorrect` | `[]SnpTypeOK` | |
| | `NeverTwice` | `[]AtMostOnce` | |
| | `Mortal` | `[]LifetimeBounded` | |
| | `Ordered` | `[]InOrder` | `MaxSent <= SqnMod` |
| | `NoWayBack` | `DeafStaysDeaf` | `MaxSent <= SqnMod` |
| | `SnpImplementsPipe` | `ImplementsPipe` | `MaxSent <= SqnMod` |
| `DcchSched_proofs` | `TypeCorrect` | `[]DcchTypeOK` | |
| | `RightStation` | `[]Attributed` | in the formula: a small cell |
| | `OneStationPerSlot` | `NoClash` | the same |
| | `RotationStays` | `[]RotationBounded` | in the formula: offset and COL fit the width of `CO_successor` |
| `CellEntry_proofs` | `TypeCorrect` | `[]EntryTypeOK` | |
| | `KnownIsServed` | `[]RegisteredHasCo` | |
| | `NoCoLeaks` | `[]CoAccounted` | in the formula: a controller, one request for a UA at a time, no failing authentication |
| | `CosAreExclusive` | `[]NoSharedCo` | the same |
| `AsAccess_proofs` | `TypeCorrect` | `[]AccessTypeOK` | |
| | `OpenTogether` | `[]LayersFollow` | |
| `Handover_proofs` | `TypeCorrect` | `[]HandoverTypeOK` | |
| | `NoneForgotten` | `[]Kept` | in the formula: `Patient` |
| | `OffsetsOfNodes` | `[]OffsetsFollow` | the same |
| `FlFrames_proofs` | `NeverAiredTwice` | `[]OnceOnAir` | |
| | `InTime` | `[]Latency` | |
| | `WholePieces` | `[]RightPiece` | `[]PacketsFit` |
| | `TypeCorrect` | `[]TypeOK` | `[]PacketsFit` |
| `Receiver_proofs` | `TypeCorrect` | `[]ReceiverTypeOK` | |
| | `DevicesFollow` | `[]Followed` | |
| | `FewStale` | `[]StaleBounded` | |
| `RlTransfer_proofs` | `TypeCorrect` | `[]RlTypeOK` | |
| | `EntityRight` | `[]RightEntity` | in the formula: no packet was closed late |
| | `AcksTrue` | `[]AckedReceived` | the same |
| | `NoneVanishes` | `[]NothingVanishes` | the same |
| | `AllCovered` | `[]Covered` | the same |
| | `Invariance` | `[]Inv`, what these five rest on | |
| | `LoopFinds` | the loop of `PHY_DATA_IND` looks at the starts of the filled grants and at nothing else | the record is well formed, the slots are filled by it |

The inductive invariants and why they are needed:

* **SNP.** `SnpTypeOK`, `Numbered` (what is under way was numbered by its sender) and
  `Received` (what was handed up lies below `recv_T_SQN` *on the wire*, in increasing
  wire order, and there is no more of it than `recv_T_SQN` counts). `AtMostOnce` (no PDU twice,
  also where the field wraps and `InOrder` says nothing; defined beside its theorem) alone is not inductive: it does not say that a new PDU is above the old ones. That the
  argument goes by wire values is what makes it survive the wrap of the field.
* **DCCH.** `SmallInv`: as long as the cell is small, the successor is 0 and so is the start of every
  descriptor, wherever it is: at the GS, in a packet, at a station that heard it long ago. `SlotInv`: what lies in
  slot *i* of a small cell is from a holder of offset *i*, and its station has fired. `UsedInv`, `NewInv` and `ExitInv`
  tie offsets to stations: an offset in use belongs to somebody, a station in the cell is known, and as long
  as its CELL_EXIT is anywhere (queue, slot, GS) the GS holds an offset for it and the CELL_EXIT is in no other place.
  `LagInv` is what the lag leaves: while no packet was closed late, the GS's descriptor counts the offset of every
  station that has heard of it, because the packet with the CELL_RESP was closed before that descriptor was drawn up.
  `RotationStays` needs only that NextSuccessor passes neither the highest offset nor where it was
  (`SuccessorReturns`).
* **Entry.** `RegisteredHasCo` is inductive with a statement about `setup`. `CoAccounted`
  rests on a chain: the controller is asked for unknown stations only, a UA has one
  node, an exit under way has its node, and, the point a reader of `clear_mac_CO` would
  doubt, no entry *below* that of an offset in use has the same SAC. It holds because
  `get_CO` hands out the lowest free offset and a SAC is set up again only after its
  offset was freed: the first match is the right one in spite of the entries left
  behind.
* **Handover.** `Kept` is not inductive: a node goes because an ACK has come, and the ACK must mean that the
  peer has the node. `OneMessage` (there is at most one request, ACK or acceptance for a
  station, which is what `Patient` is for), `AckKept` (an ACK under way implies the node, or the
  acceptance that will store it, at its sender, unless the station has left), `OneNode` (two
  nodes only while an ACK is under way or a connection is broken). `OffsetsFollow` rests on
  `Books`: nodes and offsets match one to one, and no offset below the one in use
  has the same SAC, because the lowest free one is handed out: `clear_mac_CO` finds the right
  entry here, too.
* **Forward link.** A message is in one place (`OnePlace`: the open node, one closed packet, or the
  air), and a packet closed *n*-th is sent *n*-th (`Numbered`), while frames sent
  stay within two of the ticks (`InStep`). That gives `OnceOnAir` and `Latency`. `RightPiece` needs
  the data followed through five places: every node holds the data where its FL_ALLOCs say
  (`NodesHold`; it stays there because `M_SAPD` only appends), the frame on the air has the
  first half and the ground station the second (`WireHolds`), a station has the first half
  cached with the grants it heard, and the second comes with the next frame, if that is the
  next one sent (`StationHolds`). The lemmas `Halves`, `FrameHolds` and `PieceHolds` are about the cutting and
  joining of sequences. The assumption `PacketsFit` says that the CC slot of a packet lies within slots 13 to 21 and
  that no grant reaches beyond the data of its packet; the round robin and the
  capacity of a packet, which are not modelled, have to see to it. It holds in the instance of `fl_frames`.
* **Receiver.** `Owes`: stale datagrams in the queue and threads at, or with a datagram
  of, another channel are together no more than `owed`, which is what a retuning leaves
  behind. `FreqInv`: the channels a device has taken are the old one and
  an unbroken run from the new one up to where it is, so `set_new_freq` moves it by one.
* **Access.** One implication for each phase of the security functions: before, the
  station is not open and has no flag of it; while they run, the three machines stand at
  authentication, which is why `entry_LME_OPEN` cannot be refused half-way; afterwards
  LME is open, or has left once.
* **Reverse link.** One invariant, `Inv`, carries all five properties, for they lean on each other. It has two parts:
  `Bounds` (types, parameters, windows, records) holds whatever the timers do, and gives `TypeCorrect`; the rest, `OnTime`, is
  claimed while `late = 0`, and a step that makes a timer late has nothing to show for it (`LateStays`).
  - `InStep` is the heart: an RL_ALLOC that is collected is in the record that sleeps in `delay_put_rpso`,
    one that is in the frame or in a station's cc thread is in the record at the head of
    `rpso_queue`, and so are `RPSO` and `NRPS` while they are set. Grant and record are made in one step
    and travel apart (one by the frame, the other by a thread that sleeps for a
    multiframe); `Phases` bounds how far apart they get. A record is `WellFormed`: its grants follow each
    other, one for each station, within the slots.
  - `Sorted`: a slot that holds something belongs to a grant of the head record, whose station
    has filled *all* slots of that grant. That it is all of them is what `LoopFinds` needs: the
    loop goes on by the length of the grant from a full slot and by one from an empty one, and a grant
    filled in part would let it lose step.
  - `Own`: what is in a queue, a slot, an entity was cut from its own station's window, and
    no further than `sent`.
  - `Honest`: what `acked`, `told`, `ack_bitset` or an ACK on its way says has arrived. `AckedReceived` alone
    is about the end of that way only.
  - `Told`: what a cycle has read of `ack_bitset` is in an ACK on its way, noted by the station or
    lost; so `AckFresh` may throw it away without harm to `NothingVanishes`.
  - `Window`: what is requested is in the window. `Covered` and `NothingVanishes` are inductive with the rest:
    each step takes from one stage no more than it adds to the next (`QueuedGoes`, `InSlotsGoes`, `ArrivedGoes`,
    `BitsetGoes`, `AcksAbove`; `GrantsInAllocs`, `CutIs`).

  `RlTransfer` defines sums over the stations (where a grant starts, what is granted) by a fold of
  the community modules, and the slots looked at by a recursive function. What the proof needs
  of them is derived from their definitions without an induction rule: a statement
  about all finite sets is proved for a smallest set it would fail for (`SmallestExists`, by the
  well-foundedness of inclusion), which gives that the fold's function exists and is unique (`SumsExists`, `SumsAgree`),
  that any member can be taken out first (`SumRemove`) and that sums grow with their sets (`SumGrow`); the
  recursive function is shown to exist as the least set of slots closed under the steps of
  the loop (`PassedStep`, `PassesExists`).

The steps of every proof follow the actions of `Next`. What this prover cannot do stays
with TLC: liveness under fairness (`ExitHandled`,
`EveryoneEnters`, `AccessEnds`, `ExitAnnounced`, `Synchronised`, `OldEnds`), and statements with ENABLED.

## 6 Findings

1. **Slots ascribed by another descriptor than they were filled by** (`dcch_lag`). `M_SAPC` puts a
   descriptor into `dc_coqueue` when it is drawn up (`mac.c:490`) and `PHY_DC_IND` takes it out in that
   multiframe, while the packet that brings it to the stations is sent in the next one. In a cell with
   more control offsets than `DCL_MAX` the rotation changes COS from descriptor to descriptor, and the
   GS ascribes what one station sent to another, `mac_co_sac[(COS + ind) % COM]`; nothing has to be lost or
   late. The comment at `layer/phy/phy.c:146` says that the DC timer waits "a bit for the CC", so that a slot
   answers the descriptor of its own multiframe.
2. **Starvation on the dedicated control channel** (`dcch_starve`). `trans_cc_dd_func`
   takes COM off `CO_successor` once, and only when it advances past the highest offset. After
   stations with high offsets have left, the successor may lie at or above the new COM for
   good; the window a station tests does not wrap, so the station with offset 0 is
   never polled again. The comment at `layer/lme/lme_rms.c:188` promises a return to 0.

What the modules show besides is weak, but contradicts nothing the repository says of itself:
see the lists in section 3. Two stations may draw the same SAC without a controller (`mms_setup_entity`
does not refuse one that is taken); `entry_local` includes that case.

## 7 What is not modelled

* *The direct mode of the DLS.* `D_SAPD` and `D_SAPC` of `dls.c` take it whatever is configured, at
  `if (1)`, with `config.direct` in a comment behind it: data then goes over a UDP channel of its own,
  which is in `Receiver`. The grants of `FlFrames` and the whole of `RlTransfer` are about the other mode, which
  the code has in full.
* *On the dedicated channel*: ACKs of the DLS in a station's `dc_pq` (before a CELL_EXIT two of them would make a block
  longer than `DC_SDU_LEN_MAX` and the checksum overwrite its end; the comment at `mac.c:868` counts on 9 bytes), damage
  to the last RSC_RQST of a block by the same checksum, and a second entry of a station, which is in `CellEntry`.
  In cells with more offsets than `DCL_MAX`, nothing is claimed about attribution and clashes (finding 1), and nothing about
  the rotation once offset and COL pass 255.
* *On the reverse link after a packet was closed late*: the model has these behaviours, but its properties except
  `RlTypeOK` are conditional on `late = 0`; see section 3.
* *In the reverse link*: SDUs are not cut into fragments, there is one class of service, the SDUs
  of a station stay within one turn of its window, a request arrives at once or never, a cc thread
  is through with a frame before the next one and has handled its RL_ALLOC by the PHY's tick
  5 ms later (only `dls_frag_func` may be held up, see `Slow`), a station's slots keep to their own
  multiframe, and acknowledgement cycles with nothing to say are left out. `dls_upload_func` and the
  acknowledgements of the forward link are not modelled.
* *In the forward link*: the messages of a packet fit its buffer (`CC_BLK_LEN_MAX`).
* *In the receiver*: closing and opening a socket is one step, and the new socket gets the
  descriptor of the old one, as it does where nothing else opens files at that moment.
* *Handover with a controller* (merged and e304 modes): the exchange is libldcauc's. The counters of
  SNP that a HO_COM resets are left out.
* *libldcauc*: primitives, timers, the round robin, state machine library, bit sets, hash maps, security
  functions, the controller. Its outcomes are choices of the models.
* *PHY real radio*: a stub. *JSON, HTTP, terminal, dashboard, option parsing,
  logging*: input and output; their calls to RCU are actions of the stations.
* *Stations with fixed SACs* (`-D`), which skip entry; the models are of the modes with random access.

Points of the code that were met and are not among the hazards of `PROJECT.json`, for no module
reaches them:

* `PHY_DATA_REQ` of a station looks one slot past its last (`phy_sim_json.c:360`).
* `clear_dls_entity` unregisters the timer of a copy (`dls_entity.c:171`).
* The DC slots are written and read without a lock (`phy_sim_json.c:54`).
* `get_CO` dereferences NULL when every control offset is in use (`lme_rms.c:66`); the models stop short
  of a full cell.
* A second power-on after a power-off returns at once (`rcu.c:46`).
* Entries of `to_sync` for stations that have left stay for ever (`lme.c:617`), NEXT_CO of a HO_COM is ignored
  (`lme_rms.c:298`).

## 8 Plan

Done, in this order: `SnpSqn` with its abstraction, `DcchSched`, `CellEntry`,
`AsAccess`, `Handover`, `FlFrames`, `Receiver`, `RlTransfer`, and the proofs of their safety properties. What is left:

1. *Fragments and classes of service* in `RlTransfer` (`dls_frag_func`, `dls_reassy_func` with its list of
   fragments): an SDU that does not fill its last block, a grant that ends in the middle of one. The data
   would be labels as in `FlFrames`; abstract specification: a lossy transfer that hands up whole SDUs only.
2. *Handover and slots*: the composition of `Handover` with `DcchSched`, whose slots a station fills in its new cell,
   NEXT_CO being ignored.
3. *`EveryoneEnters` under losses*: what the code promises when a CELL_RESP is lost.
4. *The reverse link as an abstract transfer*: `RlTransfer` as the refinement of a specification of a few lines
   (taken over, sent, arrived, acknowledged, lost), by `Inv`.

## 9 Running the tools

In this directory:

    tlc -workers 2 -config MCDcchCell.cfg MCDcchSched.tla
    tlapm DcchSched_proofs.tla

`dcch_cell` has about 490 000 states and, with its liveness property, takes two minutes; `fl_frames` has 1.3 million,
`handover` 1.4 million, `entry_local` 2.7 million, about a minute each or less; `rl_transfer` has 2.3 million and takes a
minute and a half; the others take seconds. A proof module takes from half a minute to a few minutes,
`RlTransfer_proofs` longest.
