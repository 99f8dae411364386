------------------------------ MODULE Receiver ------------------------------
(***************************************************************************)
(* What a station receives, and from which cell: the super frames of two   *)
(* cells (the broadcast of lme_mms.c and M_SAPB, generate_bc_pkt of mac.c),*)
(* the two UDP devices of a station (device_core.c, device_udp.c), one of  *)
(* the PHY and one of the DLS in its direct mode, and the threads that     *)
(* take datagrams from them.                                               *)
(*                                                                         *)
(* A device has one socket per direction, a thread that reads the socket   *)
(* of the forward link into msg_queue, and a thread that handles what is   *)
(* queued.  To be tuned is to have the socket closed, another one opened   *)
(* on the port of the new channel and another reading thread started.      *)
(* Nothing stops the old thread (pthread_kill with signal 0 only asks      *)
(* whether it lives): where it is blocked in recvfrom it keeps the old     *)
(* socket alive for one more datagram, and then it reads the new one,      *)
(* which got the same descriptor.                                          *)
(*                                                                         *)
(* A datagram is labelled with the channel of the cell it comes from.  The *)
(* station is tuned by the broadcast of its first cell, and again by every *)
(* HO_COM it hears, whomever it is meant for.                              *)
(***************************************************************************)
EXTENDS Integers, Sequences

CONSTANTS
    Old,       \* the channel of config.init_fl_freq
    New,       \* the channel of a HO_COM: 1112.0 MHz (the DLS adds 50)
    ChannelMax,\* CHANNEL_MAX: channels are 0 .. ChannelMax - 1
    MaxCom,    \* bound on the number of HO_COMs heard
    QMax,      \* bound on msg_queue
    SockMax    \* bound on what a socket buffers; what exceeds it is lost

ASSUME ReceiverAssumption ==
    /\ Old \in Nat /\ New \in Nat /\ ChannelMax \in Nat /\ MaxCom \in Nat
    /\ Old < New /\ New + MaxCom < ChannelMax
    /\ QMax \in Nat \ {0} /\ SockMax \in Nat

VARIABLES
    bc_curr,    \* bc_curr[c]: a broadcast is being assembled
    bc_assem,   \* bc_assem_qs[c]: broadcasts that wait for their super frame
    freq_table, \* freq_table[d]: channels taken, for ever
    chan,       \* chan[d]: the channel of the receiving socket, or -1
    sockq,      \* sockq[d]: datagrams in that socket
    readers,    \* readers[d]: the reading threads, the last one started last
    msg_queue,  \* msg_queue[d]
    last,       \* the channel of the broadcast handled last
    mac,        \* mac_fsm
    sib,        \* a SIB that was verified has come to the LME
    need_sync,  \* the next broadcast sets the timer of the station
    synced,     \* the cell whose super frames the station keeps to
    cc,         \* where the cc thread is in the handler of a HO_COM
    commands,   \* HO_COMs heard
    owed        \* owed[d]: datagrams of other channels that may still be handled:
                \* what was queued when d was tuned, and one for each thread

cellVars == <<bc_curr, bc_assem>>
devVars  == <<freq_table, chan, sockq, readers>>
macVars  == <<mac, sib, need_sync, synced>>
comVars  == <<cc, commands>>
vars     == <<cellVars, devVars, msg_queue, last, macVars, comVars, owed>>

Dev  == {"phy", "dls"}
Cell == {Old, New}
Chan == 0 .. ChannelMax - 1
None == -1

-----------------------------------------------------------------------------
(* The devices.                                                             *)

\* setup_udp_device.
NoDevice == [freq_table |-> {}, chan |-> None, readers |-> <<>>]

\* init_udp_bd_recv and udp_recving_msgs: a thread that waits at a fresh socket.
Reader(c) == [sock |-> c, pdu |-> None]

\* Mutant: an occupied channel is taken all the same.
SameChannel(d, c) == c

\* set_new_freq: an occupied channel gives way to the next one that is free.  No
\* caller looks at the frequency that is returned.
Channel(d, c) ==
    IF c \notin freq_table[d] THEN c
    ELSE CHOOSE x \in Chan : /\ x > c /\ x \notin freq_table[d]
                             /\ \A y \in c .. x - 1 : y \in freq_table[d]

\* set_freq_port for the forward link of a station.
Tune(d, c) ==
    /\ freq_table' = [freq_table EXCEPT ![d] = @ \cup {Channel(d, c)}]
    /\ chan' = [chan EXCEPT ![d] = Channel(d, c)]
    /\ sockq' = [sockq EXCEPT ![d] = 0]
    /\ readers' = [readers EXCEPT ![d] = Append(@, Reader(Channel(d, c)))]
    /\ owed' = [owed EXCEPT ![d] = Len(msg_queue[d]) + Len(readers[d])]

\* The threads that wait for a datagram on channel c.
Waiting(d, c) == {r \in DOMAIN readers[d] : readers[d][r] = Reader(c)}

\* udp_send_msg of a ground station, as the device of a station sees it.  The
\* kernel keeps the datagram for a socket that is bound to the channel.
Arrive(d, c) ==
    IF Waiting(d, c) # {}
    THEN /\ \E r \in Waiting(d, c) : readers' = [readers EXCEPT ![d][r].pdu = c]
         /\ UNCHANGED sockq
    ELSE /\ sockq' = [sockq EXCEPT ![d] = IF chan[d] = c /\ @ < SockMax THEN @ + 1 ELSE @]
         /\ UNCHANGED readers

\* Mutant: the old socket was not closed, so its thread goes on reading it.
KeepsSock(d, r) == readers[d][r].sock

\* The descriptor of a closed socket is that of the next one to be opened.
NextSock(d, r) == chan[d]

\* The rest of udp_recving_msgs: the datagram is queued, and the thread is back
\* in recvfrom.
Put(d, r) ==
    /\ readers[d][r].pdu # None /\ Len(msg_queue[d]) < QMax
    /\ msg_queue' = [msg_queue EXCEPT ![d] = Append(@, readers[d][r].pdu)]
    /\ LET s == NextSock(d, r)
           more == s = chan[d] /\ sockq[d] > 0 IN
       /\ readers' = [readers EXCEPT ![d][r] = [sock |-> s, pdu |-> IF more THEN s ELSE None]]
       /\ sockq' = IF more THEN [sockq EXCEPT ![d] = @ - 1] ELSE sockq
    /\ UNCHANGED <<cellVars, freq_table, chan, last, macVars, comVars, owed>>

\* start_recv, up to the handler of the datagram.
Take(d) ==
    /\ msg_queue[d] # <<>>
    /\ msg_queue' = [msg_queue EXCEPT ![d] = Tail(@)]
    /\ owed' = [owed EXCEPT ![d] = IF Head(msg_queue[d]) = chan[d] \/ @ < 0 THEN @ ELSE @ - 1]
    /\ UNCHANGED <<cellVars, devVars, comVars>>

-----------------------------------------------------------------------------
(* The cells.                                                               *)

\* Mutants: the broadcast is sent and kept; the closed broadcast is not queued.
StaysQueued(n) == n
NeverQueued(n) == n

Dequeued(n) == n - 1

\* M_SAPB, on the BC_MAC.
Queued(n) == n + 1

\* trans_lme_bc_timer_func: ACB and SIB into bc_curr_out_q.
LmeSf(c) == ~bc_curr[c] /\ bc_curr' = [bc_curr EXCEPT ![c] = TRUE]

\* trans_bc_timer_func: what was closed before is sent, or there is nothing in this
\* super frame.
PhySf(c) ==
    IF bc_assem[c] > 0
    THEN bc_assem' = [bc_assem EXCEPT ![c] = Dequeued(@)] /\ Arrive("phy", c)
    ELSE UNCHANGED <<bc_assem, sockq, readers>>

\* The timers of both start a super frame; the order of the two does not matter.
SuperFrame(c) ==
    /\ LmeSf(c) /\ PhySf(c)
    /\ UNCHANGED <<freq_table, chan, msg_queue, last, macVars, comVars, owed>>

\* trans_bc_mac_timer_func: on the BC_MAC, M_SAPB closes the broadcast.
BcMac(c) ==
    /\ bc_curr[c]
    /\ bc_curr' = [bc_curr EXCEPT ![c] = FALSE]
    /\ bc_assem' = [bc_assem EXCEPT ![c] = Queued(@)]
    /\ UNCHANGED <<devVars, msg_queue, last, macVars, comVars, owed>>

\* D_SAPD of a ground station in the direct mode.
Data(c) ==
    /\ Arrive("dls", c)
    /\ UNCHANGED <<cellVars, freq_table, chan, msg_queue, last, macVars, comVars, owed>>

-----------------------------------------------------------------------------
(* The station.                                                             *)

\* MAC_CSCAN_REQ and PHY_CSCAN_REQ.
Cscan ==
    /\ mac = "FSCANNING"
    /\ mac' = "CSCANNING"
    /\ Tune("phy", Old)
    /\ UNCHANGED <<cellVars, msg_queue, last, sib, need_sync, synced, comVars>>

\* as_init_gtimer in upward_BCCH_j.
InitTimer(c) == need_sync' = FALSE /\ synced' = c

\* PHY_BC_IND: the SIB of slot 2 is kept until the BC_MAC behind it is verified.
BcInd == sib' \in {sib, TRUE}

\* upward_BCCH_j: the first broadcast handled counts, verified or not.
Bcch ==
    /\ Take("phy")
    /\ last' = Head(msg_queue["phy"])
    /\ IF need_sync THEN InitTimer(Head(msg_queue["phy"]))
                    ELSE UNCHANGED <<need_sync, synced>>
    /\ BcInd
    /\ UNCHANGED mac

\* process_direct_dls.
Direct == Take("dls") /\ UNCHANGED <<last, macVars>>

\* The access of the station, on a broadcast of its first cell (module AsAccess).
Enter ==
    /\ mac = "CSCANNING" /\ sib
    /\ mac' = "OPEN"
    /\ UNCHANGED <<cellVars, devVars, msg_queue, last, sib, need_sync, synced, comVars, owed>>

\* C_TYP_HO_COM in the cc thread, heard in either cell.
HoCom ==
    /\ mac \in {"OPEN", "HO2"} /\ cc = "idle" /\ commands < MaxCom
    /\ cc' = "dls" /\ commands' = commands + 1
    /\ UNCHANGED <<cellVars, devVars, msg_queue, last, macVars, owed>>

\* Mutant: a station that is in HO2 is tuned by every HO_COM.
AlwaysMoves == TRUE

\* MAC_HO_REQ: MAC_HO2 is entered from MAC_OPEN only, and then for good.
MacMoves == mac = "OPEN"

\* set_new_dls_frequency.
TuneDls ==
    /\ cc = "dls"
    /\ cc' = IF MacMoves THEN "phy" ELSE "idle"
    /\ Tune("dls", New)
    /\ UNCHANGED <<cellVars, msg_queue, last, macVars, commands>>

\* entry_MAC_HO2 and PHY_CONF_REQ, as far as the frequency.
TunePhy ==
    /\ cc = "phy"
    /\ cc' = "sync"
    /\ Tune("phy", New)
    /\ UNCHANGED <<cellVars, msg_queue, last, macVars, commands>>

\* The rest of PHY_CONF_REQ.
NeedSync ==
    /\ cc = "sync"
    /\ cc' = "idle" /\ mac' = "HO2" /\ need_sync' = TRUE
    /\ UNCHANGED <<cellVars, devVars, msg_queue, last, sib, synced, commands, owed>>

-----------------------------------------------------------------------------
\* make_dls_layer: the DLS of the station is tuned at the start.
Init ==
    /\ bc_curr = [c \in Cell |-> FALSE] /\ bc_assem = [c \in Cell |-> 0]
    /\ freq_table = [d \in Dev |-> IF d = "dls" THEN {Old} ELSE NoDevice.freq_table]
    /\ chan = [d \in Dev |-> IF d = "dls" THEN Old ELSE NoDevice.chan]
    /\ sockq = [d \in Dev |-> 0]
    /\ readers = [d \in Dev |-> IF d = "dls" THEN <<Reader(Old)>> ELSE NoDevice.readers]
    /\ msg_queue = [d \in Dev |-> <<>>] /\ last = None
    /\ mac = "FSCANNING" /\ sib = FALSE /\ need_sync = TRUE /\ synced = None
    /\ cc = "idle" /\ commands = 0
    /\ owed = [d \in Dev |-> 0]

Puts(d) == \E r \in DOMAIN readers[d] : Put(d, r)

CcThread == TuneDls \/ TunePhy \/ NeedSync

Next ==
    \/ \E c \in Cell : SuperFrame(c) \/ BcMac(c) \/ Data(c)
    \/ \E d \in Dev : Puts(d)
    \/ Cscan \/ Bcch \/ Direct \/ Enter
    \/ HoCom \/ CcThread

\* The timers of the cells keep running, and so do the threads of the station.
Fairness ==
    /\ \A c \in Cell : WF_vars(SuperFrame(c) \/ BcMac(c))
    /\ WF_vars(Puts("phy")) /\ WF_vars(Bcch)
    /\ WF_vars(CcThread)

Spec == Init /\ [][Next]_vars
FairSpec == Spec /\ Fairness

-----------------------------------------------------------------------------
(* Properties.                                                              *)

\* Every variable keeps its type, and a device takes a new channel and starts a new
\* thread whenever it is tuned.
ReceiverTypeOK ==
    /\ bc_curr \in [Cell -> BOOLEAN] /\ bc_assem \in [Cell -> 0 .. 1]
    /\ freq_table \in [Dev -> SUBSET Chan]
    /\ chan \in [Dev -> Chan \cup {None}]
    /\ sockq \in [Dev -> 0 .. SockMax]
    /\ readers \in [Dev -> Seq([sock : Chan, pdu : Cell \cup {None}])]
    /\ msg_queue \in [Dev -> Seq(Cell)]
    /\ last \in Cell \cup {None}
    /\ mac \in {"FSCANNING", "CSCANNING", "OPEN", "HO2"}
    /\ sib \in BOOLEAN /\ need_sync \in BOOLEAN /\ synced \in Cell \cup {None}
    /\ cc \in {"idle", "dls", "phy", "sync"} /\ commands \in 0 .. MaxCom
    /\ owed \in [Dev -> Int]

\* A station that has heard one HO_COM has both its devices on the channels of the
\* new cell, whatever arrived meanwhile.  Every further HO_COM leaves the PHY
\* there but moves the DLS one channel further, out of either cell.
Followed ==
    cc = "idle" /\ commands > 0 =>
       /\ mac = "HO2" /\ chan["phy"] = New
       /\ chan["dls"] = New + commands - 1

\* A device that is tuned handles no more datagrams of channels it has left than
\* were queued then, and one for each thread: none keeps reading an old channel.
StaleBounded == \A d \in Dev : owed[d] >= 0

\* A station that scans or was handed over comes to set its timer by a broadcast:
\* every super frame after a cell's first carries one, and one gets through.
Synchronised == (need_sync /\ mac # "FSCANNING") ~> ~need_sync

\* Once handed over, the PHY comes to hear the new cell, and in the end nothing else.
OldEnds == commands > 0 ~> [](last = New)

=============================================================================
