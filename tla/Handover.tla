------------------------------ MODULE Handover ------------------------------
(***************************************************************************)
(* Handover of aircraft stations between two ground stations: the request  *)
(* and the acknowledgement between the peers (LME_CONF_REQ of lme.c,       *)
(* p2p_conn_recv of layer_p2p.c), the node and the control offset at       *)
(* either of them (gst_handover_complete_key, send_ho_com), the HO_COM     *)
(* that retunes the stations (lme_rms.c, entry_MAC_HO2, PHY_CONF_REQ), the *)
(* synchronisation with the new ground station (MAC_SYNC_IND), and exits   *)
(* in the middle of all that.                                              *)
(***************************************************************************)
EXTENDS Integers, Sequences, FiniteSets

CONSTANTS
    As,        \* aircraft stations; a station is also its own SAC
    NoAs,      \* what mac_co_sac holds for a CO that was never assigned
    CoMax,     \* CO_MAX
    MaxHo,     \* bound: handovers commanded
    Patient,   \* BOOLEAN: the user commands one handover of a station at a time
    PeersFail, \* BOOLEAN: may the connections between the peers break?
    Lossy      \* BOOLEAN: may stations miss what is broadcast to them?

ASSUME HandoverAssumption == /\ NoAs \notin As
                             /\ IsFiniteSet(As)
                             /\ CoMax \in Nat \ {0}
                             /\ MaxHo \in Nat
                             /\ {Patient, PeersFail, Lossy} \subseteq BOOLEAN

Co == 0 .. CoMax - 1

\* gs2 has the frequencies that every HO_COM tunes to.
Gs == {"gs1", "gs2"}
Peer(g) == IF g = "gs1" THEN "gs2" ELSE "gs1"

VARIABLES
    nodes,      \* nodes[g]: the stations with a node in LME_GS_AUTH_AS of g
    CO_bitset,  \* CO_bitset[g]: control offsets in use at g
    mac_co_sac, \* mac_co_sac[g]: the SAC last given each of them
    to_sync,    \* to_sync[g]: stations g polls for synchronisation
    peer_up,    \* peer_up[g]: g has its peer in peer_map
    wire,       \* wire[g]: messages under way to g
    accepting,  \* accepting[g]: the handover whose ACK g has sent and whose node
                \* it has not stored yet
    commands,   \* handovers commanded so far
    ho_coms,    \* ho_coms[g]: HO_COMs g is about to broadcast
    syncs,      \* syncs[g]: synchronisations under way to g
    exits,      \* exits[g]: CELL_EXITs under way to g
    mac,        \* mac[a]: MAC_OPEN or MAC_HO2
    curr_gs,    \* curr_gs[a]: AS_CURR_GS_SAC
    left        \* stations that have left the system, not followed further

cellVars == <<nodes, CO_bitset, mac_co_sac, to_sync>>
peerVars == <<peer_up, wire, accepting, commands>>
airVars  == <<ho_coms, syncs, exits>>
asVars   == <<mac, curr_gs, left>>
vars     == <<cellVars, peerVars, airVars, asVars>>

Idle == [as |-> NoAs, co |-> 0]     \* accepting nothing

\* The ground station a station's receiver is tuned to: PHY_CONF_REQ is called on
\* entering MAC_HO2, which is never left.
Tuned(a) == IF mac[a] = "MAC_HO2" THEN "gs2" ELSE "gs1"

-----------------------------------------------------------------------------
(* Between the ground stations.                                             *)

Ini(a)     == [type |-> "ini", as |-> a]
Ack(a, co) == [type |-> "ack", as |-> a, co |-> co]

\* A message about the station is under way, or its node is about to be stored.
Underway(a) == \/ \E g \in Gs : accepting[g].as = a
               \/ \E g \in Gs : \E i \in DOMAIN wire[g] : wire[g][i].as = a

\* Mutant of LME_CONF_REQ: the node is given up at once.
CommandDrops(g, a) ==
    /\ commands < MaxHo
    /\ a \in nodes[g] /\ peer_up[g]
    /\ Patient => ~Underway(a)
    /\ commands' = commands + 1
    /\ wire' = [wire EXCEPT ![Peer(g)] = Append(@, Ini(a))]
    /\ nodes' = [nodes EXCEPT ![g] = @ \ {a}]
    /\ UNCHANGED <<CO_bitset, mac_co_sac, to_sync, peer_up, accepting, airVars, asVars>>

\* rcu_handover: LME_CONF_REQ at the ground station that has the node.
Command(g, a) ==
    /\ commands < MaxHo
    /\ a \in nodes[g] /\ peer_up[g]
    /\ Patient => ~Underway(a)
    /\ commands' = commands + 1
    /\ wire' = [wire EXCEPT ![Peer(g)] = Append(@, Ini(a))]
    /\ UNCHANGED <<cellVars, peer_up, accepting, airVars, asVars>>

\* bs_alloc_resource hands out the lowest free member.
LowestFree(g) == CHOOSE c \in Co \ CO_bitset[g] : \A d \in Co \ CO_bitset[g] : c <= d

\* clear_mac_CO: the first entry for the SAC.
HasCo(g, a) == \E c \in Co : mac_co_sac[g][c] = a

FirstCo(g, a) == CHOOSE c \in Co : /\ mac_co_sac[g][c] = a
                                  /\ \A d \in 0 .. c - 1 : mac_co_sac[g][d] # a

\* The thread of g that serves its peer takes the next message.
Receives(g, type) ==
    /\ accepting[g] = Idle
    /\ wire[g] # <<>> /\ Head(wire[g]).type = type

\* p2p_conn_recv of a request: gst_handover_request_handle may refuse, or goes on
\* to gst_handover_complete_key, which takes a control offset first and returns
\* with it when there is no peer.
RecvIni(g, accepted) ==
    /\ Receives(g, "ini")
    /\ LET a == Head(wire[g]).as IN
       /\ accepted => CO_bitset[g] # Co
       /\ CO_bitset' = IF accepted
                       THEN [CO_bitset EXCEPT ![g] = @ \cup {LowestFree(g)}]
                       ELSE CO_bitset
       /\ IF accepted /\ peer_up[g]
          THEN /\ accepting' = [accepting EXCEPT ![g] = [as |-> a, co |-> LowestFree(g)]]
               /\ wire' = [wire EXCEPT ![g] = Tail(@),
                                       ![Peer(g)] = Append(@, Ack(a, LowestFree(g)))]
          ELSE /\ wire' = [wire EXCEPT ![g] = Tail(@)]
               /\ UNCHANGED accepting
    /\ UNCHANGED <<nodes, mac_co_sac, to_sync, peer_up, commands, airVars, asVars>>

\* Mutant of the rest: the offset is not ascribed.
FinishIniNoCo(g) ==
    /\ accepting[g] # Idle
    /\ LET a == accepting[g].as IN
       /\ nodes' = [nodes EXCEPT ![g] = @ \cup {a}]
       /\ to_sync' = [to_sync EXCEPT ![g] = Append(@, a)]
    /\ accepting' = [accepting EXCEPT ![g] = Idle]
    /\ UNCHANGED <<CO_bitset, mac_co_sac, peer_up, wire, commands, airVars, asVars>>

\* Mutant: the handover is not cleared with its offset.
FinishIniStale(g) ==
    /\ accepting[g] # Idle
    /\ LET a == accepting[g].as IN
       /\ nodes' = [nodes EXCEPT ![g] = @ \cup {a}]
       /\ mac_co_sac' = [mac_co_sac EXCEPT ![g][accepting[g].co] = a]
       /\ to_sync' = [to_sync EXCEPT ![g] = Append(@, a)]
    /\ accepting' = [accepting EXCEPT ![g].as = NoAs]
    /\ UNCHANGED <<CO_bitset, peer_up, wire, commands, airVars, asVars>>

\* The rest of gst_handover_complete_key, after the ACK has gone out.
FinishIni(g) ==
    /\ accepting[g] # Idle
    /\ LET a == accepting[g].as IN
       /\ nodes' = [nodes EXCEPT ![g] = @ \cup {a}]
       /\ mac_co_sac' = [mac_co_sac EXCEPT ![g][accepting[g].co] = a]
       /\ to_sync' = [to_sync EXCEPT ![g] = Append(@, a)]
    /\ accepting' = [accepting EXCEPT ![g] = Idle]
    /\ UNCHANGED <<CO_bitset, peer_up, wire, commands, airVars, asVars>>

\* Mutant of delete_lme_as_node_by_sac: without clear_as_man.
DeleteNodeOnly(g, a) ==
    /\ nodes' = [nodes EXCEPT ![g] = @ \ {a}]
    /\ UNCHANGED <<CO_bitset, mac_co_sac, to_sync>>

\* delete_lme_as_node_by_sac with clear_as_man.
DeleteNode(g, a) ==
    /\ nodes' = [nodes EXCEPT ![g] = @ \ {a}]
    /\ CO_bitset' = IF a \in nodes[g] /\ HasCo(g, a)
                    THEN [CO_bitset EXCEPT ![g] = @ \ {FirstCo(g, a)}]
                    ELSE CO_bitset
    /\ UNCHANGED <<mac_co_sac, to_sync>>

\* p2p_conn_recv of an acknowledgement: send_ho_com.
RecvAck(g) ==
    /\ Receives(g, "ack")
    /\ LET a == Head(wire[g]).as IN
       /\ ho_coms' = [ho_coms EXCEPT ![g] = @ \cup {[as |-> a, gs |-> Peer(g)]}]
       /\ DeleteNode(g, a)
    /\ wire' = [wire EXCEPT ![g] = Tail(@)]
    /\ UNCHANGED <<peer_up, accepting, commands, syncs, exits, asVars>>

\* p2p_conn_close of the connection g sends on: what was under way on it is lost.
PeerDown(g) ==
    /\ PeersFail /\ peer_up[g]
    /\ peer_up' = [peer_up EXCEPT ![g] = FALSE]
    /\ wire' = [wire EXCEPT ![Peer(g)] = <<>>]
    /\ UNCHANGED <<cellVars, accepting, commands, airVars, asVars>>

-----------------------------------------------------------------------------
(* Between ground station and aircraft.                                     *)

\* M_SAPC_L_cb, HO_COM: every station that hears it goes by it, whomever it names;
\* MAC_HO_REQ fails in MAC_HO2. The SNP counters it resets and the DLS frequency
\* are not in this module.
HoCom(g, com, heard) ==
    /\ com \in ho_coms[g]
    /\ ho_coms' = [ho_coms EXCEPT ![g] = @ \ {com}]
    /\ curr_gs' = [a \in As |-> IF a \in heard THEN com.gs ELSE curr_gs[a]]
    /\ mac' = [a \in As |-> IF a \in heard THEN "MAC_HO2" ELSE mac[a]]
    /\ UNCHANGED <<cellVars, peerVars, syncs, exits, left>>

\* trans_cc_sync_timer_func polls for its list, and every station that hears a
\* poll answers with its own SAC. The answer of a station that is not on the list
\* finds no entry there: it is not followed.
SyncPoll(a) ==
    /\ a \notin left
    /\ \E i \in DOMAIN to_sync[Tuned(a)] : to_sync[Tuned(a)][i] = a
    /\ syncs' = [syncs EXCEPT ![Tuned(a)] = @ \cup {a}]
    /\ UNCHANGED <<cellVars, peerVars, ho_coms, exits, asVars>>

\* MAC_SYNC_IND: the first entry for the station leaves the list.
Without(s, a) ==
    IF \E i \in DOMAIN s : s[i] = a
    THEN LET first == CHOOSE i \in DOMAIN s : s[i] = a /\ \A j \in 1 .. i - 1 : s[j] # a
         IN  SubSeq(s, 1, first - 1) \o SubSeq(s, first + 1, Len(s))
    ELSE s

SyncInd(g, a) ==
    /\ a \in syncs[g]
    /\ syncs' = [syncs EXCEPT ![g] = @ \ {a}]
    /\ to_sync' = [to_sync EXCEPT ![g] = Without(@, a)]
    /\ UNCHANGED <<nodes, CO_bitset, mac_co_sac, peerVars, ho_coms, exits, asVars>>

\* exit_LME_CONN_OPEN_action: to the ground station the station is tuned to.
Leave(a) ==
    /\ a \notin left
    /\ left' = left \cup {a}
    /\ exits' = [exits EXCEPT ![Tuned(a)] = @ \cup {a}]
    /\ UNCHANGED <<cellVars, peerVars, ho_coms, syncs, mac, curr_gs>>

\* M_SAPC_L_cb, CELL_EXIT; without a node nothing happens.
CellExit(g, a) ==
    /\ a \in exits[g]
    /\ exits' = [exits EXCEPT ![g] = @ \ {a}]
    /\ DeleteNode(g, a)
    /\ UNCHANGED <<peerVars, ho_coms, syncs, asVars>>

-----------------------------------------------------------------------------
\* All stations have entered the cell of gs1 and are open there.
Init ==
    /\ nodes = [g \in Gs |-> IF g = "gs1" THEN As ELSE {}]
    /\ \E held \in [As -> Co] :
          /\ \A a, b \in As : a # b => held[a] # held[b]
          /\ CO_bitset = [g \in Gs |-> IF g = "gs1" THEN {held[a] : a \in As} ELSE {}]
          /\ mac_co_sac = [g \in Gs |-> [c \in Co |->
                IF g = "gs1" /\ \E a \in As : held[a] = c
                THEN CHOOSE a \in As : held[a] = c ELSE NoAs]]
    /\ to_sync = [g \in Gs |-> <<>>]
    /\ peer_up = [g \in Gs |-> TRUE]
    /\ wire = [g \in Gs |-> <<>>]
    /\ accepting = [g \in Gs |-> Idle]
    /\ commands = 0
    /\ ho_coms = [g \in Gs |-> {}]
    /\ syncs = [g \in Gs |-> {}]
    /\ exits = [g \in Gs |-> {}]
    /\ mac = [a \in As |-> "MAC_OPEN"]
    /\ curr_gs = [a \in As |-> "gs1"]
    /\ left = {}

Audience(g) == {a \in As \ left : Tuned(a) = g}
Heard(g)    == IF Lossy THEN SUBSET Audience(g) ELSE {Audience(g)}

Next ==
    \/ \E g \in Gs :
          \/ \E a \in As : Command(g, a) \/ SyncInd(g, a) \/ CellExit(g, a)
          \/ \E accepted \in BOOLEAN : RecvIni(g, accepted)
          \/ FinishIni(g) \/ RecvAck(g) \/ PeerDown(g)
          \/ \E com \in ho_coms[g], heard \in Heard(g) : HoCom(g, com, heard)
    \/ \E a \in As : SyncPoll(a) \/ Leave(a)

Spec == Init /\ [][Next]_vars

-----------------------------------------------------------------------------
(***************************************************************************)
(* Properties                                                              *)
(***************************************************************************)
Message == [type : {"ini"}, as : As] \cup [type : {"ack"}, as : As, co : Co]

\* Type invariant: what each variable may hold.
HandoverTypeOK ==
    /\ nodes \in [Gs -> SUBSET As]
    /\ CO_bitset \in [Gs -> SUBSET Co]
    /\ mac_co_sac \in [Gs -> [Co -> As \cup {NoAs}]]
    /\ to_sync \in [Gs -> Seq(As)]
    /\ peer_up \in [Gs -> BOOLEAN]
    /\ wire \in [Gs -> Seq(Message)]
    /\ accepting \in [Gs -> [as : As, co : Co] \cup {Idle}]
    /\ commands \in 0 .. MaxHo
    /\ ho_coms \in [Gs -> SUBSET [as : As, gs : Gs]]
    /\ syncs \in [Gs -> SUBSET As]
    /\ exits \in [Gs -> SUBSET As]
    /\ mac \in [As -> {"MAC_OPEN", "MAC_HO2"}]
    /\ curr_gs \in [As -> Gs]
    /\ left \subseteq As

\* A station in the air is known to one of the ground stations, or one of them
\* is about to store its node: a handover that is refused, that loses a message
\* or its connection, or is overtaken by another, leaves no station unknown to
\* both, as long as each is handed over once at a time.
Kept ==
    Patient => \A a \in As \ left : \/ \E g \in Gs : a \in nodes[g]
                                    \/ \E g \in Gs : accepting[g].as = a

\* While a ground station has its peer, it has one control offset in use for each
\* node, and no other but that of a handover it is accepting.
OffsetsFollow ==
    Patient => \A g \in Gs : peer_up[g] =>
        /\ \A a \in nodes[g] : \E c \in CO_bitset[g] : mac_co_sac[g][c] = a
        /\ \A c \in CO_bitset[g] :
              \/ accepting[g] # Idle /\ accepting[g].co = c
              \/ /\ mac_co_sac[g][c] \in nodes[g]
                 /\ \A d \in CO_bitset[g] : mac_co_sac[g][d] = mac_co_sac[g][c] =>
                       d = c \/ (accepting[g] # Idle /\ accepting[g].co = d)
=============================================================================
