------------------------------ MODULE CellEntry ------------------------------
(***************************************************************************)
(* How aircraft stations enter and leave one cell: the random access       *)
(* request repeated while a station is CONNECTING, the ground station that *)
(* has a SAC assigned (by its controller, at random, or both ways at once),*)
(* the node, the control offset and the CELL_RESP it makes of it           *)
(* (lme_mms.c, lme_rms.c), the station's authentication, CELL_EXIT, and    *)
(* stations whose process is stopped and started again.                    *)
(***************************************************************************)
EXTENDS Integers, FiniteSets

CONSTANTS
    Ua,          \* unique addresses, one for each station
    NoUa,        \* no node
    Sac,         \* the subscriber access codes that may be assigned
    CoMax,       \* CO_MAX
    Gsc,         \* BOOLEAN: is_merged and not is_beihang, the SACs are left to the
                 \* ground station controller
    Answers,     \* BOOLEAN: is there a controller that answers?
    MaxAsked,    \* bound on the requests for one UA the controller has to answer
    MaxResps,    \* bound on the CELL_RESPs under way
    MaxRestart,  \* bound on the restarts of each station
    Failing,     \* BOOLEAN: may the registration with the security functions fail?
    AuthFails,   \* BOOLEAN: may the authentication of a station fail?
    Lossy        \* BOOLEAN: may packets be lost?

ASSUME EntryAssumption == /\ NoUa \notin Ua
                          /\ Sac \subseteq Nat
                          /\ CoMax \in Nat \ {0}
                          /\ MaxAsked \in Nat \ {0}
                          /\ MaxResps \in Nat \ {0}
                          /\ MaxRestart \in Nat
                          /\ {Gsc, Answers, Failing, AuthFails, Lossy} \subseteq BOOLEAN

Co == 0 .. CoMax - 1

VARIABLES
    lme,         \* lme[u]: LME state of station u, "OFF" when not powered on
    as_sac,      \* as_sac[u]: AS_SAC at station u
    as_co,       \* as_co[u]: control offsets in lme_as_man.CO of station u
    restarts,    \* restarts[u]: how often u was started again
    ra,          \* stations with a random access request under way
    asked,       \* asked[u]: requests for u the controller has to answer
    nodes,       \* LME_GS_AUTH_AS: nodes[s] is the UA registered under SAC s
    setup,       \* the call of mms_setup_entity between node and control offset
    CO_bitset,   \* control offsets in use
    mac_co_sac,  \* the SAC last given each control offset
    cell_resps,  \* CELL_RESPs under way
    exits        \* SACs of the CELL_EXITs under way

asVars == <<lme, as_sac, as_co, restarts>>
gsVars == <<nodes, setup, CO_bitset, mac_co_sac>>
vars   == <<asVars, ra, asked, gsVars, cell_resps, exits>>

NoSetup == [sac |-> -1, ua |-> NoUa]
NoSac   == -1

-----------------------------------------------------------------------------
(* Station: looking for the cell.                                           *)

\* LME_OPEN_REQ: scanning until a BCCH SIB arrives (M_SAPB_cb, CSCANNING only).
PowerOn(u) ==
    /\ lme[u] = "OFF"
    /\ lme' = [lme EXCEPT ![u] = "CSCANNING"]
    /\ UNCHANGED <<as_sac, as_co, restarts, ra, asked, gsVars, cell_resps, exits>>

Sib(u) ==
    /\ lme[u] = "CSCANNING"
    /\ lme' = [lme EXCEPT ![u] = "CONNECTING"]
    /\ UNCHANGED <<as_sac, as_co, restarts, ra, asked, gsVars, cell_resps, exits>>

\* trans_ra_cr_timer_func, every super frame.
SendRa(u) ==
    /\ lme[u] = "CONNECTING"
    /\ ra' = ra \cup {u}
    /\ UNCHANGED <<asVars, asked, gsVars, cell_resps, exits>>

-----------------------------------------------------------------------------
(* Ground station: SAC, node, control offset.                               *)

\* lme_map_has_ua.
HasUa(u) == \E s \in Sac : nodes[s] = u

\* mms_setup_entity up to DLS_OPEN_REQ. A node that exists under the SAC stays
\* as it is; a failed registration ends the call and leaves the node.
SetupEntity(s, u, registered) ==
    /\ setup = NoSetup
    /\ nodes' = IF nodes[s] = NoUa THEN [nodes EXCEPT ![s] = u] ELSE nodes
    /\ setup' = IF registered THEN [sac |-> s, ua |-> u] ELSE NoSetup
    /\ UNCHANGED <<CO_bitset, mac_co_sac>>

Registered == IF Failing THEN BOOLEAN ELSE {TRUE}

\* Mutant of M_SAPR_cb: the request is forgotten instead of passed on.
RaIndForgets(u) ==
    /\ u \in ra
    /\ ra' = ra \ {u}
    /\ UNCHANGED <<asVars, asked, gsVars, cell_resps, exits>>

\* M_SAPR_cb outside the direct mode: a known UA is not served again.  For another
\* one a SAC is drawn at random, unless that is left to the controller, and the
\* controller is asked in either case.
RaInd(u) ==
    /\ u \in ra
    /\ ra' = ra \ {u}
    /\ IF HasUa(u)
       THEN UNCHANGED <<asked, gsVars>>
       ELSE /\ IF Gsc
               THEN UNCHANGED gsVars
               ELSE \E s \in Sac, r \in Registered : SetupEntity(s, u, r)
            /\ asked' = [asked EXCEPT ![u] = IF @ < MaxAsked THEN @ + 1 ELSE @]
    /\ UNCHANGED <<asVars, cell_resps, exits>>

\* The controller's answer (libldcauc): a SAC no other station holds.
GscGrant(u, s) ==
    /\ Answers /\ asked[u] > 0
    /\ nodes[s] \in {u, NoUa}
    /\ asked' = [asked EXCEPT ![u] = @ - 1]
    /\ \E r \in Registered : SetupEntity(s, u, r)
    /\ UNCHANGED <<asVars, ra, cell_resps, exits>>

\* bs_alloc_resource hands out the lowest free member.
LowestFree == CHOOSE c \in Co \ CO_bitset : \A d \in Co \ CO_bitset : c <= d

\* D_SAPC_cb: get_CO, set_mac_CO, CELL_RESP.
OpenDls ==
    /\ setup # NoSetup /\ CO_bitset # Co /\ Cardinality(cell_resps) < MaxResps
    /\ CO_bitset' = CO_bitset \cup {LowestFree}
    /\ mac_co_sac' = [mac_co_sac EXCEPT ![LowestFree] = setup.sac]
    /\ cell_resps' = cell_resps \cup
                        {[ua |-> setup.ua, sac |-> setup.sac, co |-> LowestFree]}
    /\ setup' = NoSetup
    /\ UNCHANGED <<asVars, ra, asked, nodes, exits>>

\* clear_mac_CO: the first entry for the SAC, which stays. An entry never written is 0.
HasCo(s) == \E c \in Co : mac_co_sac[c] = s

\* Mutant of clear_mac_CO: scans the table downwards.
LastCo(s) == CHOOSE c \in Co : /\ mac_co_sac[c] = s
                              /\ \A d \in c + 1 .. CoMax - 1 : mac_co_sac[d] # s

FirstCo(s) == CHOOSE c \in Co : /\ mac_co_sac[c] = s
                               /\ \A d \in 0 .. c - 1 : mac_co_sac[d] # s

\* Mutant: clear_as_man without hashmap_delete.
DeleteNodeKeeps(s) ==
    /\ CO_bitset' = IF nodes[s] # NoUa /\ HasCo(s)
                    THEN CO_bitset \ {FirstCo(s)} ELSE CO_bitset
    /\ UNCHANGED <<nodes, setup, mac_co_sac>>

\* delete_lme_as_node_by_sac with clear_as_man.
DeleteNode(s) ==
    /\ nodes' = [nodes EXCEPT ![s] = NoUa]
    /\ CO_bitset' = IF nodes[s] # NoUa /\ HasCo(s)
                    THEN CO_bitset \ {FirstCo(s)} ELSE CO_bitset
    /\ UNCHANGED <<setup, mac_co_sac>>

\* register_snf_failed, called when the authentication of a station fails.
SnfFailed(s) ==
    /\ AuthFails /\ nodes[s] # NoUa
    /\ DeleteNode(s)
    /\ UNCHANGED <<asVars, ra, asked, cell_resps, exits>>

\* Mutant: a CELL_EXIT is acted on again and again.
CellExitRepeats(s) ==
    /\ s \in exits
    /\ DeleteNode(s)
    /\ UNCHANGED <<asVars, ra, asked, cell_resps, exits>>

\* M_SAPC_L_cb, CELL_EXIT; without a node under that SAC nothing happens.
CellExit(s) ==
    /\ s \in exits
    /\ exits' = exits \ {s}
    /\ DeleteNode(s)
    /\ UNCHANGED <<asVars, ra, asked, cell_resps>>

-----------------------------------------------------------------------------
(* Station: in the cell.                                                    *)

\* M_SAPC_L_cb, CELL_RESP: whatever the state, once the receiver is tuned in.
CellResp(r) ==
    /\ r \in cell_resps
    /\ lme[r.ua] # "OFF"
    /\ cell_resps' = cell_resps \ {r}
    /\ as_sac' = [as_sac EXCEPT ![r.ua] = r.sac]
    /\ as_co' = [as_co EXCEPT ![r.ua] = @ \cup {r.co}]
    /\ UNCHANGED <<lme, restarts, ra, asked, gsVars, exits>>

\* rcu_start_auth, once rcu_power_on has seen the connection established.
StartAuth(u) ==
    /\ lme[u] = "CONNECTING" /\ as_co[u] # {}
    /\ lme' = [lme EXCEPT ![u] = "AUTH"]
    /\ UNCHANGED <<as_sac, as_co, restarts, ra, asked, gsVars, cell_resps, exits>>

\* Mutant: the exit is announced after the SAC has been reset.
LeaveReset(u) ==
    /\ lme[u] = "AUTH"
    /\ lme' = [lme EXCEPT ![u] = "FSCANNING"]
    /\ as_sac' = [as_sac EXCEPT ![u] = NoSac]
    /\ exits' = exits \cup {NoSac}
    /\ UNCHANGED <<as_co, restarts, ra, asked, gsVars, cell_resps>>

\* exit_LME_CONN_OPEN_action.
Leave(u) ==
    /\ lme[u] = "AUTH"
    /\ lme' = [lme EXCEPT ![u] = "FSCANNING"]
    /\ exits' = exits \cup {as_sac[u]}
    /\ UNCHANGED <<as_sac, as_co, restarts, ra, asked, gsVars, cell_resps>>

\* The station's process ends and another is started: only the cell remembers.
Restart(u) ==
    /\ lme[u] # "OFF" /\ restarts[u] < MaxRestart
    /\ restarts' = [restarts EXCEPT ![u] = @ + 1]
    /\ lme' = [lme EXCEPT ![u] = "OFF"]
    /\ as_sac' = [as_sac EXCEPT ![u] = NoSac]
    /\ as_co' = [as_co EXCEPT ![u] = {}]
    /\ UNCHANGED <<ra, asked, gsVars, cell_resps, exits>>

\* Packets that do not come through, also because the station that should send
\* or hear them is gone.
LoseRa(u) ==
    /\ Lossy /\ u \in ra
    /\ ra' = ra \ {u}
    /\ UNCHANGED <<asVars, asked, gsVars, cell_resps, exits>>

LoseResp(r) ==
    /\ (Lossy \/ lme[r.ua] = "OFF") /\ r \in cell_resps
    /\ cell_resps' = cell_resps \ {r}
    /\ UNCHANGED <<asVars, ra, asked, gsVars, exits>>

LoseExit(s) ==
    /\ Lossy /\ s \in exits
    /\ exits' = exits \ {s}
    /\ UNCHANGED <<asVars, ra, asked, gsVars, cell_resps>>

-----------------------------------------------------------------------------
Init ==
    /\ lme = [u \in Ua |-> "OFF"]
    /\ as_sac = [u \in Ua |-> NoSac]
    /\ as_co = [u \in Ua |-> {}]
    /\ restarts = [u \in Ua |-> 0]
    /\ ra = {}
    /\ asked = [u \in Ua |-> 0]
    /\ nodes = [s \in Sac |-> NoUa]
    /\ setup = NoSetup
    /\ CO_bitset = {}
    /\ mac_co_sac = [c \in Co |-> 0]
    /\ cell_resps = {}
    /\ exits = {}

Next ==
    \/ \E u \in Ua :
          \/ PowerOn(u) \/ Sib(u) \/ SendRa(u) \/ RaInd(u) \/ LoseRa(u)
          \/ StartAuth(u) \/ Leave(u) \/ Restart(u)
          \/ \E s \in Sac : GscGrant(u, s)
    \/ OpenDls
    \/ \E s \in Sac : SnfFailed(s) \/ CellExit(s) \/ LoseExit(s)
    \/ \E r \in cell_resps : CellResp(r) \/ LoseResp(r)

Spec == Init /\ [][Next]_vars

\* Timers repeat the request and upload the channels, the controller answers,
\* and the dashboard starts the authentication as soon as power-on returns.
Fairness ==
    /\ \A u \in Ua :
          /\ WF_vars(Sib(u)) /\ WF_vars(SendRa(u)) /\ WF_vars(RaInd(u))
          /\ WF_vars(\E s \in Sac : GscGrant(u, s))
          /\ WF_vars(StartAuth(u))
          /\ WF_vars(\E r \in cell_resps : r.ua = u /\ CellResp(r))
    /\ WF_vars(OpenDls)

FairSpec == Spec /\ Fairness

-----------------------------------------------------------------------------
(***************************************************************************)
(* Properties                                                              *)
(***************************************************************************)

\* Type invariant: what each variable of stations and ground station may hold.
EntryTypeOK ==
    /\ lme \in [Ua -> {"OFF", "CSCANNING", "CONNECTING", "AUTH", "FSCANNING"}]
    /\ as_sac \in [Ua -> Sac \cup {NoSac}]
    /\ as_co \in [Ua -> SUBSET Co]
    /\ restarts \in [Ua -> 0 .. MaxRestart]
    /\ ra \subseteq Ua
    /\ asked \in [Ua -> 0 .. MaxAsked]
    /\ nodes \in [Sac -> Ua \cup {NoUa}]
    /\ setup \in [sac : Sac, ua : Ua] \cup {NoSetup}
    /\ CO_bitset \subseteq Co
    /\ mac_co_sac \in [Co -> Sac \cup {0}]
    /\ cell_resps \subseteq [ua : Ua, sac : Sac, co : Co]
    /\ \A u \in Ua : lme[u] = "AUTH" => as_sac[u] \in Sac
    /\ \A u \in Ua : as_co[u] # {} => as_sac[u] \in Sac
    /\ exits \subseteq Sac

\* A station the ground station knows, and refuses to serve again, has a control
\* offset whose messages are ascribed to its SAC, unless it is being given one
\* at this moment: exits of other stations, the reuse of SACs and of control
\* offsets, doubled grants and the entries clear_mac_CO leaves behind do not
\* take it away.
RegisteredHasCo ==
    ~Failing =>
        \A s \in Sac : nodes[s] # NoUa /\ setup.sac # s
                          => \E c \in CO_bitset : mac_co_sac[c] = s

\* With a controller that answers one request for a UA at a time, a control
\* offset in use belongs to a registered station, and to one that has no other:
\* each exit gives back what the station held, however entries of mac_co_sac
\* and requests that arrive late are mixed up.
CoAccounted ==
    Gsc /\ MaxAsked = 1 /\ ~AuthFails =>
        \A c \in CO_bitset :
            /\ mac_co_sac[c] \in Sac /\ nodes[mac_co_sac[c]] # NoUa
            /\ \A d \in CO_bitset : mac_co_sac[c] = mac_co_sac[d] => c = d

\* Stations in the cell never hold the same control offset, though a CELL_EXIT
\* or a CELL_RESP may be overtaken by restarts and by new grants.
InCell(u) == lme[u] \in {"CONNECTING", "AUTH"}

NoSharedCo ==
    Gsc /\ MaxAsked = 1 /\ ~AuthFails =>
        \A u, v \in Ua : u # v /\ InCell(u) /\ InCell(v) => as_co[u] \cap as_co[v] = {}

\* A station that asks for access is eventually authenticated, when nothing is lost.
EveryoneEnters == \A u \in Ua : lme[u] = "CONNECTING" ~> lme[u] = "AUTH"
==============================================================================
