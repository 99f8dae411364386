------------------------------ MODULE AsAccess ------------------------------
(***************************************************************************)
(* Inside one aircraft station: the service thread that powers the stack   *)
(* on and authenticates (rcu.c, L_SAPC of lme.c), the threads that handle  *)
(* broadcast and control packets (lme_mms.c, lme_rms.c), the callback that *)
(* ends an authentication and the thread that flies the path, all of them  *)
(* working on the state machines of LME, MAC and SNP and on the shared     *)
(* finish_status that the service thread polls.                            *)
(***************************************************************************)
EXTENDS Naturals

CONSTANTS
    MaxGrants,  \* bound: answers of the cell to the station's repeated requests
    Retries     \* BOOLEAN: a terminal user repeats a failed authentication

ASSUME AccessAssumption == MaxGrants \in Nat \ {0} /\ Retries \in BOOLEAN

VARIABLES
    svc,            \* where the service thread is
    bc,             \* where the thread that handles broadcasts is
    snf,            \* authentication of the security functions
    pos,            \* the station's position on its path
    lme, mac, snp,  \* lme_fsm, mac_fsm, snp_fsm
    tuned,          \* PHY_CSCAN_REQ has set the receiver up
    ra_timer,       \* start_mms has registered the random access timer
    finish_status,  \* lme_layer_objs.finish_status
    rcu_status,     \* rcu_layer_obj.rcu_status
    need_access, has_access, need_exit,
    known,          \* the ground station has a node for the station
    grants,         \* CELL_RESPs it has sent in answer to requests
    resps,          \* CELL_RESPs under way
    served,         \* CELL_RESPs taken in: the station has a SAC and offsets
    exits           \* CELL_EXITs the station has handed to its MAC

threads == <<svc, bc, snf, pos>>
fsms    == <<lme, mac, snp>>
flags   == <<finish_status, rcu_status, need_access, has_access, need_exit>>
cell    == <<known, grants, resps>>
vars    == <<threads, fsms, tuned, ra_timer, flags, cell, served, exits>>

\* The path leads through the coverage of one ground station, then of the other,
\* then out of both; at its end the path thread returns.
Zone == {"before", "gs1", "gs2", "beyond"}

NextZone == [before |-> "gs1", gs1 |-> "gs2", gs2 |-> "beyond", beyond |-> "beyond"]

-----------------------------------------------------------------------------
(* The transitions that change_state admits.                                *)

LmeMoves ==
    {<<"LME_FSCANNING", "LME_CSCANNING">>,
     <<"LME_CSCANNING", "LME_CONNECTING">>, <<"LME_CSCANNING", "LME_FSCANNING">>,
     <<"LME_CONNECTING", "LME_AUTH">>, <<"LME_CONNECTING", "LME_CSCANNING">>,
     <<"LME_AUTH", "LME_OPEN">>, <<"LME_AUTH", "LME_FSCANNING">>,
     <<"LME_AUTH", "LME_CONNECTING">>,
     <<"LME_OPEN", "LME_FSCANNING">>, <<"LME_OPEN", "LME_CONNECTING">>}

\* The return from MAC_CONNECTING is misspelt in the table and never matches.
MacMoves ==
    {<<"MAC_FSCANNING", "MAC_CSCANNING">>,
     <<"MAC_CSCANNING", "MAC_FSCANNING">>, <<"MAC_CSCANNING", "MAC_CONNECTING">>,
     <<"MAC_CONNECTING", "MAC_AUTH">>,
     <<"MAC_AUTH", "MAC_CONNECTING">>, <<"MAC_AUTH", "MAC_OPEN">>,
     <<"MAC_AUTH", "MAC_FSCANNING">>,
     <<"MAC_OPEN", "MAC_AUTH">>, <<"MAC_OPEN", "MAC_HO2">>,
     <<"MAC_OPEN", "MAC_FSCANNING">>,
     <<"MAC_HO2", "MAC_OPEN">>}

SnpMoves ==
    {<<"SNP_CLOSED", "SNP_AUTH">>,
     <<"SNP_AUTH", "SNP_CLOSED">>, <<"SNP_AUTH", "SNP_OPEN">>,
     <<"SNP_OPEN", "SNP_CLOSED">>, <<"SNP_OPEN", "SNP_AUTH">>}

-----------------------------------------------------------------------------
(* The service thread: power-on and authentication.                         *)

\* rcu_power_on: the layers are made, the path thread starts, LME_OPEN_REQ
\* calls MAC_FSCAN_REQ.
PowerOn ==
    /\ svc = "off"
    /\ svc' = "scanning"
    /\ UNCHANGED <<bc, snf, pos, fsms, tuned, ra_timer, flags, cell, served, exits>>

\* L_SAPC enters LME_CSCANNING; MAC_CSCAN_REQ checks its state and has the PHY
\* receive broadcasts of the ground station.
EnterCscanning ==
    /\ svc = "scanning"
    /\ <<lme, "LME_CSCANNING">> \in LmeMoves
    /\ lme' = "LME_CSCANNING"
    /\ mac = "MAC_FSCANNING"
    /\ tuned' = TRUE
    /\ svc' = "tuning"
    /\ UNCHANGED <<bc, snf, pos, mac, snp, ra_timer, flags, cell, served, exits>>

\* The rest of MAC_CSCAN_REQ; L_SAPC then waits.
MacCscan ==
    /\ svc = "tuning"
    /\ <<mac, "MAC_CSCANNING">> \in MacMoves
    /\ mac' = "MAC_CSCANNING"
    /\ svc' = "wait_connect"
    /\ UNCHANGED <<bc, snf, pos, lme, snp, tuned, ra_timer, flags, cell, served, exits>>

\* The loop of L_SAPC ends, L_SAPC_cb runs, rcu_power_on returns.
PoweredOn ==
    /\ svc = "wait_connect"
    /\ finish_status = "LME_CONNECTING_FINISHED"
    /\ rcu_status' = "RCU_OPEN"
    /\ svc' = "powered"
    /\ UNCHANGED <<bc, snf, pos, fsms, tuned, ra_timer, finish_status, need_access,
                   has_access, need_exit, cell, served, exits>>

\* rcu_start_auth: LME_AUTH_REQ in L_SAPC, which fails in any state but
\* LME_CONNECTING.
StartAuth ==
    /\ svc = "powered" \/ (Retries /\ svc = "failed")
    /\ IF <<lme, "LME_AUTH">> \in LmeMoves
       THEN lme' = "LME_AUTH" /\ svc' = "entering"
       ELSE lme' = lme /\ svc' = "failed"
    /\ UNCHANGED <<bc, snf, pos, mac, snp, tuned, ra_timer, flags, cell, served, exits>>

\* entry_LME_AUTH: MAC_AUTH_REQ, SN_AUTH_REQ and snf_LME_AUTH, up to the first
\* that fails; LME stays in LME_AUTH.
EnterAuth(started) ==
    /\ svc = "entering"
    /\ LET macOk == mac = "MAC_CONNECTING"
           snpOk == macOk /\ snp = "SNP_CLOSED"
           ok    == snpOk /\ started
       IN  /\ mac' = IF macOk THEN "MAC_AUTH" ELSE mac
           /\ snp' = IF snpOk THEN "SNP_AUTH" ELSE snp
           /\ snf' = IF ok THEN "running" ELSE snf
           /\ svc' = IF ok THEN "wait_auth" ELSE "failed"
    /\ UNCHANGED <<bc, pos, lme, tuned, ra_timer, flags, cell, served, exits>>

\* The loop of L_SAPC ends, rcu_start_auth returns.
Authenticated ==
    /\ svc = "wait_auth"
    /\ finish_status = "LME_AUTH_FINISHED"
    /\ has_access' = TRUE
    /\ svc' = "done"
    /\ UNCHANGED <<bc, snf, pos, fsms, tuned, ra_timer, finish_status, rcu_status,
                   need_access, need_exit, cell, served, exits>>

-----------------------------------------------------------------------------
(* The other threads.                                                       *)

\* M_SAPB_cb, B_TYP_SIB: LME_CONNECTING is entered ...
Sib ==
    /\ tuned /\ bc = "idle"
    /\ lme = "LME_CSCANNING" /\ need_access
    /\ lme' = "LME_CONNECTING"
    /\ bc' = "connecting"
    /\ UNCHANGED <<svc, snf, pos, mac, snp, tuned, ra_timer, flags, cell, served, exits>>

\* ... and entry_LME_CONNECTING calls MAC_CONNECT_REQ, which may find the MAC in
\* another state, and only after it start_mms.
EnterConnecting ==
    /\ bc = "connecting"
    /\ bc' = "idle"
    /\ IF mac = "MAC_CSCANNING"
       THEN mac' = "MAC_CONNECTING" /\ ra_timer' = TRUE
       ELSE UNCHANGED <<mac, ra_timer>>
    /\ UNCHANGED <<svc, snf, pos, lme, snp, tuned, flags, cell, served, exits>>

\* The cell answers trans_ra_cr_timer_func: not a station it already knows,
\* unless an earlier request of its was passed on before the node was made.
Grant ==
    /\ ra_timer /\ lme = "LME_CONNECTING"
    /\ known => grants > 0
    /\ grants < MaxGrants
    /\ grants' = grants + 1
    /\ resps' = resps + 1
    /\ known' = TRUE
    /\ UNCHANGED <<threads, fsms, tuned, ra_timer, flags, served, exits>>

\* Mutant: the completion is not signalled.
CellRespMute ==
    /\ tuned /\ resps > 0
    /\ resps' = resps - 1
    /\ served' = served + 1
    /\ UNCHANGED <<threads, fsms, tuned, ra_timer, flags, known, grants, exits>>

\* Mutant: the same response is handled again and again.
CellRespAgain ==
    /\ tuned /\ resps > 0
    /\ served' = served + 1
    /\ finish_status' = "LME_CONNECTING_FINISHED"
    /\ UNCHANGED <<threads, fsms, tuned, ra_timer, rcu_status, need_access, has_access,
                   need_exit, cell, exits>>

\* M_SAPC_L_cb, CELL_RESP, in whatever state the station is.
CellResp ==
    /\ tuned /\ resps > 0
    /\ resps' = resps - 1
    /\ served' = served + 1
    /\ finish_status' = "LME_CONNECTING_FINISHED"
    /\ UNCHANGED <<threads, fsms, tuned, ra_timer, rcu_status, need_access, has_access,
                   need_exit, known, grants, exits>>

LoseResp ==
    /\ resps > 0
    /\ resps' = resps - 1
    /\ UNCHANGED <<threads, fsms, tuned, ra_timer, flags, known, grants, served, exits>>

\* M_SAPC_L_cb, HO_COM: MAC_HO_REQ.
HoCom ==
    /\ tuned
    /\ <<mac, "MAC_HO2">> \in MacMoves
    /\ mac' = "MAC_HO2"
    /\ UNCHANGED <<threads, lme, snp, tuned, ra_timer, flags, cell, served, exits>>

\* Mutant of as_finish_auth_func: the MAC is not told.
AuthFinishNoMac ==
    /\ snf = "running"
    /\ snf' = "finished"
    /\ lme' = "LME_OPEN"
    /\ snp' = "SNP_OPEN"
    /\ finish_status' = "LME_AUTH_FINISHED"
    /\ UNCHANGED <<svc, bc, pos, mac, tuned, ra_timer, rcu_status, need_access,
                   has_access, need_exit, cell, served, exits>>

\* as_finish_auth_func: change_LME_OPEN and entry_LME_OPEN, up to the first
\* that fails, and the signal in any case.
AuthFinish ==
    /\ snf = "running"
    /\ snf' = "finished"
    /\ LET lmeOk == <<lme, "LME_OPEN">> \in LmeMoves
           snpOk == lmeOk /\ snp = "SNP_AUTH"
           macOk == snpOk /\ <<mac, "MAC_OPEN">> \in MacMoves
       IN  /\ lme' = IF lmeOk THEN "LME_OPEN" ELSE lme
           /\ snp' = IF snpOk THEN "SNP_OPEN" ELSE snp
           /\ mac' = IF macOk THEN "MAC_OPEN" ELSE mac
    /\ finish_status' = "LME_AUTH_FINISHED"
    /\ UNCHANGED <<svc, bc, pos, tuned, ra_timer, rcu_status, need_access, has_access,
                   need_exit, cell, served, exits>>

\* What LME_OPEN_REQ holds its mutex for.
PoweringOn == svc \in {"scanning", "tuning", "wait_connect"}

\* Mutant: only an authentication that is going on is broken off.
PowerOffAuth ==
    IF lme = "LME_AUTH"
    THEN lme' = "LME_FSCANNING" /\ exits' = exits + 1 /\ rcu_status' = "RCU_OPEN"
    ELSE UNCHANGED <<lme, exits>> /\ rcu_status' = "RCU_CLOSED"

\* rcu_power_off: LME_OPEN_REQ (CLOSE) with exit_LME_CONN_OPEN_action. MAC and SNP
\* are not told, and L_SAPC_cb takes success for RCU_OPEN.
PowerOff ==
    IF lme \in {"LME_OPEN", "LME_AUTH"}
    THEN lme' = "LME_FSCANNING" /\ exits' = exits + 1 /\ rcu_status' = "RCU_OPEN"
    ELSE UNCHANGED <<lme, exits>> /\ rcu_status' = "RCU_CLOSED"

\* One round of path_function_thread: the station is still at pos or has come on.
Fly(zone) ==
    /\ svc # "off" /\ pos # "end"
    /\ zone \in {pos, NextZone[pos]}
    /\ pos' = zone
    /\ need_access' = (need_access \/ zone = "gs1")
    /\ IF has_access /\ ~need_exit /\ zone = "beyond"
       THEN ~PoweringOn /\ need_exit' = TRUE /\ PowerOff
       ELSE UNCHANGED <<need_exit, lme, exits, rcu_status>>
    /\ UNCHANGED <<svc, bc, snf, mac, snp, tuned, ra_timer, finish_status, has_access,
                   cell, served>>

\* The path has no further points.
PathEnds ==
    /\ pos = "beyond"
    /\ pos' = "end"
    /\ UNCHANGED <<svc, bc, snf, fsms, tuned, ra_timer, flags, cell, served, exits>>

-----------------------------------------------------------------------------
\* The ground station may know the station from an earlier life of its process,
\* with or without an answer to that one still under way.
Init ==
    /\ svc = "off" /\ bc = "idle" /\ snf = "none"
    /\ pos = "before"
    /\ lme = "LME_FSCANNING" /\ mac = "MAC_FSCANNING" /\ snp = "SNP_CLOSED"
    /\ tuned = FALSE /\ ra_timer = FALSE
    /\ finish_status = "LME_NO_STATE_FINISHED"
    /\ rcu_status = "RCU_CLOSED"
    /\ need_access = FALSE /\ has_access = FALSE /\ need_exit = FALSE
    /\ known \in BOOLEAN
    /\ grants = 0
    /\ resps \in IF known THEN 0 .. 1 ELSE {0}
    /\ served = 0
    /\ exits = 0

Service == \/ PowerOn \/ EnterCscanning \/ MacCscan \/ PoweredOn \/ StartAuth
           \/ \E started \in BOOLEAN : EnterAuth(started)
           \/ Authenticated

Next == \/ Service
        \/ Sib \/ EnterConnecting
        \/ Grant \/ CellResp \/ LoseResp \/ HoCom
        \/ AuthFinish
        \/ \E zone \in Zone : Fly(zone)
        \/ PathEnds

Spec == Init /\ [][Next]_vars

\* The threads run, the cell answers a first request, broadcasts are repeated in
\* every super frame, and the authentication comes to its end.
Fairness ==
    /\ WF_vars(Service)
    /\ WF_vars(Sib) /\ WF_vars(EnterConnecting)
    /\ WF_vars(Grant /\ grants = 0) /\ WF_vars(CellResp)
    /\ WF_vars(AuthFinish)
    /\ WF_vars(\E zone \in Zone : Fly(zone))

FairSpec == Spec /\ Fairness

-----------------------------------------------------------------------------
(***************************************************************************)
(* Properties                                                              *)
(***************************************************************************)

\* Type invariant: the states and flags of the threads and machines.
AccessTypeOK ==
    /\ svc \in {"off", "scanning", "tuning", "wait_connect", "powered", "entering",
                "wait_auth", "failed", "done"}
    /\ bc \in {"idle", "connecting"}
    /\ snf \in {"none", "running", "finished"}
    /\ pos \in Zone \union {"end"}
    /\ lme \in {"LME_FSCANNING", "LME_CSCANNING", "LME_CONNECTING", "LME_AUTH", "LME_OPEN"}
    /\ mac \in {"MAC_FSCANNING", "MAC_CSCANNING", "MAC_CONNECTING", "MAC_AUTH",
                "MAC_OPEN", "MAC_HO2"}
    /\ snp \in {"SNP_CLOSED", "SNP_AUTH", "SNP_OPEN"}
    /\ finish_status \in {"LME_NO_STATE_FINISHED", "LME_CONNECTING_FINISHED",
                          "LME_AUTH_FINISHED"}
    /\ rcu_status \in {"RCU_OPEN", "RCU_CLOSED"}
    /\ {tuned, ra_timer, need_access, has_access, need_exit, known} \subseteq BOOLEAN
    /\ grants \in 0 .. MaxGrants
    /\ {resps, served} \subseteq 0 .. MaxGrants + 1
    /\ exits \in 0 .. 1

\* Whatever the threads do in whatever order, a station whose LME is open can
\* send: MAC and SNP have followed; and rcu_start_auth reports success only of a
\* station that is open, or has left the cell since.
LayersFollow ==
    /\ lme = "LME_OPEN" => snp = "SNP_OPEN" /\ mac \in {"MAC_OPEN", "MAC_HO2"}
    /\ has_access => /\ snp = "SNP_OPEN"
                     /\ lme = "LME_OPEN" \/ (lme = "LME_FSCANNING" /\ exits = 1)

\* The ways to end without access. The broadcast is handled before MAC_CSCAN_REQ
\* has got to the change of state: MAC_CONNECT_REQ fails and no request is sent.
Overtaken == lme = "LME_CONNECTING" /\ bc = "idle" /\ ~ra_timer

\* The ground station has a node for the station and does not answer.
Refused == lme = "LME_CONNECTING" /\ known /\ resps = 0 /\ served = 0

\* A second CELL_RESP replaces LME_AUTH_FINISHED before the service thread,
\* which looks ten times a second, has seen it.
Overwritten == /\ svc = "wait_auth" /\ snf = "finished"
               /\ finish_status = "LME_CONNECTING_FINISHED"

\* rcu_power_on and rcu_start_auth end, with access or with an error, unless the
\* station was overtaken, refused or overwritten: no other order of the threads'
\* steps leaves the service thread waiting.
AccessEnds ==
    svc = "scanning" ~> svc \in {"done", "failed"} \/ Overtaken \/ Refused \/ Overwritten

\* A station that has access while a ground station covers it announces its exit
\* when it has flown out of the coverage of both, whatever has happened between.
ExitAnnounced == has_access /\ pos \in {"gs1", "gs2"} ~> exits = 1
=============================================================================
