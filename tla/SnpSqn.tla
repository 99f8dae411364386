------------------------------- MODULE SnpSqn -------------------------------
(***************************************************************************)
(* The sub-network protocol layer (src/src/layer/snp): the SNP state       *)
(* machine that admits traffic, the T_SQN counters of lme_as_man_t and the *)
(* acceptance window of process_snp, over an air interface that loses,     *)
(* repeats, reorders and damages PDUs.                                     *)
(*                                                                         *)
(* A flow is one direction of one AS/GS pair.  The sender's send_T_SQN and *)
(* the receiver's recv_T_SQN of a flow are 32-bit counters of two          *)
(* different processes; the SQN field of the PDU is SqnMod (2^24) wide.    *)
(***************************************************************************)
EXTENDS Integers, Sequences, FiniteSets

CONSTANTS
    Flow,      \* directions of AS/GS pairs
    AsFlow,    \* those whose sender is an AS, which starts in SNP_CLOSED
    SqnMod,    \* number of values of the SQN field of the wire format
    SqnRange,  \* SNP_SQN_RANGE
    MaxSent    \* bound: SQNs a sender takes (send_T_SQN itself is 32 bits)

ASSUME SnpAssumption == /\ AsFlow \subseteq Flow
                        /\ SqnMod \in Nat \ {0}
                        /\ SqnRange \in Nat
                        /\ MaxSent \in Nat

VARIABLES
    snp,        \* snp[f]: state of the sender's snp_fsm
    send_T_SQN, \* send_T_SQN[f]: next SQN of the sender
    recv_T_SQN, \* recv_T_SQN[f]: least SQN the receiver still accepts
    air,        \* PDUs under way
    delivered   \* delivered[f]: the PDUs handed up by SN_DATA_IND(VER_PASS)

vars == <<snp, send_T_SQN, recv_T_SQN, air, delivered>>

SnpState == {"SNP_CLOSED", "SNP_AUTH", "SNP_OPEN"}
Plane    == {"user", "control"}

\* The value the ft_sqn field carries for the n-th PDU of a flow.
Wire(n) == n % SqnMod

\* num tells PDUs apart (no field carries it); intact is what
\* snpsub_vfy_hmac finds out.
Pdu == [flow : Flow, num : Nat, intact : BOOLEAN]

\* Type invariant: counters within their bounds, PDUs of known flows.
SnpTypeOK ==
    /\ snp \in [Flow -> SnpState]
    /\ send_T_SQN \in [Flow -> 0 .. MaxSent]
    /\ recv_T_SQN \in [Flow -> 0 .. SqnMod]
    /\ air \in SUBSET Pdu
    /\ delivered \in [Flow -> Seq(Nat)]

-----------------------------------------------------------------------------
\* make_snp_layer, and init_as_man for the counters.
Init ==
    /\ snp = [f \in Flow |-> IF f \in AsFlow THEN "SNP_CLOSED" ELSE "SNP_OPEN"]
    /\ send_T_SQN = [f \in Flow |-> 0]
    /\ recv_T_SQN = [f \in Flow |-> 0]
    /\ air = {}
    /\ delivered = [f \in Flow |-> <<>>]

\* SN_SAPC, SN_AUTH_REQ.
SnAuthReq(f) ==
    /\ snp[f] = "SNP_CLOSED"
    /\ snp' = [snp EXCEPT ![f] = "SNP_AUTH"]
    /\ UNCHANGED <<send_T_SQN, recv_T_SQN, air, delivered>>

\* SN_SAPC, SN_OPEN_REQ.
SnOpenReq(f) ==
    /\ snp[f] = "SNP_AUTH"
    /\ snp' = [snp EXCEPT ![f] = "SNP_OPEN"]
    /\ UNCHANGED <<send_T_SQN, recv_T_SQN, air, delivered>>

\* SN_SAPD refuses everything in SNP_CLOSED and user data in SNP_AUTH.
Admitted(f, plane) ==
    /\ snp[f] # "SNP_CLOSED"
    /\ ~(snp[f] = "SNP_AUTH" /\ plane = "user")

\* SN_SAPD past its guards: the SQN is taken before the PDU is serialised.  A
\* failing out_struct returns without a PDU; a failing snpsub_calc_hmac is only
\* logged, the PDU goes out with no MAC and cannot verify.
SnDataReq(f, plane, outcome) ==
    /\ Admitted(f, plane)
    /\ send_T_SQN[f] < MaxSent
    /\ send_T_SQN' = [send_T_SQN EXCEPT ![f] = @ + 1]
    /\ air' = IF outcome = "no_struct" THEN air
              ELSE air \cup {[flow |-> f, num |-> send_T_SQN[f],
                              intact |-> outcome = "sent"]}
    /\ UNCHANGED <<snp, recv_T_SQN, delivered>>

-----------------------------------------------------------------------------
\* Mutants of the window: symmetric about recv_T_SQN; open upwards.
InWindowSymmetric(f, sqn) == /\ sqn >= recv_T_SQN[f] - SqnRange
                             /\ sqn <= recv_T_SQN[f] + SqnRange
InWindowOpen(f, sqn) == sqn >= recv_T_SQN[f]

\* The window of process_snp: not below recv_T_SQN, and at most SqnRange above.
InWindow(f, sqn) ==
    /\ sqn >= recv_T_SQN[f]
    /\ sqn - recv_T_SQN[f] <= SqnRange

\* Mutant of the update: past the next SQN.
NextSqnSkips(sqn) == sqn + 2

\* What process_snp leaves in recv_T_SQN, a counter wider than the SQN field.
NextSqn(sqn) == sqn + 1

\* D_SAPD_cb hands a PDU to process_snp and the PDU passes; the air may still
\* hold a copy of it.  recv_T_SQN advances before the payload is decrypted: a
\* failing snpsub_crypto drops the PDU and leaves the counter advanced.
ProcessSnp(p, repeated, decrypted) ==
    /\ p.intact
    /\ InWindow(p.flow, Wire(p.num))
    /\ recv_T_SQN' = [recv_T_SQN EXCEPT ![p.flow] = NextSqn(Wire(p.num))]
    /\ delivered' = IF decrypted
                    THEN [delivered EXCEPT ![p.flow] = Append(@, p.num)]
                    ELSE delivered
    /\ air' = IF repeated THEN air ELSE air \ {p}
    /\ UNCHANGED <<snp, send_T_SQN>>

\* The radio loses a PDU, or process_snp rejects it (VER_WRONG_MAC,
\* VER_WRONG_SQN), which changes nothing else.
Lose(p) ==
    /\ air' = air \ {p}
    /\ UNCHANGED <<snp, send_T_SQN, recv_T_SQN, delivered>>

\* The radio damages a PDU.
Damage(p) ==
    /\ air' = (air \ {p}) \cup {[p EXCEPT !.intact = FALSE]}
    /\ UNCHANGED <<snp, send_T_SQN, recv_T_SQN, delivered>>

Next ==
    \/ \E f \in Flow :
          \/ SnAuthReq(f)
          \/ SnOpenReq(f)
          \/ \E plane \in Plane, o \in {"sent", "no_mac", "no_struct"} :
                SnDataReq(f, plane, o)
    \/ \E p \in air :
          \/ \E repeated, decrypted \in BOOLEAN :
                ProcessSnp(p, repeated, decrypted)
          \/ Lose(p)
          \/ Damage(p)

Spec == Init /\ [][Next]_vars

-----------------------------------------------------------------------------
(***************************************************************************)
(* Properties                                                              *)
(***************************************************************************)

\* While the sender has not used up the SQN field, PDUs are handed up in the
\* order in which SN_SAPD numbered them, with gaps where PDUs were lost.
InOrder ==
    \A f \in Flow : \A i, j \in DOMAIN delivered[f] :
        i < j => delivered[f][i] < delivered[f][j]

\* recv_T_SQN never wraps while the SQN field does: a flow hands up at most
\* SqnMod PDUs in the life of its lme_as_man_t.
LifetimeBounded == \A f \in Flow : Len(delivered[f]) <= SqnMod

\* More than SqnRange SQNs in a row are lost: the sender is past the window
\* and nothing under way falls into it.
Deaf(f) ==
    /\ send_T_SQN[f] > recv_T_SQN[f] + SqnRange
    /\ \A p \in air : p.flow = f /\ p.intact => ~InWindow(f, Wire(p.num))

\* The window has no way back: after a burst of losses longer than
\* SNP_SQN_RANGE a flow hands up nothing more (until the SQN field wraps), for
\* process_snp moves recv_T_SQN for accepted PDUs only.
DeafStaysDeaf ==
    [][\A f \in Flow : Deaf(f) => Deaf(f)' /\ delivered'[f] = delivered[f]]_vars

\* The pipe of OrderedDelivery is what SNP implements.
Pipe == INSTANCE OrderedDelivery WITH sent <- send_T_SQN
ImplementsPipe == Pipe!Spec
=============================================================================
