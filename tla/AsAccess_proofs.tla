--------------------------- MODULE AsAccess_proofs ---------------------------
(* Proofs about AsAccess, for every bound on the answers of the cell, with    *)
(* and without a user who repeats a failed authentication.                    *)
EXTENDS AsAccess, TLAPS

\* No more responses are under way or taken in than the cell has sent, and the
\* one from an earlier life.
RespInv == resps + served <= grants + 1

\* Before the security functions start, nothing of an access is there.
NoneInv ==
    snf = "none" =>
        /\ svc \notin {"wait_auth", "done"}
        /\ svc = "entering" => lme = "LME_AUTH"
        /\ lme # "LME_OPEN"
        /\ finish_status # "LME_AUTH_FINISHED"
        /\ ~has_access /\ exits = 0

\* While they run, the three machines stand at authentication.
RunningInv ==
    snf = "running" =>
        /\ svc = "wait_auth"
        /\ lme = "LME_AUTH" /\ mac = "MAC_AUTH" /\ snp = "SNP_AUTH"
        /\ finish_status # "LME_AUTH_FINISHED"
        /\ ~has_access /\ exits = 0

\* Afterwards the station is open, or has left.
FinishedInv ==
    snf = "finished" =>
        /\ svc \in {"wait_auth", "done"}
        /\ mac \in {"MAC_OPEN", "MAC_HO2"} /\ snp = "SNP_OPEN"
        /\ \/ lme = "LME_OPEN" /\ exits = 0
           \/ lme = "LME_FSCANNING" /\ exits = 1

\* The inductive invariant.
IInv == AccessTypeOK /\ RespInv /\ NoneInv /\ RunningInv /\ FinishedInv

LEMMA InitIInv == Init => IInv
<1> SUFFICES ASSUME Init PROVE IInv
  OBVIOUS
<1> USE AccessAssumption DEF Init
<1>1. known \in BOOLEAN /\ resps \in 0 .. 1
  OBVIOUS
<1>2. AccessTypeOK
  <2>1. {tuned, ra_timer, need_access, has_access, need_exit, known} \subseteq BOOLEAN
    BY <1>1
  <2>2. {resps, served} \subseteq 0 .. MaxGrants + 1
    BY <1>1
  <2>3. grants \in 0 .. MaxGrants /\ exits \in 0 .. 1
    OBVIOUS
  <2> QED BY <2>1, <2>2, <2>3, Zenon DEF AccessTypeOK, Zone
<1>3. RespInv
  BY <1>1 DEF RespInv
<1>4. NoneInv /\ RunningInv /\ FinishedInv
  BY DEF NoneInv, RunningInv, FinishedInv
<1> QED BY <1>2, <1>3, <1>4 DEF IInv

LEMMA StepIInv == IInv /\ [Next]_vars => IInv'
<1> SUFFICES ASSUME IInv, [Next]_vars PROVE IInv'
  OBVIOUS
<1> USE AccessAssumption
    DEF IInv, AccessTypeOK, RespInv, NoneInv, RunningInv, FinishedInv, Zone,
        threads, fsms, flags, cell
<1>1. CASE PowerOn
  BY <1>1 DEF PowerOn
<1>2. CASE EnterCscanning
  BY <1>2 DEF EnterCscanning, LmeMoves
<1>3. CASE MacCscan
  BY <1>3 DEF MacCscan, MacMoves
<1>4. CASE PoweredOn
  BY <1>4 DEF PoweredOn
<1>5. CASE StartAuth
  BY <1>5 DEF StartAuth, LmeMoves
<1>6. ASSUME NEW started \in BOOLEAN, EnterAuth(started) PROVE IInv'
  BY <1>6 DEF EnterAuth
<1>7. CASE Authenticated
  BY <1>7 DEF Authenticated
<1>8. CASE Sib
  BY <1>8 DEF Sib
<1>9. CASE EnterConnecting
  <2>1. CASE mac = "MAC_CSCANNING"
    BY <1>9, <2>1 DEF EnterConnecting
  <2>2. CASE mac # "MAC_CSCANNING"
    BY <1>9, <2>2 DEF EnterConnecting
  <2> QED BY <2>1, <2>2
<1>10. CASE Grant
  BY <1>10 DEF Grant
<1>11. CASE CellResp
  BY <1>11 DEF CellResp
<1>12. CASE LoseResp
  BY <1>12 DEF LoseResp
<1>13. CASE HoCom
  BY <1>13 DEF HoCom, MacMoves
<1>14. CASE AuthFinish
  BY <1>14 DEF AuthFinish, LmeMoves, MacMoves
<1>15. ASSUME NEW zone \in Zone, Fly(zone) PROVE IInv'
  <2>1. CASE has_access /\ ~need_exit /\ zone = "beyond"
    <3>1. snf = "finished"
      BY <2>1
    <3> QED BY <1>15, <2>1, <3>1 DEF Fly, PowerOff
  <2>2. CASE ~(has_access /\ ~need_exit /\ zone = "beyond")
    BY <1>15, <2>2 DEF Fly
  <2> QED BY <2>1, <2>2
<1>16. CASE PathEnds
  BY <1>16 DEF PathEnds
<1>17. CASE UNCHANGED vars
  BY <1>17 DEF vars
<1> QED
  BY <1>1, <1>2, <1>3, <1>4, <1>5, <1>6, <1>7, <1>8, <1>9, <1>10, <1>11,
     <1>12, <1>13, <1>14, <1>15, <1>16, <1>17 DEF Next, Service

LEMMA Inductive == Spec => []IInv
  BY InitIInv, StepIInv, PTL DEF Spec

\* The states and flags of every thread and machine keep their types.
THEOREM TypeCorrect == Spec => []AccessTypeOK
<1>1. IInv => AccessTypeOK
  BY DEF IInv
<1> QED BY <1>1, Inductive, PTL

\* An open LME has an open SNP and a MAC that can send, and rcu_start_auth
\* reports success only of a station that is open or has left since.
THEOREM OpenTogether == Spec => []LayersFollow
<1>1. IInv => LayersFollow
  BY DEF IInv, AccessTypeOK, NoneInv, RunningInv, FinishedInv, LayersFollow
<1> QED BY <1>1, Inductive, PTL
=============================================================================
