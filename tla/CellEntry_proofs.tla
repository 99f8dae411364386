--------------------------- MODULE CellEntry_proofs ---------------------------
(* Proofs about CellEntry, for every number of stations, access codes and     *)
(* control offsets, with restarts, losses and late packets at will.           *)
EXTENDS CellEntry, TLAPS, WellFoundedInduction

\* A nonempty set of naturals has a least member.
LEMMA LeastExists ==
  ASSUME NEW T, T \subseteq Nat, T # {}
  PROVE  \E x \in T : \A y \in T : x <= y
<1>1. IsWellFoundedOn(OpToRel(<, Nat), Nat)
  BY NatLessThanWellFounded
<1>2. PICK x \in T : \A y \in T : ~ (<<y, x>> \in OpToRel(<, Nat))
  BY <1>1, WFMin
<1>3. \A y \in T : ~ (y < x)
  BY <1>2 DEF OpToRel
<1> QED BY <1>3

(***************************************************************************)
(* The helpers.                                                            *)
(***************************************************************************)

\* bs_alloc_resource returns a free control offset, all below which are in use.
LEMMA LowestFreeFacts ==
  ASSUME CO_bitset # Co, CO_bitset \subseteq Co
  PROVE  /\ LowestFree \in Co /\ LowestFree \notin CO_bitset
         /\ \A d \in 0 .. LowestFree - 1 : d \in CO_bitset
<1>1. \E c \in Co \ CO_bitset : \A d \in Co \ CO_bitset : c <= d
  <2>1. Co \ CO_bitset \subseteq Nat
    BY EntryAssumption DEF Co
  <2>2. Co \ CO_bitset # {}
    OBVIOUS
  <2> QED BY <2>1, <2>2, LeastExists
<1>2. LowestFree \in Co \ CO_bitset /\ \A d \in Co \ CO_bitset : LowestFree <= d
  BY <1>1 DEF LowestFree
<1>3. ASSUME NEW d \in 0 .. LowestFree - 1 PROVE d \in CO_bitset
  BY <1>2, <1>3, EntryAssumption DEF Co
<1> QED BY <1>2, <1>3

\* clear_mac_CO finds the first entry of the SAC, if there is one.
LEMMA FirstCoFacts ==
  ASSUME NEW s, HasCo(s)
  PROVE  /\ FirstCo(s) \in Co /\ mac_co_sac[FirstCo(s)] = s
         /\ \A d \in 0 .. FirstCo(s) - 1 : mac_co_sac[d] # s
<1> DEFINE T == {c \in Co : mac_co_sac[c] = s}
<1>1. PICK c \in T : \A d \in T : c <= d
  <2>1. T \subseteq Nat /\ T # {}
    BY EntryAssumption DEF Co, HasCo
  <2> QED BY <2>1, LeastExists
<1>2. \A d \in 0 .. c - 1 : mac_co_sac[d] # s
  <2> SUFFICES ASSUME NEW d \in 0 .. c - 1, mac_co_sac[d] = s PROVE FALSE
    OBVIOUS
  <2>1. d \in T
    BY <1>1, EntryAssumption DEF Co
  <2> QED BY <2>1, <1>1, EntryAssumption DEF Co
<1>3. \E x \in Co : /\ mac_co_sac[x] = s
                    /\ \A d \in 0 .. x - 1 : mac_co_sac[d] # s
  BY <1>1, <1>2
<1> QED BY <1>3 DEF FirstCo

\* The setup in progress is of a SAC and a UA.
LEMMA SetupFacts ==
  ASSUME EntryTypeOK, setup # NoSetup
  PROVE  setup = [sac |-> setup.sac, ua |-> setup.ua] /\ setup.sac \in Sac /\ setup.ua \in Ua
BY DEF EntryTypeOK

-----------------------------------------------------------------------------
(***************************************************************************)
(* Types.                                                                  *)
(***************************************************************************)

LEMMA TypeInit == Init => EntryTypeOK
<1> SUFFICES ASSUME Init PROVE EntryTypeOK
  OBVIOUS
<1> QED BY EntryAssumption DEF Init, EntryTypeOK, NoSac, Co

LEMMA SetupEntityType ==
  ASSUME EntryTypeOK, NEW s \in Sac, NEW u \in Ua, NEW r, SetupEntity(s, u, r)
  PROVE  /\ nodes' \in [Sac -> Ua \cup {NoUa}]
         /\ setup' \in [sac : Sac, ua : Ua] \cup {NoSetup}
         /\ UNCHANGED <<CO_bitset, mac_co_sac>>
BY DEF SetupEntity, EntryTypeOK

LEMMA DeleteNodeType ==
  ASSUME EntryTypeOK, NEW s \in Sac, DeleteNode(s)
  PROVE  /\ nodes' \in [Sac -> Ua \cup {NoUa}]
         /\ CO_bitset' \subseteq CO_bitset
         /\ UNCHANGED <<setup, mac_co_sac>>
BY DEF DeleteNode, EntryTypeOK

LEMMA TypeNext == EntryTypeOK /\ [Next]_vars => EntryTypeOK'
<1> SUFFICES ASSUME EntryTypeOK, [Next]_vars PROVE EntryTypeOK'
  OBVIOUS
<1> USE EntryAssumption
<1>1. ASSUME NEW u \in Ua, PowerOn(u) PROVE EntryTypeOK'
  BY <1>1 DEF PowerOn, EntryTypeOK, gsVars
<1>2. ASSUME NEW u \in Ua, Sib(u) PROVE EntryTypeOK'
  BY <1>2 DEF Sib, EntryTypeOK, gsVars
<1>3. ASSUME NEW u \in Ua, SendRa(u) PROVE EntryTypeOK'
  BY <1>3 DEF SendRa, EntryTypeOK, asVars, gsVars
<1>4. ASSUME NEW u \in Ua, RaInd(u) PROVE EntryTypeOK'
  <2>1. CASE HasUa(u)
    BY <1>4, <2>1 DEF RaInd, EntryTypeOK, asVars, gsVars
  <2>2. CASE ~ HasUa(u) /\ Gsc
    <3>1. asked' \in [Ua -> 0 .. MaxAsked]
      BY <1>4, <2>2 DEF RaInd, EntryTypeOK
    <3> QED BY <1>4, <2>2, <3>1 DEF RaInd, EntryTypeOK, asVars, gsVars
  <2>3. CASE ~ HasUa(u) /\ ~ Gsc
    <3>1. PICK s \in Sac, r \in Registered : SetupEntity(s, u, r)
      BY <1>4, <2>3 DEF RaInd
    <3>2. asked' \in [Ua -> 0 .. MaxAsked]
      BY <1>4, <2>3 DEF RaInd, EntryTypeOK
    <3> QED BY <1>4, <2>3, <3>1, <3>2, SetupEntityType DEF RaInd, EntryTypeOK, asVars
  <2> QED BY <2>1, <2>2, <2>3
<1>5. ASSUME NEW u \in Ua, LoseRa(u) PROVE EntryTypeOK'
  BY <1>5 DEF LoseRa, EntryTypeOK, asVars, gsVars
<1>6. ASSUME NEW u \in Ua, StartAuth(u) PROVE EntryTypeOK'
  BY <1>6 DEF StartAuth, EntryTypeOK, gsVars
<1>7. ASSUME NEW u \in Ua, Leave(u) PROVE EntryTypeOK'
  BY <1>7 DEF Leave, EntryTypeOK, gsVars
<1>8. ASSUME NEW u \in Ua, Restart(u) PROVE EntryTypeOK'
  <2>1. restarts' \in [Ua -> 0 .. MaxRestart]
    BY <1>8 DEF Restart, EntryTypeOK
  <2> QED BY <1>8, <2>1 DEF Restart, EntryTypeOK, gsVars
<1>9. ASSUME NEW u \in Ua, NEW s \in Sac, GscGrant(u, s) PROVE EntryTypeOK'
  <2>1. PICK r \in Registered : SetupEntity(s, u, r)
    BY <1>9 DEF GscGrant
  <2>2. asked' \in [Ua -> 0 .. MaxAsked]
    BY <1>9 DEF GscGrant, EntryTypeOK
  <2> QED BY <1>9, <2>1, <2>2, SetupEntityType DEF GscGrant, EntryTypeOK, asVars
<1>10. ASSUME OpenDls PROVE EntryTypeOK'
  <2>1. LowestFree \in Co
    BY <1>10, LowestFreeFacts DEF OpenDls, EntryTypeOK
  <2>2. setup.sac \in Sac /\ setup.ua \in Ua
    BY <1>10, SetupFacts DEF OpenDls
  <2>3. mac_co_sac' \in [Co -> Sac \cup {0}]
    BY <1>10, <2>1, <2>2 DEF OpenDls, EntryTypeOK
  <2>4. cell_resps' \subseteq [ua : Ua, sac : Sac, co : Co]
    BY <1>10, <2>1, <2>2 DEF OpenDls, EntryTypeOK
  <2> QED BY <1>10, <2>1, <2>3, <2>4 DEF OpenDls, EntryTypeOK, asVars
<1>11. ASSUME NEW s \in Sac, SnfFailed(s) PROVE EntryTypeOK'
  BY <1>11, DeleteNodeType DEF SnfFailed, EntryTypeOK, asVars
<1>12. ASSUME NEW s \in Sac, CellExit(s) PROVE EntryTypeOK'
  BY <1>12, DeleteNodeType DEF CellExit, EntryTypeOK, asVars
<1>13. ASSUME NEW s \in Sac, LoseExit(s) PROVE EntryTypeOK'
  BY <1>13 DEF LoseExit, EntryTypeOK, asVars, gsVars
<1>14. ASSUME NEW r \in cell_resps, CellResp(r) PROVE EntryTypeOK'
  BY <1>14 DEF CellResp, EntryTypeOK, gsVars
<1>15. ASSUME NEW r \in cell_resps, LoseResp(r) PROVE EntryTypeOK'
  BY <1>15 DEF LoseResp, EntryTypeOK, asVars, gsVars
<1>16. CASE UNCHANGED vars
  BY <1>16 DEF EntryTypeOK, vars, asVars, gsVars
<1> QED BY <1>1, <1>2, <1>3, <1>4, <1>5, <1>6, <1>7, <1>8, <1>9, <1>10, <1>11,
           <1>12, <1>13, <1>14, <1>15, <1>16 DEF Next

\* Whatever stations and packets do, every variable keeps its type.
THEOREM TypeCorrect == Spec => []EntryTypeOK
BY TypeInit, TypeNext, PTL DEF Spec

-----------------------------------------------------------------------------
(***************************************************************************)
(* A registered station has a control offset.                              *)
(***************************************************************************)

LEMMA SetupKeepsServed ==
  ASSUME EntryTypeOK, RegisteredHasCo, ~ Failing,
         NEW s \in Sac, NEW u \in Ua, NEW r \in Registered, SetupEntity(s, u, r)
  PROVE  RegisteredHasCo'
<1>1. r = TRUE
  BY DEF Registered
<1>2. setup = NoSetup /\ setup' = [sac |-> s, ua |-> u]
  BY <1>1 DEF SetupEntity
<1>3. setup'.sac = s /\ setup.sac = -1
  BY <1>2 DEF NoSetup
<1> SUFFICES ASSUME NEW t \in Sac, nodes'[t] # NoUa, t # s
             PROVE  \E c \in CO_bitset' : mac_co_sac'[c] = t
  BY <1>3 DEF RegisteredHasCo
<1>4. nodes[t] # NoUa
  BY DEF SetupEntity, EntryTypeOK
<1>5. setup.sac # t
  BY <1>3, EntryAssumption
<1> QED BY <1>4, <1>5 DEF RegisteredHasCo, SetupEntity

LEMMA OpenKeepsServed ==
  ASSUME EntryTypeOK, RegisteredHasCo, ~ Failing, OpenDls
  PROVE  RegisteredHasCo'
<1>1. LowestFree \in Co /\ LowestFree \notin CO_bitset
  BY LowestFreeFacts DEF OpenDls, EntryTypeOK
<1>2. /\ CO_bitset' = CO_bitset \cup {LowestFree}
      /\ mac_co_sac' = [mac_co_sac EXCEPT ![LowestFree] = setup.sac]
      /\ nodes' = nodes
  BY DEF OpenDls
<1> SUFFICES ASSUME NEW t \in Sac, nodes[t] # NoUa
             PROVE  \E c \in CO_bitset' : mac_co_sac'[c] = t
  BY <1>2 DEF RegisteredHasCo
<1>3. CASE setup.sac = t
  BY <1>1, <1>2, <1>3 DEF EntryTypeOK
<1>4. CASE setup.sac # t
  <2>1. PICK c \in CO_bitset : mac_co_sac[c] = t
    BY <1>4 DEF RegisteredHasCo
  <2>2. c \in Co /\ c # LowestFree
    BY <1>1 DEF EntryTypeOK
  <2> QED BY <1>2, <2>1, <2>2 DEF EntryTypeOK
<1> QED BY <1>3, <1>4

LEMMA DeleteKeepsServed ==
  ASSUME EntryTypeOK, RegisteredHasCo, ~ Failing, NEW s \in Sac, DeleteNode(s)
  PROVE  RegisteredHasCo'
<1> SUFFICES ASSUME NEW t \in Sac, nodes'[t] # NoUa, setup'.sac # t
             PROVE  \E c \in CO_bitset' : mac_co_sac'[c] = t
  BY DEF RegisteredHasCo
<1>1. t # s /\ nodes[t] # NoUa /\ setup.sac # t
  BY DEF DeleteNode, EntryTypeOK
<1>2. PICK c \in CO_bitset : mac_co_sac[c] = t
  BY <1>1 DEF RegisteredHasCo
<1>3. HasCo(s) => c # FirstCo(s)
  BY <1>1, <1>2, FirstCoFacts
<1> QED BY <1>2, <1>3 DEF DeleteNode

LEMMA ServedNext == EntryTypeOK /\ RegisteredHasCo /\ [Next]_vars => RegisteredHasCo'
<1> SUFFICES ASSUME EntryTypeOK, RegisteredHasCo, [Next]_vars PROVE RegisteredHasCo'
  OBVIOUS
<1>1. CASE Failing
  BY <1>1 DEF RegisteredHasCo
<1>2. CASE ~ Failing
  <2>1. ASSUME UNCHANGED gsVars PROVE RegisteredHasCo'
    BY <2>1 DEF RegisteredHasCo, gsVars
  <2>2. ASSUME NEW u \in Ua, RaInd(u) PROVE RegisteredHasCo'
    <3>1. CASE HasUa(u) \/ Gsc
      BY <2>1, <2>2, <3>1 DEF RaInd
    <3>2. CASE ~ HasUa(u) /\ ~ Gsc
      BY <1>2, <2>2, <3>2, SetupKeepsServed DEF RaInd
    <3> QED BY <3>1, <3>2
  <2>3. ASSUME NEW u \in Ua, NEW s \in Sac, GscGrant(u, s) PROVE RegisteredHasCo'
    BY <1>2, <2>3, SetupKeepsServed DEF GscGrant
  <2>4. CASE OpenDls
    BY <1>2, <2>4, OpenKeepsServed
  <2>5. ASSUME NEW s \in Sac, SnfFailed(s) \/ CellExit(s) PROVE RegisteredHasCo'
    BY <1>2, <2>5, DeleteKeepsServed DEF SnfFailed, CellExit
  <2>6. ASSUME NEW u \in Ua,
               \/ PowerOn(u) \/ Sib(u) \/ SendRa(u) \/ LoseRa(u)
               \/ StartAuth(u) \/ Leave(u) \/ Restart(u)
        PROVE  UNCHANGED gsVars
    BY <2>6 DEF PowerOn, Sib, SendRa, LoseRa, StartAuth, Leave, Restart
  <2>7. ASSUME NEW s \in Sac, LoseExit(s) PROVE UNCHANGED gsVars
    BY <2>7 DEF LoseExit
  <2>8. ASSUME NEW r \in cell_resps, CellResp(r) \/ LoseResp(r) PROVE UNCHANGED gsVars
    BY <2>8 DEF CellResp, LoseResp
  <2>9. UNCHANGED vars => UNCHANGED gsVars
    BY DEF vars
  <2> QED BY <2>1, <2>2, <2>3, <2>4, <2>5, <2>6, <2>7, <2>8, <2>9 DEF Next
<1> QED BY <1>1, <1>2

\* A station the ground station knows has a control offset, however exits,
\* collisions of random SACs and failed authentications interleave.
THEOREM KnownIsServed == Spec => []RegisteredHasCo
<1>1. Init => RegisteredHasCo
  BY DEF Init, RegisteredHasCo
<1> QED BY <1>1, TypeInit, TypeNext, ServedNext, PTL DEF Spec

-----------------------------------------------------------------------------
(***************************************************************************)
(* The inductive invariant of a cell whose controller answers one request  *)
(* for a UA at a time.                                                     *)
(***************************************************************************)

\* The controller is asked for stations without a node only.
AskedInv == \A u \in Ua : asked[u] > 0 => ~ HasUa(u)

\* No station has two nodes.
UniqueInv == \A s, t \in Sac : nodes[s] # NoUa /\ nodes[s] = nodes[t] => s = t

\* A SAC whose exit is under way still has its node.
ExitInv == \A s \in exits : nodes[s] # NoUa

\* The SAC being set up has its node, no control offset and no exit under way.
SetupInv ==
    setup # NoSetup => /\ nodes[setup.sac] = setup.ua
                       /\ setup.sac \notin exits
                       /\ \A c \in CO_bitset : mac_co_sac[c] # setup.sac

\* Control offsets in use belong to registered SACs, and clear_mac_CO finds them
\* before any entry left behind.
AccInv ==
    \A c \in CO_bitset :
        /\ mac_co_sac[c] \in Sac /\ nodes[mac_co_sac[c]] # NoUa
        /\ \A d \in 0 .. c - 1 : mac_co_sac[d] # mac_co_sac[c]

\* A CELL_RESP under way tells what the ground station believes.
RespInv ==
    \A r \in cell_resps : /\ nodes[r.sac] = r.ua
                          /\ r.sac \notin exits
                          /\ r.co \in CO_bitset /\ mac_co_sac[r.co] = r.sac

\* So does what a station in the cell has taken from it, which is not told twice.
Attached(u) == as_co[u] # {} /\ lme[u] # "FSCANNING"

HeldInv ==
    \A u \in Ua : Attached(u) =>
        /\ nodes[as_sac[u]] = u
        /\ as_sac[u] \notin exits
        /\ \A r \in cell_resps : r.sac # as_sac[u]
        /\ \A c \in as_co[u] : c \in CO_bitset /\ mac_co_sac[c] = as_sac[u]

AuthInv == \A u \in Ua : lme[u] = "AUTH" => as_co[u] # {}

GscInv == /\ AskedInv /\ UniqueInv /\ ExitInv /\ SetupInv
          /\ AccInv /\ RespInv /\ HeldInv /\ AuthInv

LEMMA GscInit == Init => GscInv
<1> SUFFICES ASSUME Init PROVE GscInv
  OBVIOUS
<1>1. AskedInv /\ UniqueInv /\ ExitInv /\ SetupInv /\ AccInv /\ RespInv
  BY DEF Init, AskedInv, UniqueInv, ExitInv, SetupInv, AccInv, RespInv
<1>2. HeldInv /\ AuthInv
  BY DEF Init, HeldInv, AuthInv, Attached
<1> QED BY <1>1, <1>2 DEF GscInv

\* Steps of a station that concern neither the ground station nor what it holds.
LEMMA QuietStep ==
  ASSUME EntryTypeOK, GscInv, UNCHANGED <<asked, gsVars, as_sac, as_co>>,
         exits' \subseteq exits, cell_resps' \subseteq cell_resps,
         \A u \in Ua : /\ lme'[u] # "FSCANNING" => lme[u] # "FSCANNING"
                       /\ lme'[u] = "AUTH" => as_co[u] # {}
  PROVE  GscInv'
<1> USE DEF gsVars
<1>1. AskedInv' /\ UniqueInv' /\ AccInv'
  BY DEF GscInv, AskedInv, UniqueInv, AccInv, HasUa
<1>2. ExitInv' /\ SetupInv' /\ RespInv'
  BY DEF GscInv, ExitInv, SetupInv, RespInv
<1>3. HeldInv' /\ AuthInv'
  BY DEF GscInv, HeldInv, AuthInv, Attached
<1> QED BY <1>1, <1>2, <1>3 DEF GscInv

LEMMA LeaveStep ==
  ASSUME EntryTypeOK, GscInv, NEW u \in Ua, Leave(u)
  PROVE  GscInv'
<1> USE DEF gsVars
<1>1. Attached(u) /\ u # NoUa
  BY EntryAssumption DEF GscInv, AuthInv, Leave, Attached
<1>2. /\ nodes[as_sac[u]] = u
      /\ \A r \in cell_resps : r.sac # as_sac[u]
      /\ \E c \in CO_bitset : mac_co_sac[c] = as_sac[u]
  BY <1>1 DEF GscInv, HeldInv, Attached
<1>3. AskedInv' /\ UniqueInv' /\ AccInv' /\ AuthInv'
  BY DEF GscInv, AskedInv, UniqueInv, AccInv, AuthInv, HasUa, Leave, EntryTypeOK
<1>4. ExitInv' /\ SetupInv' /\ RespInv'
  BY <1>1, <1>2 DEF GscInv, ExitInv, SetupInv, RespInv, Leave
<1>5. HeldInv'
  <2> SUFFICES ASSUME NEW v \in Ua, Attached(v)'
               PROVE  /\ nodes[as_sac[v]] = v
                      /\ as_sac[v] \notin exits'
                      /\ \A r \in cell_resps : r.sac # as_sac[v]
                      /\ \A c \in as_co[v] : c \in CO_bitset /\ mac_co_sac[c] = as_sac[v]
    BY DEF HeldInv, Leave
  <2>1. v # u /\ Attached(v)
    BY DEF Leave, Attached, EntryTypeOK
  <2>2. as_sac[v] # as_sac[u]
    BY <2>1, <1>2 DEF GscInv, HeldInv
  <2> QED BY <2>1, <2>2 DEF GscInv, HeldInv, Leave
<1> QED BY <1>3, <1>4, <1>5 DEF GscInv

LEMMA RestartStep ==
  ASSUME EntryTypeOK, GscInv, NEW u \in Ua, Restart(u)
  PROVE  GscInv'
<1> USE DEF gsVars
<1>1. AskedInv' /\ UniqueInv' /\ AccInv' /\ ExitInv' /\ SetupInv' /\ RespInv'
  BY DEF GscInv, AskedInv, UniqueInv, AccInv, ExitInv, SetupInv, RespInv, HasUa, Restart
<1>2. \A v \in Ua : v = u => as_co'[v] = {} /\ lme'[v] = "OFF"
  BY DEF Restart, EntryTypeOK
<1>3. \A v \in Ua : v # u => as_co'[v] = as_co[v] /\ lme'[v] = lme[v] /\ as_sac'[v] = as_sac[v]
  BY DEF Restart, EntryTypeOK
<1>4. AuthInv'
  BY <1>2, <1>3 DEF GscInv, AuthInv
<1>5. \A v \in Ua : Attached(v)' => v # u /\ Attached(v)
  BY <1>2, <1>3 DEF Attached
<1>6. HeldInv'
  BY <1>3, <1>5 DEF GscInv, HeldInv, Restart
<1> QED BY <1>1, <1>4, <1>6 DEF GscInv

LEMMA RaIndStep ==
  ASSUME EntryTypeOK, GscInv, Gsc, NEW u \in Ua, RaInd(u)
  PROVE  GscInv'
<1> USE DEF gsVars, asVars
<1>1. AskedInv'
  <2>1. CASE HasUa(u)
    BY <2>1 DEF GscInv, AskedInv, RaInd, HasUa
  <2>2. CASE ~ HasUa(u)
    BY <2>2 DEF GscInv, AskedInv, RaInd, HasUa, EntryTypeOK
  <2> QED BY <2>1, <2>2
<1>2. UniqueInv' /\ ExitInv' /\ SetupInv' /\ AccInv' /\ RespInv'
  BY DEF GscInv, UniqueInv, ExitInv, SetupInv, AccInv, RespInv, RaInd
<1>3. HeldInv' /\ AuthInv'
  BY DEF GscInv, HeldInv, AuthInv, Attached, RaInd
<1> QED BY <1>1, <1>2, <1>3 DEF GscInv

LEMMA GrantStep ==
  ASSUME EntryTypeOK, GscInv, MaxAsked = 1,
         NEW u \in Ua, NEW s \in Sac, GscGrant(u, s)
  PROVE  GscInv'
<1> USE EntryAssumption DEF asVars
<1>1. ~ HasUa(u) /\ u # NoUa
  BY DEF GscInv, AskedInv, GscGrant
<1>2. nodes[s] = NoUa
  BY <1>1 DEF GscGrant, HasUa
<1>3. PICK r \in Registered : SetupEntity(s, u, r)
  BY DEF GscGrant
<1>4. /\ nodes' = [nodes EXCEPT ![s] = u]
      /\ setup = NoSetup /\ setup' \in {NoSetup, [sac |-> s, ua |-> u]}
      /\ UNCHANGED <<CO_bitset, mac_co_sac>>
  BY <1>2, <1>3 DEF SetupEntity
<1>5. /\ UNCHANGED <<lme, as_sac, as_co, cell_resps, exits>>
      /\ asked' = [asked EXCEPT ![u] = @ - 1] /\ asked[u] > 0
  BY DEF GscGrant
<1>6. nodes'[s] = u /\ \A t \in Sac : t # s => nodes'[t] = nodes[t]
  BY <1>4 DEF EntryTypeOK
<1>7. s \notin exits
  BY <1>2 DEF GscInv, ExitInv
<1>8. \A c \in CO_bitset : mac_co_sac[c] # s
  BY <1>2 DEF GscInv, AccInv
<1>9. AskedInv'
  <2> SUFFICES ASSUME NEW v \in Ua, asked'[v] > 0 PROVE ~ HasUa(v)'
    BY DEF AskedInv
  <2>1. v # u /\ asked[v] > 0
    <3>1. asked[u] \in 0 .. 1 /\ asked[v] \in 0 .. 1
      BY DEF EntryTypeOK
    <3> QED BY <3>1, <1>5 DEF EntryTypeOK
  <2>2. ~ HasUa(v)
    BY <2>1 DEF GscInv, AskedInv
  <2> QED BY <2>1, <2>2, <1>6 DEF HasUa
<1>10. UniqueInv'
  <2> SUFFICES ASSUME NEW t \in Sac, NEW w \in Sac, nodes'[t] # NoUa, nodes'[t] = nodes'[w]
               PROVE  t = w
    BY DEF UniqueInv
  <2>1. \A x \in Sac : nodes[x] # u
    BY <1>1 DEF HasUa
  <2> QED BY <2>1, <1>6 DEF GscInv, UniqueInv
<1>11. ExitInv'
  BY <1>5, <1>6, <1>7 DEF GscInv, ExitInv, EntryTypeOK
<1>12. SetupInv'
  <2> SUFFICES ASSUME setup' # NoSetup
               PROVE  /\ nodes'[setup'.sac] = setup'.ua
                      /\ setup'.sac \notin exits
                      /\ \A c \in CO_bitset : mac_co_sac[c] # setup'.sac
    BY <1>4, <1>5 DEF SetupInv
  <2>1. setup' = [sac |-> s, ua |-> u]
    BY <1>4
  <2>2. setup'.sac = s /\ setup'.ua = u
    BY <2>1
  <2> QED BY <2>2, <1>6, <1>7, <1>8
<1>13. AccInv'
  BY <1>4, <1>6, <1>1 DEF GscInv, AccInv, EntryTypeOK
<1>14. RespInv'
  <2> SUFFICES ASSUME NEW q \in cell_resps
               PROVE  /\ nodes'[q.sac] = q.ua /\ q.sac \notin exits
                      /\ q.co \in CO_bitset /\ mac_co_sac[q.co] = q.sac
    BY <1>4, <1>5 DEF RespInv
  <2>1. q.sac # s /\ q.sac \in Sac
    BY <1>8 DEF GscInv, RespInv, EntryTypeOK
  <2> QED BY <2>1, <1>6 DEF GscInv, RespInv
<1>15. HeldInv'
  <2> SUFFICES ASSUME NEW v \in Ua, Attached(v)
               PROVE  nodes'[as_sac[v]] = v
    BY <1>4, <1>5 DEF GscInv, HeldInv, Attached
  <2>1. as_sac[v] # s /\ as_sac[v] \in Sac
    BY <1>8 DEF GscInv, HeldInv, Attached, EntryTypeOK
  <2> QED BY <2>1, <1>6 DEF GscInv, HeldInv
<1>16. AuthInv'
  BY <1>5 DEF GscInv, AuthInv
<1> QED BY <1>9, <1>10, <1>11, <1>12, <1>13, <1>14, <1>15, <1>16 DEF GscInv

LEMMA OpenStep ==
  ASSUME EntryTypeOK, GscInv, OpenDls
  PROVE  GscInv'
<1> USE EntryAssumption DEF asVars
<1> PICK f, s, u : f = LowestFree /\ s = setup.sac /\ u = setup.ua
  OBVIOUS
<1>1. /\ f \in Co /\ f \notin CO_bitset
      /\ \A d \in 0 .. f - 1 : d \in CO_bitset
  BY LowestFreeFacts DEF OpenDls, EntryTypeOK
<1>2. s \in Sac /\ u \in Ua /\ u # NoUa
  BY SetupFacts DEF OpenDls
<1>3. /\ CO_bitset' = CO_bitset \cup {f}
      /\ mac_co_sac' = [mac_co_sac EXCEPT ![f] = s]
      /\ cell_resps' = cell_resps \cup {[ua |-> u, sac |-> s, co |-> f]}
      /\ setup' = NoSetup
      /\ UNCHANGED <<lme, as_sac, as_co, asked, nodes, exits>>
  BY DEF OpenDls
<1>4. /\ nodes[s] = u /\ s \notin exits
      /\ \A c \in CO_bitset : mac_co_sac[c] # s
  BY DEF GscInv, SetupInv, OpenDls
<1>5. /\ mac_co_sac'[f] = s
      /\ \A c \in Co : c # f => mac_co_sac'[c] = mac_co_sac[c]
  BY <1>1, <1>3 DEF EntryTypeOK
<1>6. \A c \in CO_bitset : c \in Co /\ c # f
  BY <1>1 DEF EntryTypeOK
<1>7. AskedInv' /\ UniqueInv' /\ ExitInv' /\ AuthInv'
  BY <1>3 DEF GscInv, AskedInv, UniqueInv, ExitInv, AuthInv, HasUa
<1>8. SetupInv'
  BY <1>3 DEF SetupInv
<1>9. AccInv'
  <2> SUFFICES ASSUME NEW c \in CO_bitset'
               PROVE  /\ mac_co_sac'[c] \in Sac /\ nodes[mac_co_sac'[c]] # NoUa
                      /\ \A d \in 0 .. c - 1 : mac_co_sac'[d] # mac_co_sac'[c]
    BY <1>3 DEF AccInv
  <2>1. CASE c = f
    <3>1. \A d \in 0 .. f - 1 : mac_co_sac'[d] # s
      BY <1>1, <1>4, <1>5, <1>6
    <3> QED BY <2>1, <3>1, <1>2, <1>4, <1>5
  <2>2. CASE c # f
    <3>1. c \in CO_bitset /\ c \in Co
      BY <2>2, <1>3, <1>6
    <3>2. mac_co_sac'[c] = mac_co_sac[c] /\ mac_co_sac[c] # s
      BY <3>1, <2>2, <1>4, <1>5
    <3>3. \A d \in 0 .. c - 1 : d \in Co
      BY <3>1 DEF Co
    <3>4. \A d \in 0 .. c - 1 : mac_co_sac[d] # mac_co_sac[c]
      BY <3>1 DEF GscInv, AccInv
    <3> QED BY <3>1, <3>2, <3>3, <3>4, <1>5 DEF GscInv, AccInv
  <2> QED BY <2>1, <2>2
<1>10. RespInv'
  <2> SUFFICES ASSUME NEW q \in cell_resps'
               PROVE  /\ nodes[q.sac] = q.ua /\ q.sac \notin exits
                      /\ q.co \in CO_bitset' /\ mac_co_sac'[q.co] = q.sac
    BY <1>3 DEF RespInv
  <2>1. CASE q \in cell_resps
    BY <2>1, <1>3, <1>5, <1>6 DEF GscInv, RespInv
  <2>2. CASE q = [ua |-> u, sac |-> s, co |-> f]
    <3>1. q.ua = u /\ q.sac = s /\ q.co = f
      BY <2>2
    <3> QED BY <3>1, <1>3, <1>4, <1>5
  <2> QED BY <2>1, <2>2, <1>3
<1>11. HeldInv'
  <2> SUFFICES ASSUME NEW v \in Ua, Attached(v)
               PROVE  /\ nodes[as_sac[v]] = v /\ as_sac[v] \notin exits
                      /\ \A q \in cell_resps' : q.sac # as_sac[v]
                      /\ \A c \in as_co[v] : c \in CO_bitset' /\ mac_co_sac'[c] = as_sac[v]
    BY <1>3 DEF HeldInv, Attached
  <2>1. as_sac[v] # s
    BY <1>4 DEF GscInv, HeldInv, Attached
  <2>2. \A q \in cell_resps' : q \in cell_resps \/ q.sac = s
    BY <1>3
  <2>3. /\ nodes[as_sac[v]] = v /\ as_sac[v] \notin exits
        /\ \A q \in cell_resps : q.sac # as_sac[v]
        /\ \A c \in as_co[v] : c \in CO_bitset /\ mac_co_sac[c] = as_sac[v]
    BY DEF GscInv, HeldInv
  <2> QED BY <2>1, <2>2, <2>3, <1>3, <1>5, <1>6
<1> QED BY <1>7, <1>8, <1>9, <1>10, <1>11 DEF GscInv

LEMMA CellExitStep ==
  ASSUME EntryTypeOK, GscInv, NEW s \in Sac, CellExit(s)
  PROVE  GscInv'
<1> USE EntryAssumption DEF asVars
<1>1. /\ s \in exits /\ exits' = exits \ {s}
      /\ UNCHANGED <<lme, as_sac, as_co, asked, setup, mac_co_sac, cell_resps>>
      /\ nodes' = [nodes EXCEPT ![s] = NoUa]
      /\ CO_bitset' \subseteq CO_bitset
  BY DEF CellExit, DeleteNode
<1>2. nodes'[s] = NoUa /\ \A t \in Sac : t # s => nodes'[t] = nodes[t]
  BY <1>1 DEF EntryTypeOK
<1>3. nodes[s] # NoUa
  BY <1>1 DEF GscInv, ExitInv
<1>4. \A c \in CO_bitset : c \in CO_bitset' <=> mac_co_sac[c] # s
  <2> SUFFICES ASSUME NEW c \in CO_bitset
               PROVE  c \in CO_bitset' <=> mac_co_sac[c] # s
    OBVIOUS
  <2>0. c \in Co
    BY DEF EntryTypeOK
  <2>1. CASE mac_co_sac[c] = s
    <3>1. HasCo(s)
      BY <2>0, <2>1 DEF HasCo
    <3>2. /\ FirstCo(s) \in Co /\ mac_co_sac[FirstCo(s)] = s
          /\ \A d \in 0 .. FirstCo(s) - 1 : mac_co_sac[d] # s
      BY <3>1, FirstCoFacts
    <3>3. \A d \in 0 .. c - 1 : mac_co_sac[d] # s
      BY <2>1 DEF GscInv, AccInv
    <3>4. c = FirstCo(s)
      BY <2>0, <2>1, <3>2, <3>3 DEF Co
    <3> QED BY <2>1, <3>1, <3>4, <1>3 DEF CellExit, DeleteNode
  <2>2. CASE mac_co_sac[c] # s
    <3>1. HasCo(s) => c # FirstCo(s)
      BY <2>2, FirstCoFacts
    <3> QED BY <2>2, <3>1 DEF CellExit, DeleteNode
  <2> QED BY <2>1, <2>2
<1>5. AskedInv'
  BY <1>1, <1>2 DEF GscInv, AskedInv, HasUa
<1>6. UniqueInv'
  BY <1>1, <1>2 DEF GscInv, UniqueInv
<1>7. ExitInv'
  BY <1>1, <1>2 DEF GscInv, ExitInv, EntryTypeOK
<1>8. SetupInv'
  <2>1. setup # NoSetup => setup.sac \in Sac /\ setup.sac # s
    BY <1>1, SetupFacts DEF GscInv, SetupInv
  <2> QED BY <2>1, <1>1, <1>2 DEF GscInv, SetupInv
<1>9. AccInv'
  <2> SUFFICES ASSUME NEW c \in CO_bitset'
               PROVE  /\ mac_co_sac[c] \in Sac /\ nodes'[mac_co_sac[c]] # NoUa
                      /\ \A d \in 0 .. c - 1 : mac_co_sac[d] # mac_co_sac[c]
    BY <1>1 DEF AccInv
  <2>1. c \in CO_bitset /\ mac_co_sac[c] # s
    BY <1>1, <1>4
  <2> QED BY <2>1, <1>2 DEF GscInv, AccInv
<1>10. RespInv'
  <2> SUFFICES ASSUME NEW q \in cell_resps
               PROVE  /\ nodes'[q.sac] = q.ua /\ q.sac \notin exits'
                      /\ q.co \in CO_bitset' /\ mac_co_sac[q.co] = q.sac
    BY <1>1 DEF RespInv
  <2>1. /\ nodes[q.sac] = q.ua /\ q.sac \notin exits
        /\ q.co \in CO_bitset /\ mac_co_sac[q.co] = q.sac
    BY DEF GscInv, RespInv
  <2>2. q.sac \in Sac /\ q.sac # s
    BY <2>1, <1>1 DEF EntryTypeOK
  <2> QED BY <2>1, <2>2, <1>1, <1>2, <1>4
<1>11. HeldInv'
  <2> SUFFICES ASSUME NEW v \in Ua, Attached(v)
               PROVE  /\ nodes'[as_sac[v]] = v /\ as_sac[v] \notin exits'
                      /\ \A q \in cell_resps : q.sac # as_sac[v]
                      /\ \A c \in as_co[v] : c \in CO_bitset' /\ mac_co_sac[c] = as_sac[v]
    BY <1>1 DEF HeldInv, Attached
  <2>1. /\ nodes[as_sac[v]] = v /\ as_sac[v] \notin exits
        /\ \A q \in cell_resps : q.sac # as_sac[v]
        /\ \A c \in as_co[v] : c \in CO_bitset /\ mac_co_sac[c] = as_sac[v]
    BY DEF GscInv, HeldInv
  <2>2. as_sac[v] \in Sac /\ as_sac[v] # s
    BY <2>1, <1>1 DEF EntryTypeOK, Attached
  <2> QED BY <2>1, <2>2, <1>1, <1>2, <1>4
<1>12. AuthInv'
  BY <1>1 DEF GscInv, AuthInv
<1> QED BY <1>5, <1>6, <1>7, <1>8, <1>9, <1>10, <1>11, <1>12 DEF GscInv

LEMMA CellRespStep ==
  ASSUME EntryTypeOK, GscInv, NEW r \in cell_resps, CellResp(r)
  PROVE  GscInv'
<1> USE EntryAssumption DEF gsVars
<1>1. r.ua \in Ua /\ r.sac \in Sac /\ r.co \in Co
  BY DEF EntryTypeOK
<1>2. /\ cell_resps' = cell_resps \ {r}
      /\ UNCHANGED <<lme, asked, nodes, setup, CO_bitset, mac_co_sac, exits>>
  BY DEF CellResp
<1>3. /\ as_sac'[r.ua] = r.sac /\ as_co'[r.ua] = as_co[r.ua] \cup {r.co}
      /\ \A v \in Ua : v # r.ua => as_sac'[v] = as_sac[v] /\ as_co'[v] = as_co[v]
  BY <1>1 DEF CellResp, EntryTypeOK
<1>4. /\ nodes[r.sac] = r.ua /\ r.sac \notin exits /\ r.ua # NoUa
      /\ r.co \in CO_bitset /\ mac_co_sac[r.co] = r.sac
  BY <1>1 DEF GscInv, RespInv
<1>5. ~ Attached(r.ua)
  <2> SUFFICES ASSUME Attached(r.ua) PROVE FALSE
    OBVIOUS
  <2>1. nodes[as_sac[r.ua]] = r.ua /\ r.sac # as_sac[r.ua] /\ as_sac[r.ua] \in Sac
    BY <1>1 DEF GscInv, HeldInv, EntryTypeOK, Attached
  <2> QED BY <2>1, <1>1, <1>4 DEF GscInv, UniqueInv
<1>6. \A q \in cell_resps : q.sac = r.sac => q = r
  <2> SUFFICES ASSUME NEW q \in cell_resps, q.sac = r.sac PROVE q = r
    OBVIOUS
  <2>1. nodes[q.sac] = q.ua /\ q.co \in CO_bitset /\ mac_co_sac[q.co] = q.sac
    BY DEF GscInv, RespInv
  <2>2. q.ua = r.ua
    BY <2>1, <1>4
  <2>3. q.co = r.co
    <3>1. /\ q.co \in Co /\ r.co \in Co /\ mac_co_sac[q.co] = mac_co_sac[r.co]
      BY <2>1, <1>1, <1>4 DEF EntryTypeOK
    <3>2. /\ \A d \in 0 .. q.co - 1 : mac_co_sac[d] # mac_co_sac[q.co]
          /\ \A d \in 0 .. r.co - 1 : mac_co_sac[d] # mac_co_sac[r.co]
      BY <2>1, <1>4 DEF GscInv, AccInv
    <3> QED BY <3>1, <3>2 DEF Co
  <2>4. q \in [ua : Ua, sac : Sac, co : Co] /\ r \in [ua : Ua, sac : Sac, co : Co]
    BY DEF EntryTypeOK
  <2> QED BY <2>2, <2>3, <2>4
<1>7. AskedInv' /\ UniqueInv' /\ ExitInv' /\ SetupInv' /\ AccInv' /\ RespInv'
  BY <1>2 DEF GscInv, AskedInv, UniqueInv, ExitInv, SetupInv, AccInv, RespInv, HasUa
<1>8. AuthInv'
  BY <1>2, <1>3 DEF GscInv, AuthInv
<1>9. HeldInv'
  <2> SUFFICES ASSUME NEW v \in Ua, Attached(v)'
               PROVE  /\ nodes[as_sac'[v]] = v /\ as_sac'[v] \notin exits
                      /\ \A q \in cell_resps' : q.sac # as_sac'[v]
                      /\ \A c \in as_co'[v] : c \in CO_bitset /\ mac_co_sac[c] = as_sac'[v]
    BY <1>2 DEF HeldInv
  <2>1. CASE v = r.ua
    <3>1. as_co[v] = {}
      BY <2>1, <1>2, <1>5 DEF Attached
    <3> QED BY <2>1, <3>1, <1>2, <1>3, <1>4, <1>6
  <2>2. CASE v # r.ua
    BY <2>2, <1>2, <1>3 DEF GscInv, HeldInv, Attached
  <2> QED BY <2>1, <2>2
<1> QED BY <1>7, <1>8, <1>9 DEF GscInv

LEMMA GscNext ==
  ASSUME Gsc, MaxAsked = 1, ~ AuthFails
  PROVE  EntryTypeOK /\ GscInv /\ [Next]_vars => GscInv'
<1> SUFFICES ASSUME EntryTypeOK, GscInv, [Next]_vars PROVE GscInv'
  OBVIOUS
<1>1. ASSUME NEW u \in Ua, PowerOn(u) \/ Sib(u) \/ SendRa(u) \/ LoseRa(u) \/ StartAuth(u)
      PROVE  GscInv'
  <2>1. /\ UNCHANGED <<asked, gsVars, as_sac, as_co, exits, cell_resps>>
        /\ \A v \in Ua : /\ lme'[v] # "FSCANNING" => lme[v] # "FSCANNING"
                         /\ lme'[v] = "AUTH" => lme[v] = "AUTH" \/ as_co[v] # {}
    BY <1>1 DEF PowerOn, Sib, SendRa, LoseRa, StartAuth, asVars, EntryTypeOK
  <2> QED BY <2>1, QuietStep DEF GscInv, AuthInv
<1>2. ASSUME NEW u \in Ua, RaInd(u) PROVE GscInv'
  BY <1>2, RaIndStep
<1>3. ASSUME NEW u \in Ua, Leave(u) PROVE GscInv'
  BY <1>3, LeaveStep
<1>4. ASSUME NEW u \in Ua, Restart(u) PROVE GscInv'
  BY <1>4, RestartStep
<1>5. ASSUME NEW u \in Ua, NEW s \in Sac, GscGrant(u, s) PROVE GscInv'
  BY <1>5, GrantStep
<1>6. CASE OpenDls
  BY <1>6, OpenStep
<1>7. ASSUME NEW s \in Sac, SnfFailed(s) PROVE GscInv'
  BY <1>7 DEF SnfFailed
<1>8. ASSUME NEW s \in Sac, CellExit(s) PROVE GscInv'
  BY <1>8, CellExitStep
<1>9. ASSUME NEW s \in Sac, LoseExit(s) PROVE GscInv'
  <2>1. UNCHANGED <<asked, gsVars, as_sac, as_co, lme, cell_resps>> /\ exits' \subseteq exits
    BY <1>9 DEF LoseExit, asVars
  <2> QED BY <2>1, QuietStep DEF GscInv, AuthInv
<1>10. ASSUME NEW r \in cell_resps, CellResp(r) PROVE GscInv'
  BY <1>10, CellRespStep
<1>11. ASSUME NEW r \in cell_resps, LoseResp(r) PROVE GscInv'
  <2>1. UNCHANGED <<asked, gsVars, as_sac, as_co, lme, exits>> /\ cell_resps' \subseteq cell_resps
    BY <1>11 DEF LoseResp, asVars
  <2> QED BY <2>1, QuietStep DEF GscInv, AuthInv
<1>12. CASE UNCHANGED vars
  <2>1. UNCHANGED <<asked, gsVars, as_sac, as_co, lme, exits, cell_resps>>
    BY <1>12 DEF vars, asVars
  <2> QED BY <2>1, QuietStep DEF GscInv, AuthInv
<1> QED BY <1>1, <1>2, <1>3, <1>4, <1>5, <1>6, <1>7, <1>8, <1>9, <1>10, <1>11, <1>12
        DEF Next

LEMMA GscInvariant ==
  ASSUME Gsc, MaxAsked = 1, ~ AuthFails
  PROVE  Spec => [](EntryTypeOK /\ GscInv)
BY TypeInit, TypeNext, GscInit, GscNext, PTL DEF Spec

\* No control offset leaks and no station has two: what an exit frees is what the
\* station held, because get_CO hands out the lowest free one.
THEOREM NoCoLeaks == Spec => []CoAccounted
<1>1. CASE Gsc /\ MaxAsked = 1 /\ ~ AuthFails
  <2>1. EntryTypeOK /\ GscInv => CoAccounted
    <3> SUFFICES ASSUME EntryTypeOK, GscInv,
                        NEW c \in CO_bitset, NEW d \in CO_bitset,
                        mac_co_sac[c] = mac_co_sac[d]
                 PROVE  c = d
      BY DEF CoAccounted, GscInv, AccInv
    <3>1. c \in Co /\ d \in Co
      BY DEF EntryTypeOK
    <3>2. /\ \A e \in 0 .. c - 1 : mac_co_sac[e] # mac_co_sac[c]
          /\ \A e \in 0 .. d - 1 : mac_co_sac[e] # mac_co_sac[d]
      BY DEF GscInv, AccInv
    <3> QED BY <3>1, <3>2, EntryAssumption DEF Co
  <2> QED BY <1>1, <2>1, GscInvariant, PTL
<1>2. CASE ~ (Gsc /\ MaxAsked = 1 /\ ~ AuthFails)
  <2>1. CoAccounted
    BY <1>2 DEF CoAccounted
  <2> QED BY <2>1, PTL
<1> QED BY <1>1, <1>2

\* Two stations in the cell hold different control offsets.
THEOREM CosAreExclusive == Spec => []NoSharedCo
<1>1. CASE Gsc /\ MaxAsked = 1 /\ ~ AuthFails
  <2>1. EntryTypeOK /\ GscInv => NoSharedCo
    <3> SUFFICES ASSUME EntryTypeOK, GscInv,
                        NEW u \in Ua, NEW v \in Ua, u # v, InCell(u), InCell(v),
                        NEW c, c \in as_co[u], c \in as_co[v]
                 PROVE  FALSE
      BY DEF NoSharedCo
    <3>1. Attached(u) /\ Attached(v)
      BY DEF Attached, InCell
    <3> QED BY <3>1 DEF GscInv, HeldInv
  <2> QED BY <1>1, <2>1, GscInvariant, PTL
<1>2. CASE ~ (Gsc /\ MaxAsked = 1 /\ ~ AuthFails)
  <2>1. NoSharedCo
    BY <1>2 DEF NoSharedCo
  <2> QED BY <2>1, PTL
<1> QED BY <1>1, <1>2
==============================================================================
