---------------------------- MODULE SnpSqn_proofs ----------------------------
(* Proofs about SnpSqn, for every set of flows, width of the SQN field,      *)
(* window and bound.                                                         *)
EXTENDS SnpSqn, TLAPS

\* The wire value of a PDU fits the SQN field.
LEMMA WireRange ==
  ASSUME NEW n \in Nat PROVE Wire(n) \in 0 .. SqnMod - 1 /\ Wire(n) \in Nat
  BY SnpAssumption DEF Wire

\* Below SqnMod the wire value is the number itself.
LEMMA WireExact ==
  ASSUME NEW n \in Nat, n < SqnMod PROVE Wire(n) = n
  BY SnpAssumption DEF Wire

\* Appending keeps the old elements and puts the new one last.
LEMMA AppendFacts ==
  ASSUME NEW s \in Seq(Nat), NEW n \in Nat
  PROVE  /\ Append(s, n) \in Seq(Nat)
         /\ Len(Append(s, n)) = Len(s) + 1
         /\ Len(s) \in Nat
         /\ DOMAIN s = 1 .. Len(s)
         /\ DOMAIN Append(s, n) = 1 .. Len(s) + 1
         /\ \A i \in 1 .. Len(s) : Append(s, n)[i] = s[i]
         /\ Append(s, n)[Len(s) + 1] = n
  OBVIOUS

-----------------------------------------------------------------------------
\* Every PDU under way was numbered by its sender.
Numbered == \A p \in air : p.num < send_T_SQN[p.flow]

\* What a receiver handed up: sent by the sender, below recv_T_SQN on the
\* wire, in increasing wire order, and no more than recv_T_SQN counts.
Received(f) ==
    /\ Len(delivered[f]) <= recv_T_SQN[f]
    /\ \A i \in 1 .. Len(delivered[f]) :
          /\ delivered[f][i] < send_T_SQN[f]
          /\ Wire(delivered[f][i]) < recv_T_SQN[f]
    /\ \A i, j \in 1 .. Len(delivered[f]) :
          i < j => Wire(delivered[f][i]) < Wire(delivered[f][j])

\* The inductive invariant.
IInv == SnpTypeOK /\ Numbered /\ (\A f \in Flow : Received(f))

LEMMA InitIInv == Init => IInv
  BY SnpAssumption
  DEF Init, IInv, SnpTypeOK, SnpState, Numbered, Received

\* Handing up one more PDU whose wire value is at or above recv_T_SQN.
LEMMA DeliverStep ==
  ASSUME IInv, NEW p \in air, InWindow(p.flow, Wire(p.num)),
         NEW d, d \in [Flow -> Seq(Nat)],
         d = [delivered EXCEPT ![p.flow] = Append(@, p.num)],
         NEW r, r = [recv_T_SQN EXCEPT ![p.flow] = Wire(p.num) + 1],
         NEW f \in Flow
  PROVE  /\ Len(d[f]) <= r[f]
         /\ \A i \in 1 .. Len(d[f]) :
               d[f][i] < send_T_SQN[f] /\ Wire(d[f][i]) < r[f]
         /\ \A i, j \in 1 .. Len(d[f]) :
               i < j => Wire(d[f][i]) < Wire(d[f][j])
<1> USE DEF IInv
<1>1. /\ p.flow \in Flow /\ p.num \in Nat /\ p.num < send_T_SQN[p.flow]
      /\ Wire(p.num) \in 0 .. SqnMod - 1
      /\ recv_T_SQN \in [Flow -> 0 .. SqnMod]
      /\ send_T_SQN \in [Flow -> 0 .. MaxSent]
      /\ delivered \in [Flow -> Seq(Nat)]
  BY WireRange DEF SnpTypeOK, Pdu, Numbered
<1>2. CASE f # p.flow
  <2>1. d[f] = delivered[f] /\ r[f] = recv_T_SQN[f]
    BY <1>1, <1>2
  <2> QED BY <2>1 DEF Received
<1>3. CASE f = p.flow
  <2> DEFINE s == delivered[f]
             n == Len(s)
  <2>1. /\ d[f] = Append(s, p.num) /\ r[f] = Wire(p.num) + 1
        /\ s \in Seq(Nat)
    BY <1>1, <1>3
  <2>2. /\ n \in Nat /\ Len(d[f]) = n + 1
        /\ \A i \in 1 .. n : d[f][i] = s[i]
        /\ d[f][n + 1] = p.num
    BY <2>1, <1>1, AppendFacts
  <2>3. /\ n <= recv_T_SQN[f]
        /\ \A i \in 1 .. n : s[i] < send_T_SQN[f] /\ Wire(s[i]) < recv_T_SQN[f]
        /\ \A i, j \in 1 .. n : i < j => Wire(s[i]) < Wire(s[j])
    BY DEF Received
  <2>4. recv_T_SQN[f] <= Wire(p.num) /\ recv_T_SQN[f] \in Nat
        /\ Wire(p.num) \in Nat /\ send_T_SQN[f] \in Nat
    BY <1>1, <1>3, SnpAssumption DEF InWindow
  <2>5. \A i \in 1 .. n : s[i] \in Nat /\ Wire(s[i]) \in Nat
    <3>1. \A i \in 1 .. n : s[i] \in Nat
      BY <2>1
    <3> QED BY <3>1, WireRange
  <2> HIDE DEF s, n
  <2>6. Len(d[f]) <= r[f]
    BY <2>1, <2>2, <2>3, <2>4
  <2>7. ASSUME NEW i \in 1 .. Len(d[f])
        PROVE  d[f][i] < send_T_SQN[f] /\ Wire(d[f][i]) < r[f]
    <3>1. CASE i \in 1 .. n
      <4>1. d[f][i] = s[i]
        BY <3>1, <2>2
      <4>2. s[i] < send_T_SQN[f] /\ Wire(s[i]) < recv_T_SQN[f]
        BY <3>1, <2>3
      <4> QED BY <4>1, <4>2, <3>1, <2>1, <2>4, <2>5
    <3>2. CASE i = n + 1
      BY <3>2, <2>1, <2>2, <2>4, <1>1, <1>3
    <3> QED BY <2>2, <3>1, <3>2
  <2>8. ASSUME NEW i \in 1 .. Len(d[f]), NEW j \in 1 .. Len(d[f]), i < j
        PROVE  Wire(d[f][i]) < Wire(d[f][j])
    <3>1. i \in 1 .. n /\ d[f][i] = s[i]
      BY <2>2, <2>8
    <3>2. CASE j \in 1 .. n
      BY <3>1, <3>2, <2>2, <2>3, <2>8
    <3>3. CASE j = n + 1
      BY <3>1, <3>3, <2>2, <2>3, <2>4, <2>5
    <3> QED BY <2>2, <3>2, <3>3
  <2> QED BY <2>6, <2>7, <2>8
<1> QED BY <1>2, <1>3

LEMMA StepIInv == IInv /\ [Next]_vars => IInv'
<1> SUFFICES ASSUME IInv, [Next]_vars PROVE IInv'
  OBVIOUS
<1>t. SnpTypeOK /\ Numbered /\ (\A f \in Flow : Received(f))
  BY DEF IInv
<1>1. ASSUME NEW f \in Flow, SnAuthReq(f) \/ SnOpenReq(f) PROVE IInv'
  <2>1. SnpTypeOK'
    BY <1>1, <1>t DEF SnAuthReq, SnOpenReq, SnpTypeOK, SnpState
  <2> QED BY <2>1, <1>1, <1>t
      DEF SnAuthReq, SnOpenReq, IInv, Numbered, Received
<1>2. ASSUME NEW f \in Flow, NEW plane \in Plane,
             NEW o \in {"sent", "no_mac", "no_struct"},
             SnDataReq(f, plane, o)
      PROVE IInv'
  <2>1. send_T_SQN' \in [Flow -> 0 .. MaxSent]
    BY <1>2, <1>t, SnpAssumption DEF SnDataReq, SnpTypeOK
  <2>2. air' \in SUBSET Pdu
    <3> DEFINE q == [flow |-> f, num |-> send_T_SQN[f], intact |-> o = "sent"]
    <3>1. send_T_SQN[f] \in Nat /\ (o = "sent") \in BOOLEAN
      BY <1>t, SnpAssumption DEF SnpTypeOK
    <3>2. q \in Pdu
      BY <3>1 DEF Pdu
    <3>3. air' = air \/ air' = air \cup {q}
      BY <1>2 DEF SnDataReq
    <3> QED BY <3>2, <3>3, <1>t DEF SnpTypeOK
  <2>3. SnpTypeOK'
    BY <2>1, <2>2, <1>2, <1>t DEF SnDataReq, SnpTypeOK
  <2>4. \A g \in Flow : send_T_SQN[g] \in Nat /\ send_T_SQN'[g] \in Nat
                        /\ send_T_SQN[g] <= send_T_SQN'[g]
    BY <1>2, <1>t, SnpAssumption DEF SnDataReq, SnpTypeOK
  <2>5. Numbered'
    <3> SUFFICES ASSUME NEW p \in air' PROVE p.num < send_T_SQN'[p.flow]
      BY DEF Numbered
    <3>1. p \in Pdu BY <2>2
    <3>2. CASE p \in air
      BY <3>1, <3>2, <2>4, <1>t DEF Numbered, Pdu
    <3>3. CASE p \notin air
      BY <3>1, <3>3, <1>2, <1>t, SnpAssumption
      DEF SnDataReq, SnpTypeOK, Pdu
    <3> QED BY <3>2, <3>3
  <2>6. ASSUME NEW g \in Flow PROVE Received(g)'
    <3>1. delivered' = delivered /\ recv_T_SQN' = recv_T_SQN
      BY <1>2 DEF SnDataReq
    <3>2. \A i \in 1 .. Len(delivered[g]) : delivered[g][i] \in Nat
      BY <1>t, AppendFacts DEF SnpTypeOK
    <3>3. \A i \in 1 .. Len(delivered[g]) : delivered[g][i] < send_T_SQN'[g]
      BY <3>2, <2>4, <1>t DEF Received
    <3> QED BY <3>1, <3>3, <1>t DEF Received
  <2> QED BY <2>3, <2>5, <2>6 DEF IInv
<1>3. ASSUME NEW p \in air, NEW repeated \in BOOLEAN, NEW decrypted \in BOOLEAN,
             ProcessSnp(p, repeated, decrypted)
      PROVE IInv'
  <2>1. p.flow \in Flow /\ p.num \in Nat /\ Wire(p.num) \in 0 .. SqnMod - 1
    BY <1>t, WireRange DEF SnpTypeOK, Pdu
  <2>2. recv_T_SQN' \in [Flow -> 0 .. SqnMod]
    BY <2>1, <1>3, <1>t, SnpAssumption DEF ProcessSnp, NextSqn, SnpTypeOK
  <2>3. air' \subseteq air /\ air' \in SUBSET Pdu
    BY <1>3, <1>t DEF ProcessSnp, NextSqn, SnpTypeOK
  <2>4. delivered' \in [Flow -> Seq(Nat)]
    <3>1. delivered[p.flow] \in Seq(Nat)
      BY <2>1, <1>t DEF SnpTypeOK
    <3>2. Append(delivered[p.flow], p.num) \in Seq(Nat)
      BY <3>1, <2>1
    <3> QED BY <3>2, <2>1, <1>3, <1>t DEF ProcessSnp, NextSqn, SnpTypeOK
  <2>5. SnpTypeOK'
    BY <2>2, <2>3, <2>4, <1>3, <1>t DEF ProcessSnp, NextSqn, SnpTypeOK
  <2>6. Numbered'
    BY <2>3, <1>3, <1>t DEF ProcessSnp, NextSqn, Numbered
  <2>7. ASSUME NEW f \in Flow PROVE Received(f)'
    <3>1. CASE decrypted
      <4>1. /\ delivered' = [delivered EXCEPT ![p.flow] = Append(@, p.num)]
            /\ recv_T_SQN' = [recv_T_SQN EXCEPT ![p.flow] = Wire(p.num) + 1]
            /\ InWindow(p.flow, Wire(p.num))
            /\ send_T_SQN' = send_T_SQN
        BY <3>1, <1>3 DEF ProcessSnp, NextSqn
      <4> QED BY <4>1, <2>4, DeliverStep DEF Received
    <3>2. CASE ~decrypted
      <4>1. /\ delivered' = delivered /\ send_T_SQN' = send_T_SQN
            /\ recv_T_SQN' = [recv_T_SQN EXCEPT ![p.flow] = Wire(p.num) + 1]
            /\ InWindow(p.flow, Wire(p.num))
        BY <3>2, <1>3 DEF ProcessSnp, NextSqn
      <4>2. recv_T_SQN[f] <= recv_T_SQN'[f] /\ recv_T_SQN[f] \in Nat
            /\ recv_T_SQN'[f] \in Nat
        BY <4>1, <2>1, <2>2, <1>t, SnpAssumption DEF InWindow, SnpTypeOK
      <4>3. /\ Len(delivered[f]) \in Nat
            /\ \A i \in 1 .. Len(delivered[f]) : Wire(delivered[f][i]) \in Nat
        <5>1. delivered[f] \in Seq(Nat)
          BY <1>t DEF SnpTypeOK
        <5>2. /\ Len(delivered[f]) \in Nat
              /\ \A i \in 1 .. Len(delivered[f]) : delivered[f][i] \in Nat
          BY <5>1
        <5> QED BY <5>2, WireRange
      <4> QED BY <4>1, <4>2, <4>3, <1>t DEF Received
    <3> QED BY <3>1, <3>2
  <2> QED BY <2>5, <2>6, <2>7 DEF IInv
<1>4. ASSUME NEW p \in air, Lose(p) PROVE IInv'
  <2>1. air' \subseteq air
    BY <1>4 DEF Lose
  <2> QED BY <2>1, <1>4, <1>t
      DEF Lose, IInv, SnpTypeOK, Numbered, Received
<1>5. ASSUME NEW p \in air, Damage(p) PROVE IInv'
  <2>1. p \in Pdu
    BY <1>t DEF SnpTypeOK
  <2> DEFINE q == [p EXCEPT !.intact = FALSE]
  <2>2. q \in Pdu /\ q.num = p.num /\ q.flow = p.flow
    BY <2>1 DEF Pdu
  <2>3. air' = (air \ {p}) \cup {q}
    BY <1>5 DEF Damage
  <2> HIDE DEF q
  <2>4. SnpTypeOK'
    BY <2>2, <2>3, <1>5, <1>t DEF Damage, SnpTypeOK
  <2>5. Numbered'
    BY <2>2, <2>3, <1>5, <1>t DEF Damage, Numbered
  <2> QED BY <2>4, <2>5, <1>5, <1>t DEF Damage, IInv, Received
<1>6. CASE UNCHANGED vars
  BY <1>6, <1>t DEF vars, IInv, SnpTypeOK, Numbered, Received
<1> QED BY <1>1, <1>2, <1>3, <1>4, <1>5, <1>6 DEF Next

LEMMA Invariance == Spec => []IInv
<1>1. Init => IInv
  BY InitIInv
<1>2. IInv /\ [Next]_vars => IInv'
  BY StepIInv
<1> QED BY <1>1, <1>2, PTL DEF Spec

-----------------------------------------------------------------------------
\* The counters, the states of snp_fsm and the PDUs keep their types; in
\* particular recv_T_SQN never exceeds 2^24.
THEOREM TypeCorrect == Spec => []SnpTypeOK
<1>1. IInv => SnpTypeOK
  BY DEF IInv
<1> QED BY <1>1, Invariance, PTL

\* Elements of delivered[f] are numbers with numeric wire values.
LEMMA DeliveredNat ==
  ASSUME SnpTypeOK, NEW f \in Flow
  PROVE  /\ delivered[f] \in Seq(Nat)
         /\ Len(delivered[f]) \in Nat
         /\ DOMAIN delivered[f] = 1 .. Len(delivered[f])
         /\ \A i \in 1 .. Len(delivered[f]) :
               delivered[f][i] \in Nat /\ Wire(delivered[f][i]) \in Nat
<1>1. delivered[f] \in Seq(Nat)
  BY DEF SnpTypeOK
<1>2. /\ Len(delivered[f]) \in Nat
      /\ DOMAIN delivered[f] = 1 .. Len(delivered[f])
      /\ \A i \in 1 .. Len(delivered[f]) : delivered[f][i] \in Nat
  BY <1>1
<1> QED BY <1>1, <1>2, WireRange

AtMostOnce ==
    \A f \in Flow : \A i, j \in DOMAIN delivered[f] :
        i < j => delivered[f][i] # delivered[f][j]

\* process_snp hands no PDU up twice, even after the SQN field has wrapped, where
\* the order of Ordered is lost, and whatever the air repeats, delays or reorders.
THEOREM NeverTwice == Spec => []AtMostOnce
<1>1. IInv => AtMostOnce
  <2> SUFFICES ASSUME IInv, NEW f \in Flow,
                      NEW i \in DOMAIN delivered[f],
                      NEW j \in DOMAIN delivered[f], i < j
               PROVE  delivered[f][i] # delivered[f][j]
    BY DEF AtMostOnce
  <2>1. i \in 1 .. Len(delivered[f]) /\ j \in 1 .. Len(delivered[f])
    BY DeliveredNat DEF IInv
  <2>2. Wire(delivered[f][i]) < Wire(delivered[f][j])
    BY <2>1 DEF IInv, Received
  <2>3. Wire(delivered[f][i]) \in Nat
    BY <2>1, DeliveredNat DEF IInv
  <2> QED BY <2>2, <2>3
<1> QED BY <1>1, Invariance, PTL

\* A flow hands up at most 2^24 PDUs while its lme_as_man_t lives: the field
\* wraps at the sender, recv_T_SQN does not wrap at the receiver.
THEOREM Mortal == Spec => []LifetimeBounded
<1>1. IInv => LifetimeBounded
  <2> SUFFICES ASSUME IInv, NEW f \in Flow PROVE Len(delivered[f]) <= SqnMod
    BY DEF LifetimeBounded
  <2>1. Len(delivered[f]) \in Nat
    BY DeliveredNat DEF IInv
  <2>2. Len(delivered[f]) <= recv_T_SQN[f] /\ recv_T_SQN[f] \in 0 .. SqnMod
    BY DEF IInv, Received, SnpTypeOK
  <2> QED BY <2>1, <2>2, SnpAssumption
<1> QED BY <1>1, Invariance, PTL

-----------------------------------------------------------------------------
\* Before the SQN field wraps, wire values are the numbers themselves.
LEMMA NoWrap ==
  ASSUME MaxSent <= SqnMod, IInv, NEW f \in Flow
  PROVE  /\ \A i \in 1 .. Len(delivered[f]) :
               Wire(delivered[f][i]) = delivered[f][i]
         /\ \A p \in air : p.flow = f => Wire(p.num) = p.num
<1>1. send_T_SQN[f] \in 0 .. MaxSent
  BY DEF IInv, SnpTypeOK
<1>2. ASSUME NEW i \in 1 .. Len(delivered[f])
      PROVE  Wire(delivered[f][i]) = delivered[f][i]
  <2>1. delivered[f][i] \in Nat /\ delivered[f][i] < send_T_SQN[f]
    BY DeliveredNat DEF IInv, Received
  <2> QED BY <2>1, <1>1, WireExact, SnpAssumption
<1>3. ASSUME NEW p \in air, p.flow = f PROVE Wire(p.num) = p.num
  <2>1. p.num \in Nat /\ p.num < send_T_SQN[f]
    BY <1>3 DEF IInv, SnpTypeOK, Pdu, Numbered
  <2> QED BY <2>1, <1>1, WireExact, SnpAssumption
<1> QED BY <1>2, <1>3

\* As long as a sender takes at most 2^24 SQNs, PDUs are handed up in the order
\* in which they were numbered.
THEOREM Ordered == ASSUME MaxSent <= SqnMod PROVE Spec => []InOrder
<1>1. IInv => InOrder
  <2> SUFFICES ASSUME IInv, NEW f \in Flow,
                      NEW i \in DOMAIN delivered[f],
                      NEW j \in DOMAIN delivered[f], i < j
               PROVE  delivered[f][i] < delivered[f][j]
    BY DEF InOrder
  <2>1. i \in 1 .. Len(delivered[f]) /\ j \in 1 .. Len(delivered[f])
    BY DeliveredNat DEF IInv
  <2>2. Wire(delivered[f][i]) < Wire(delivered[f][j])
    BY <2>1 DEF IInv, Received
  <2> QED BY <2>1, <2>2, NoWrap
<1> QED BY <1>1, Invariance, PTL

\* A burst of losses longer than SNP_SQN_RANGE silences a flow for good.
THEOREM NoWayBack == ASSUME MaxSent <= SqnMod PROVE Spec => DeafStaysDeaf
<1> DEFINE Stays == \A f \in Flow :
                       Deaf(f) => Deaf(f)' /\ delivered'[f] = delivered[f]
<1>1. ASSUME IInv, [Next]_vars PROVE [Stays]_vars
  <2> SUFFICES ASSUME NEW f \in Flow, Deaf(f)
               PROVE  Deaf(f)' /\ delivered'[f] = delivered[f]
    OBVIOUS
  <2>t. /\ SnpTypeOK /\ f \in Flow
        /\ \A g \in Flow : send_T_SQN[g] \in Nat /\ recv_T_SQN[g] \in Nat
    BY <1>1, SnpAssumption DEF IInv, SnpTypeOK
  <2>1. ASSUME NEW g \in Flow, SnAuthReq(g) \/ SnOpenReq(g)
        PROVE  Deaf(f)' /\ delivered'[f] = delivered[f]
    BY <2>1 DEF SnAuthReq, SnOpenReq, Deaf, InWindow
  <2>2. ASSUME NEW g \in Flow, NEW plane \in Plane,
               NEW o \in {"sent", "no_mac", "no_struct"},
               SnDataReq(g, plane, o)
        PROVE  Deaf(f)' /\ delivered'[f] = delivered[f]
    <3>0. PICK q : q = [flow |-> g, num |-> send_T_SQN[g], intact |-> o = "sent"]
      OBVIOUS
    <3>1. /\ recv_T_SQN' = recv_T_SQN /\ delivered' = delivered
          /\ send_T_SQN[g] < MaxSent
          /\ send_T_SQN' = [send_T_SQN EXCEPT ![g] = @ + 1]
          /\ air' = air \/ air' = air \cup {q}
      BY <2>2, <3>0 DEF SnDataReq
    <3>2. send_T_SQN'[f] > recv_T_SQN'[f] + SqnRange
      BY <3>1, <2>t, SnpAssumption DEF Deaf, SnpTypeOK
    <3>3. Wire(q.num) = q.num /\ q.num = send_T_SQN[g] /\ q.flow = g
      BY <3>0, <3>1, <2>t, WireExact, SnpAssumption
    <3>4. q.flow = f => ~InWindow(f, Wire(q.num))'
      BY <3>1, <3>3, <2>t, SnpAssumption DEF Deaf, InWindow
    <3>5. \A p \in air : p.flow = f /\ p.intact => ~InWindow(f, Wire(p.num))'
      BY <3>1 DEF Deaf, InWindow
    <3>6. \A p \in air' : p.flow = f /\ p.intact => ~InWindow(f, Wire(p.num))'
      BY <3>1, <3>4, <3>5
    <3> QED BY <3>1, <3>2, <3>6 DEF Deaf
  <2>3. ASSUME NEW p \in air, NEW repeated \in BOOLEAN, NEW decrypted \in BOOLEAN,
               ProcessSnp(p, repeated, decrypted)
        PROVE  Deaf(f)' /\ delivered'[f] = delivered[f]
    <3>1. p.flow # f
      BY <2>3 DEF ProcessSnp, NextSqn, Deaf
    <3>2. /\ recv_T_SQN'[f] = recv_T_SQN[f] /\ delivered'[f] = delivered[f]
          /\ send_T_SQN' = send_T_SQN /\ air' \subseteq air
      BY <3>1, <2>3, <2>t DEF ProcessSnp, NextSqn, SnpTypeOK
    <3> QED BY <3>2 DEF Deaf, InWindow
  <2>4. ASSUME NEW p \in air, Lose(p)
        PROVE  Deaf(f)' /\ delivered'[f] = delivered[f]
    BY <2>4 DEF Lose, Deaf, InWindow
  <2>5. ASSUME NEW p \in air, Damage(p)
        PROVE  Deaf(f)' /\ delivered'[f] = delivered[f]
    <3> DEFINE q == [p EXCEPT !.intact = FALSE]
    <3>1. p \in Pdu
      BY <2>t DEF SnpTypeOK
    <3>2. q.intact = FALSE
      BY <3>1 DEF Pdu
    <3>3. air' = (air \ {p}) \cup {q}
      BY <2>5 DEF Damage
    <3> HIDE DEF q
    <3> QED BY <3>2, <3>3, <2>5 DEF Damage, Deaf, InWindow
  <2>6. CASE UNCHANGED vars
    BY <2>6 DEF vars, Deaf, InWindow
  <2> QED BY <1>1, <2>1, <2>2, <2>3, <2>4, <2>5, <2>6 DEF Next
<1> QED BY <1>1, Invariance, PTL DEF Spec, DeafStaysDeaf

\* As long as a sender takes at most 2^24 SQNs, SNP implements the lossy but
\* ordered pipe of OrderedDelivery.
THEOREM SnpImplementsPipe == ASSUME MaxSent <= SqnMod PROVE Spec => ImplementsPipe
<1>1. Init => Pipe!Init
  BY DEF Init, Pipe!Init
<1>2. ASSUME IInv, [Next]_vars PROVE [Pipe!Next]_(Pipe!vars)
  <2> USE <1>2
  <2>t. SnpTypeOK
    BY DEF IInv
  <2>1. ASSUME NEW f \in Flow, SnAuthReq(f) \/ SnOpenReq(f)
        PROVE  UNCHANGED Pipe!vars
    BY <2>1 DEF SnAuthReq, SnOpenReq, Pipe!vars
  <2>2. ASSUME NEW f \in Flow, NEW plane \in Plane,
               NEW o \in {"sent", "no_mac", "no_struct"},
               SnDataReq(f, plane, o)
        PROVE  Pipe!Next
    <3>1. Pipe!Submit(f)
      BY <2>2 DEF SnDataReq, Pipe!Submit
    <3> QED BY <3>1 DEF Pipe!Next
  <2>3. ASSUME NEW p \in air, NEW repeated \in BOOLEAN, NEW decrypted \in BOOLEAN,
               ProcessSnp(p, repeated, decrypted)
        PROVE  Pipe!Next \/ UNCHANGED Pipe!vars
    <3>1. /\ p.flow \in Flow /\ p.num \in Nat
          /\ p.num < send_T_SQN[p.flow] /\ send_T_SQN[p.flow] \in Nat
      BY <2>t, SnpAssumption DEF IInv, SnpTypeOK, Pdu, Numbered
    <3>2. CASE ~decrypted
      BY <2>3, <3>2 DEF ProcessSnp, NextSqn, Pipe!vars
    <3>3. CASE decrypted
      <4> DEFINE s == delivered[p.flow]
      <4>1. s # <<>> => Len(s) \in 1 .. Len(s) /\ Len(s) \in Nat
        <5>1. s \in Seq(Nat)
          BY <3>1, <2>t DEF SnpTypeOK
        <5> QED BY <5>1
      <4>2. s # <<>> => /\ s[Len(s)] \in Nat
                        /\ s[Len(s)] < recv_T_SQN[p.flow]
        BY <4>1, <3>1, <2>t, NoWrap, DeliveredNat DEF IInv, Received
      <4>3. recv_T_SQN[p.flow] <= p.num /\ recv_T_SQN[p.flow] \in Nat
        BY <2>3, <3>1, <2>t, NoWrap, SnpAssumption
        DEF ProcessSnp, NextSqn, InWindow, SnpTypeOK
      <4>4. Pipe!Fresh(p.flow, p.num)
        BY <4>2, <4>3, <3>1 DEF Pipe!Fresh
      <4>5. Pipe!Deliver(p.flow, p.num)
        BY <4>4, <3>1, <3>3, <2>3 DEF ProcessSnp, NextSqn, Pipe!Deliver
      <4> QED BY <4>5, <3>1 DEF Pipe!Next
    <3> QED BY <3>2, <3>3
  <2>4. ASSUME NEW p \in air, Lose(p) \/ Damage(p) PROVE UNCHANGED Pipe!vars
    BY <2>4 DEF Lose, Damage, Pipe!vars
  <2>5. CASE UNCHANGED vars
    BY <2>5 DEF vars, Pipe!vars
  <2> QED BY <2>1, <2>2, <2>3, <2>4, <2>5 DEF Next
<1> QED BY <1>1, <1>2, Invariance, PTL DEF Spec, ImplementsPipe, Pipe!Spec
==============================================================================
