--------------------------- MODULE Handover_proofs ---------------------------
(* Proofs about Handover, for every number of stations, control offsets and   *)
(* handovers: no station is forgotten by both ground stations, and control    *)
(* offsets follow the nodes.                                                  *)
EXTENDS Handover, TLAPS, WellFoundedInduction, SequenceTheorems

\* A nonempty set of naturals has a least member.
LEMMA LeastExists ==
  ASSUME NEW T, T \subseteq Nat, T # {}
  PROVE  \E x \in T : \A y \in T : x <= y
<1>1. IsWellFoundedOn(OpToRel(<, Nat), Nat)
  BY NatLessThanWellFounded
<1>2. PICK x \in T : \A y \in T : ~ (<<y, x>> \in OpToRel(<, Nat))
  BY <1>1, WFMin
<1>3. \A y \in T : ~ (y < x)
  BY <1>2 DEF OpToRel
<1> QED BY <1>3

(***************************************************************************)
(* The inductive invariant.                                                *)
(***************************************************************************)

Els(s)   == {s[i] : i \in 1 .. Len(s)}
Apart(s) == \A i, j \in 1 .. Len(s) : s[i].as = s[j].as => i = j
In(g)    == Els(wire[g])

\* There is at most one message about a station, and while a ground station is
\* accepting it, that is the acknowledgement it has sent.
OneMessage ==
    /\ \A g \in Gs : Apart(wire[g])
    /\ \A g \in Gs : \A m \in In(g), n \in In(Peer(g)) : m.as # n.as
    /\ \A g, h \in Gs : accepting[g] # Idle => \A m \in In(h) :
          m.as = accepting[g].as => h = Peer(g) /\ m.type = "ack"
    /\ \A g \in Gs : accepting[g] # Idle => accepting[Peer(g)].as # accepting[g].as

\* An acknowledgement comes from a ground station that has the node or is about
\* to store it.
AckKept ==
    /\ \A g \in Gs : exits[g] \subseteq left
    /\ \A g \in Gs : \A m \in In(g) : m.type = "ack" /\ m.as \notin left =>
          m.as \in nodes[Peer(g)] \/ accepting[Peer(g)].as = m.as

\* Both ground stations know the station: the acknowledgement is under way, or
\* was lost with a connection.
Excused(a) == \/ \E h \in Gs : \E m \in In(h) : m.type = "ack" /\ m.as = a
              \/ \E h \in Gs : ~peer_up[h]

OneNode ==
    /\ \A g \in Gs : \A a \in nodes[g] : a \in nodes[Peer(g)] => Excused(a)
    /\ \A g \in Gs : \A a \in nodes[Peer(g)] : accepting[g].as = a => Excused(a)
    /\ \A g \in Gs : peer_up[g] =>
          /\ accepting[g] # Idle => accepting[g].as \notin nodes[g]
          /\ \A m \in In(g) : m.type = "ini" => m.as \notin nodes[g]

\* The control offsets of nodes. clear_mac_CO finds the right one, for no entry
\* below it has the same SAC.
Offered(g) == IF accepting[g] = Idle THEN {} ELSE {accepting[g].co}
Held(g)    == CO_bitset[g] \ Offered(g)

Books(g) ==
    /\ \A a \in nodes[g] : \E c \in Held(g) : mac_co_sac[g][c] = a
    /\ \A c \in Held(g) : mac_co_sac[g][c] \in nodes[g]
    /\ \A c, d \in Held(g) : mac_co_sac[g][d] = mac_co_sac[g][c] => d = c
    /\ \A c \in Held(g), d \in Co : d < c => mac_co_sac[g][d] # mac_co_sac[g][c]
    /\ accepting[g] # Idle =>
          /\ accepting[g].co \in CO_bitset[g]
          /\ \A d \in Co : d < accepting[g].co => mac_co_sac[g][d] # accepting[g].as

Told == OneMessage /\ AckKept /\ Kept /\ OneNode
Filed == \A g \in Gs : peer_up[g] => Books(g)
IInv == HandoverTypeOK /\ (Patient => Told /\ Filed)

-----------------------------------------------------------------------------
(***************************************************************************)
(* The helpers.                                                            *)
(***************************************************************************)

\* Two ground stations, each the other's peer.
LEMMA PeerFacts ==
  \A g \in Gs : /\ Peer(g) \in Gs /\ Peer(g) # g /\ Peer(Peer(g)) = g
                /\ \A h \in Gs : h = g \/ h = Peer(g)
BY DEF Gs, Peer

\* The thread that serves the peer takes a message off.
LEMMA TailFacts ==
  ASSUME NEW S, NEW s \in Seq(S), s # <<>>
  PROVE  /\ Head(s) \in S /\ Tail(s) \in Seq(S)
         /\ Head(s) \in Els(s) /\ Els(Tail(s)) \subseteq Els(s)
         /\ \A m \in Els(s) : m = Head(s) \/ m \in Els(Tail(s))
         /\ Apart(s) => Apart(Tail(s)) /\ \A m \in Els(Tail(s)) : m.as # Head(s).as
<1>1. /\ Tail(s) \in Seq(S) /\ Len(s) \in Nat /\ Len(s) # 0 /\ Head(s) = s[1] /\ s[1] \in S
      /\ Len(Tail(s)) = Len(s) - 1
      /\ \A i \in 1 .. Len(s) - 1 : Tail(s)[i] = s[i + 1]
  BY HeadTailProperties
<1>2. Head(s) \in Els(s)
  BY <1>1 DEF Els
<1>3. ASSUME NEW m \in Els(Tail(s))
      PROVE  \E i \in 2 .. Len(s) : m = s[i]
  <2>1. PICK j \in 1 .. Len(s) - 1 : m = Tail(s)[j]
    BY <1>1 DEF Els
  <2>2. j + 1 \in 2 .. Len(s) /\ m = s[j + 1]
    BY <2>1, <1>1
  <2> QED BY <2>2
<1>4. ASSUME NEW m \in Els(s) PROVE m = Head(s) \/ m \in Els(Tail(s))
  <2>1. PICK i \in 1 .. Len(s) : m = s[i]
    BY DEF Els
  <2>2. CASE i = 1
    BY <2>1, <2>2, <1>1
  <2>3. CASE i # 1
    <3>1. i - 1 \in 1 .. Len(Tail(s)) /\ Tail(s)[i - 1] = m
      BY <2>1, <2>3, <1>1
    <3> QED BY <3>1 DEF Els
  <2> QED BY <2>2, <2>3
<1>5. Els(Tail(s)) \subseteq Els(s)
  BY <1>1, <1>3 DEF Els
<1>6. ASSUME Apart(s) PROVE Apart(Tail(s)) /\ \A m \in Els(Tail(s)) : m.as # Head(s).as
  <2>1. Apart(Tail(s))
    <3> SUFFICES ASSUME NEW i \in 1 .. Len(s) - 1, NEW j \in 1 .. Len(s) - 1,
                        Tail(s)[i].as = Tail(s)[j].as
                 PROVE  i = j
      BY <1>1 DEF Apart
    <3>1. s[i + 1].as = s[j + 1].as /\ i + 1 \in 1 .. Len(s) /\ j + 1 \in 1 .. Len(s)
      BY <1>1
    <3>2. i + 1 = j + 1
      BY <3>1, <1>6 DEF Apart
    <3> QED BY <3>2
  <2>2. ASSUME NEW m \in Els(Tail(s)), m.as = Head(s).as PROVE FALSE
    <3>1. PICK i \in 2 .. Len(s) : m = s[i]
      BY <1>3
    <3>2. s[i].as = s[1].as /\ i \in 1 .. Len(s) /\ 1 \in 1 .. Len(s)
      BY <3>1, <2>2, <1>1
    <3>3. i = 1
      BY <3>2, <1>6 DEF Apart
    <3> QED BY <3>3
  <2> QED BY <2>1, <2>2
<1> QED BY <1>1, <1>2, <1>4, <1>5, <1>6

\* A message is sent to the peer.
LEMMA AppendFacts ==
  ASSUME NEW S, NEW s \in Seq(S), NEW m \in S
  PROVE  /\ Append(s, m) \in Seq(S)
         /\ Els(Append(s, m)) = Els(s) \cup {m}
         /\ Apart(s) /\ (\A n \in Els(s) : n.as # m.as) => Apart(Append(s, m))
<1> DEFINE t == Append(s, m)
<1>1. /\ t \in Seq(S) /\ Len(s) \in Nat /\ Len(t) = Len(s) + 1
      /\ \A i \in 1 .. Len(s) : t[i] = s[i]
      /\ t[Len(s) + 1] = m
  BY AppendProperties
<1> HIDE DEF t
<1>2. ASSUME NEW n \in Els(t) PROVE n \in Els(s) \/ n = m
  <2>1. PICK i \in 1 .. Len(s) + 1 : n = t[i]
    BY <1>1 DEF Els
  <2>2. CASE i = Len(s) + 1
    BY <2>1, <2>2, <1>1
  <2>3. CASE i \in 1 .. Len(s)
    BY <2>1, <2>3, <1>1 DEF Els
  <2> QED BY <2>2, <2>3, <1>1
<1>3. ASSUME NEW n \in Els(s) PROVE n \in Els(t)
  <2>1. PICK i \in 1 .. Len(s) : n = s[i]
    BY DEF Els
  <2>2. i \in 1 .. Len(t) /\ n = t[i]
    BY <2>1, <1>1
  <2> QED BY <2>2 DEF Els
<1>4. m \in Els(t)
  <2>1. Len(s) + 1 \in 1 .. Len(t)
    BY <1>1
  <2> QED BY <2>1, <1>1 DEF Els
<1>5. ASSUME Apart(s), \A n \in Els(s) : n.as # m.as PROVE Apart(t)
  <2> SUFFICES ASSUME NEW i \in 1 .. Len(s) + 1, NEW j \in 1 .. Len(s) + 1, t[i].as = t[j].as
               PROVE  i = j
    BY <1>1 DEF Apart
  <2>1. \A k \in 1 .. Len(s) : s[k] \in Els(s)
    BY DEF Els
  <2>2. CASE i \in 1 .. Len(s) /\ j \in 1 .. Len(s)
    BY <2>2, <1>1, <1>5 DEF Apart
  <2>3. CASE i = Len(s) + 1 /\ j \in 1 .. Len(s)
    BY <2>1, <2>3, <1>1, <1>5
  <2>4. CASE j = Len(s) + 1 /\ i \in 1 .. Len(s)
    BY <2>1, <2>4, <1>1, <1>5
  <2> QED BY <2>2, <2>3, <2>4, <1>1
<1> QED BY <1>1, <1>2, <1>3, <1>4, <1>5 DEF t

\* A connection that breaks loses all.
LEMMA EmptyFacts == Els(<<>>) = {} /\ Apart(<<>>)
BY DEF Els, Apart

\* What the wires carry.
LEMMA InFacts ==
  ASSUME HandoverTypeOK, NEW g \in Gs
  PROVE  wire[g] \in Seq(Message) /\ In(g) \subseteq Message
<1>1. wire[g] \in Seq(Message)
  BY DEF HandoverTypeOK
<1>2. \A i \in 1 .. Len(wire[g]) : wire[g][i] \in Message
  BY <1>1, ElementOfSeq
<1> QED BY <1>1, <1>2 DEF In, Els

LEMMA MessageFacts ==
  /\ \A m \in Message : m.as \in As /\ m.type \in {"ini", "ack"}
  /\ \A a \in As : Ini(a) \in Message /\ Ini(a).as = a /\ Ini(a).type = "ini"
  /\ \A a \in As, c \in Co : /\ Ack(a, c) \in Message
                             /\ Ack(a, c).as = a /\ Ack(a, c).type = "ack"
BY DEF Message, Ini, Ack

\* No station is NoAs.
LEMMA AcceptingFacts ==
  ASSUME HandoverTypeOK, NEW g \in Gs
  PROVE  /\ accepting[g] # Idle => accepting[g].as \in As /\ accepting[g].co \in Co
         /\ accepting[g] = Idle => accepting[g].as = NoAs
         /\ NoAs \notin As
BY HandoverAssumption DEF HandoverTypeOK, Idle

\* bs_alloc_resource returns a free control offset, all below which are in use.
LEMMA LowestFreeFacts ==
  ASSUME NEW g \in Gs, CO_bitset[g] # Co, CO_bitset[g] \subseteq Co
  PROVE  /\ LowestFree(g) \in Co /\ LowestFree(g) \notin CO_bitset[g]
         /\ \A d \in Co : d < LowestFree(g) => d \in CO_bitset[g]
<1>1. Co \ CO_bitset[g] \subseteq Nat /\ Co \ CO_bitset[g] # {}
  <2>1. Co \ CO_bitset[g] \subseteq Nat
    BY HandoverAssumption DEF Co
  <2>2. Co \ CO_bitset[g] # {}
    OBVIOUS
  <2> QED BY <2>1, <2>2
<1>2. \E c \in Co \ CO_bitset[g] : \A d \in Co \ CO_bitset[g] : c <= d
  BY <1>1, LeastExists
<1>3. /\ LowestFree(g) \in Co \ CO_bitset[g]
      /\ \A d \in Co \ CO_bitset[g] : LowestFree(g) <= d
  BY <1>2 DEF LowestFree
<1> QED BY <1>3, HandoverAssumption DEF Co

\* clear_mac_CO finds the first entry of the SAC, if there is one.
LEMMA FirstCoFacts ==
  ASSUME NEW g \in Gs, NEW a, HasCo(g, a)
  PROVE  /\ FirstCo(g, a) \in Co /\ mac_co_sac[g][FirstCo(g, a)] = a
         /\ \A d \in Co : d < FirstCo(g, a) => mac_co_sac[g][d] # a
<1> DEFINE T == {c \in Co : mac_co_sac[g][c] = a}
<1>1. T \subseteq Nat /\ T # {}
  BY HandoverAssumption DEF Co, HasCo
<1>2. PICK c \in T : \A d \in T : c <= d
  BY <1>1, LeastExists
<1>3. \A d \in 0 .. c - 1 : mac_co_sac[g][d] # a
  <2> SUFFICES ASSUME NEW d \in 0 .. c - 1, mac_co_sac[g][d] = a PROVE FALSE
    OBVIOUS
  <2>1. d \in T /\ d < c
    BY <1>2, HandoverAssumption DEF Co
  <2> QED BY <2>1, <1>2, <1>1
<1>4. \E x \in Co : /\ mac_co_sac[g][x] = a
                    /\ \A d \in 0 .. x - 1 : mac_co_sac[g][d] # a
  BY <1>2, <1>3
<1>5. /\ FirstCo(g, a) \in Co /\ mac_co_sac[g][FirstCo(g, a)] = a
      /\ \A d \in 0 .. FirstCo(g, a) - 1 : mac_co_sac[g][d] # a
  BY <1>4 DEF FirstCo
<1>6. \A d \in Co : d < FirstCo(g, a) => d \in 0 .. FirstCo(g, a) - 1
  BY <1>5, HandoverAssumption DEF Co
<1> QED BY <1>5, <1>6

-----------------------------------------------------------------------------
(***************************************************************************)
(* Types.                                                                  *)
(***************************************************************************)

\* The first entry for a station leaves the list of those to be polled.
LEMMA WithoutType ==
  ASSUME NEW s \in Seq(As), NEW a
  PROVE  Without(s, a) \in Seq(As)
<1>1. CASE ~ \E i \in DOMAIN s : s[i] = a
  BY <1>1 DEF Without
<1>2. CASE \E i \in DOMAIN s : s[i] = a
  <2> DEFINE T == {i \in DOMAIN s : s[i] = a}
             First(i) == s[i] = a /\ \A j \in 1 .. i - 1 : s[j] # a
             first == CHOOSE i \in DOMAIN s : First(i)
  <2>1. DOMAIN s = 1 .. Len(s) /\ Len(s) \in Nat
    OBVIOUS
  <2>2. T \subseteq Nat /\ T # {}
    BY <1>2, <2>1
  <2>3. PICK i \in T : \A j \in T : i <= j
    BY <2>2, LeastExists
  <2>4. First(i)
    <3> SUFFICES ASSUME NEW j \in 1 .. i - 1, s[j] = a PROVE FALSE
      BY <2>3
    <3>1. j \in T /\ j < i
      BY <2>1, <2>3
    <3> QED BY <3>1, <2>3, <2>2
  <2>5. \E k \in DOMAIN s : First(k)
    BY <2>3, <2>4
  <2>6. first \in 1 .. Len(s)
    BY <2>5, <2>1
  <2> HIDE DEF First
  <2>7. \A k \in 1 .. Len(s) : s[k] \in As
    BY ElementOfSeq
  <2>8. SubSeq(s, 1, first - 1) \in Seq(As) /\ SubSeq(s, first + 1, Len(s)) \in Seq(As)
    <3>1. \A k \in 1 .. first - 1 : s[k] \in As
      BY <2>1, <2>6, <2>7
    <3>2. \A k \in first + 1 .. Len(s) : s[k] \in As
      BY <2>1, <2>6, <2>7
    <3> HIDE DEF first
    <3> QED BY <3>1, <3>2, <2>1, <2>6, SubSeqProperties
  <2>9. Without(s, a) = SubSeq(s, 1, first - 1) \o SubSeq(s, first + 1, Len(s))
    BY <1>2 DEF Without, First
  <2> HIDE DEF first
  <2> QED BY <2>8, <2>9, ConcatProperties
<1> QED BY <1>1, <1>2

LEMMA TypeInit == Init => HandoverTypeOK
<1> SUFFICES ASSUME Init PROVE HandoverTypeOK
  OBVIOUS
<1>1. \E held \in [As -> Co] :
         /\ CO_bitset = [g \in Gs |-> IF g = "gs1" THEN {held[a] : a \in As} ELSE {}]
         /\ mac_co_sac = [g \in Gs |-> [c \in Co |->
               IF g = "gs1" /\ \E a \in As : held[a] = c
               THEN CHOOSE a \in As : held[a] = c ELSE NoAs]]
  BY DEF Init
<1>2. CO_bitset \in [Gs -> SUBSET Co] /\ mac_co_sac \in [Gs -> [Co -> As \cup {NoAs}]]
  BY <1>1
<1>3. /\ nodes \in [Gs -> SUBSET As] /\ to_sync \in [Gs -> Seq(As)]
      /\ peer_up \in [Gs -> BOOLEAN] /\ wire \in [Gs -> Seq(Message)]
      /\ ho_coms \in [Gs -> SUBSET [as : As, gs : Gs]]
      /\ syncs \in [Gs -> SUBSET As] /\ exits \in [Gs -> SUBSET As]
  BY DEF Init
<1>4. /\ accepting \in [Gs -> [as : As, co : Co] \cup {Idle}] /\ commands \in 0 .. MaxHo
      /\ mac \in [As -> {"MAC_OPEN", "MAC_HO2"}] /\ curr_gs \in [As -> Gs] /\ left \subseteq As
  BY HandoverAssumption DEF Init, Gs
<1> QED BY <1>2, <1>3, <1>4 DEF HandoverTypeOK

LEMMA DeleteNodeType ==
  ASSUME HandoverTypeOK, NEW g \in Gs, NEW a, DeleteNode(g, a)
  PROVE  /\ nodes' \in [Gs -> SUBSET As] /\ CO_bitset' \in [Gs -> SUBSET Co]
         /\ UNCHANGED <<mac_co_sac, to_sync>>
<1>1. nodes' \in [Gs -> SUBSET As]
  BY DEF DeleteNode, HandoverTypeOK
<1>2. CO_bitset' = CO_bitset \/ CO_bitset' = [CO_bitset EXCEPT ![g] = @ \ {FirstCo(g, a)}]
  <2>1. CASE a \in nodes[g] /\ HasCo(g, a)
    BY <2>1, Zenon DEF DeleteNode
  <2>2. CASE ~(a \in nodes[g] /\ HasCo(g, a))
    BY <2>2, Zenon DEF DeleteNode
  <2> QED BY <2>1, <2>2
<1>3. CO_bitset \in [Gs -> SUBSET Co]
  BY DEF HandoverTypeOK
<1>4. CO_bitset[g] \ {FirstCo(g, a)} \in SUBSET Co
  BY <1>3
<1>5. CO_bitset' \in [Gs -> SUBSET Co]
  BY <1>2, <1>3, <1>4
<1> QED BY <1>1, <1>5 DEF DeleteNode

\* The message a ground station takes next is about a station.
LEMMA ReceivesFacts ==
  ASSUME HandoverTypeOK, NEW g \in Gs, NEW t, Receives(g, t)
  PROVE  /\ Head(wire[g]) \in Message /\ Head(wire[g]).as \in As
         /\ Head(wire[g]) \in In(g) /\ Head(wire[g]).type = t
         /\ wire[g] # <<>> /\ accepting[g] = Idle
         /\ Tail(wire[g]) \in Seq(Message)
BY InFacts, TailFacts, MessageFacts DEF Receives, In

LEMMA TypeNext == HandoverTypeOK /\ [Next]_vars => HandoverTypeOK'
<1> SUFFICES ASSUME HandoverTypeOK, [Next]_vars PROVE HandoverTypeOK'
  OBVIOUS
<1> USE DEF cellVars, peerVars, airVars, asVars
<1>1. ASSUME NEW g \in Gs, NEW a \in As, Command(g, a) PROVE HandoverTypeOK'
  <2>1. wire' \in [Gs -> Seq(Message)]
    <3>1. Append(wire[Peer(g)], Ini(a)) \in Seq(Message)
      BY PeerFacts, InFacts, MessageFacts, AppendFacts
    <3> QED BY <3>1, <1>1 DEF Command, HandoverTypeOK
  <2>2. commands' \in 0 .. MaxHo
    BY <1>1, HandoverAssumption DEF Command, HandoverTypeOK
  <2> QED BY <2>1, <2>2, <1>1 DEF Command, HandoverTypeOK
<1>2. ASSUME NEW g \in Gs, NEW a \in As, SyncInd(g, a) PROVE HandoverTypeOK'
  <2>1. Without(to_sync[g], a) \in Seq(As)
    BY WithoutType DEF HandoverTypeOK
  <2>2. to_sync' \in [Gs -> Seq(As)]
    BY <2>1, <1>2 DEF SyncInd, HandoverTypeOK
  <2>3. syncs' \in [Gs -> SUBSET As]
    BY <1>2 DEF SyncInd, HandoverTypeOK
  <2> QED BY <2>2, <2>3, <1>2 DEF SyncInd, HandoverTypeOK
<1>3. ASSUME NEW g \in Gs, NEW a \in As, CellExit(g, a) PROVE HandoverTypeOK'
  <2>1. DeleteNode(g, a) /\ exits' \in [Gs -> SUBSET As]
    BY <1>3 DEF CellExit, HandoverTypeOK
  <2> QED BY <2>1, DeleteNodeType, <1>3 DEF CellExit, HandoverTypeOK
<1>4. ASSUME NEW g \in Gs, NEW accepted \in BOOLEAN, RecvIni(g, accepted) PROVE HandoverTypeOK'
  <2> DEFINE a == Head(wire[g]).as
  <2>1. Receives(g, "ini") /\ (accepted => CO_bitset[g] # Co)
    BY <1>4 DEF RecvIni
  <2>2. a \in As /\ Tail(wire[g]) \in Seq(Message) /\ wire[Peer(g)] \in Seq(Message)
    BY <2>1, ReceivesFacts, PeerFacts, InFacts
  <2>3. accepted => LowestFree(g) \in Co
    BY <2>1, LowestFreeFacts DEF HandoverTypeOK
  <2>4. accepted => Append(wire[Peer(g)], Ack(a, LowestFree(g))) \in Seq(Message)
    BY <2>2, <2>3, MessageFacts, AppendFacts
  <2>5. CO_bitset' \in [Gs -> SUBSET Co]
    BY <1>4, <2>3 DEF RecvIni, HandoverTypeOK
  <2>6. CASE accepted /\ peer_up[g]
    <3>1. accepting' = [accepting EXCEPT ![g] = [as |-> a, co |-> LowestFree(g)]]
      BY <1>4, <2>6 DEF RecvIni
    <3>2. accepting' \in [Gs -> [as : As, co : Co] \cup {Idle}]
      BY <3>1, <2>2, <2>3, <2>6 DEF HandoverTypeOK
    <3>3. wire' = [wire EXCEPT ![g] = Tail(@), ![Peer(g)] = Append(@, Ack(a, LowestFree(g)))]
      BY <1>4, <2>6 DEF RecvIni
    <3>4. wire' \in [Gs -> Seq(Message)]
      BY <3>3, <2>2, <2>4, <2>6, PeerFacts DEF HandoverTypeOK
    <3> QED BY <3>2, <3>4, <2>5, <1>4 DEF RecvIni, HandoverTypeOK
  <2>7. CASE ~(accepted /\ peer_up[g])
    <3>1. wire' = [wire EXCEPT ![g] = Tail(@)] /\ accepting' = accepting
      BY <1>4, <2>7 DEF RecvIni
    <3>2. wire' \in [Gs -> Seq(Message)]
      BY <3>1, <2>2 DEF HandoverTypeOK
    <3> QED BY <3>1, <3>2, <2>5, <1>4 DEF RecvIni, HandoverTypeOK
  <2> QED BY <2>6, <2>7
<1>5. ASSUME NEW g \in Gs, FinishIni(g) PROVE HandoverTypeOK'
  <2>1. accepting[g].as \in As /\ accepting[g].co \in Co
    BY <1>5, AcceptingFacts DEF FinishIni
  <2>2. nodes' \in [Gs -> SUBSET As]
    BY <1>5, <2>1 DEF FinishIni, HandoverTypeOK
  <2>3. mac_co_sac' \in [Gs -> [Co -> As \cup {NoAs}]]
    BY <1>5, <2>1 DEF FinishIni, HandoverTypeOK
  <2>4. to_sync' \in [Gs -> Seq(As)]
    <3>1. Append(to_sync[g], accepting[g].as) \in Seq(As)
      BY <2>1, AppendProperties DEF HandoverTypeOK
    <3> QED BY <3>1, <1>5 DEF FinishIni, HandoverTypeOK
  <2>5. accepting' \in [Gs -> [as : As, co : Co] \cup {Idle}]
    BY <1>5 DEF FinishIni, HandoverTypeOK
  <2> QED BY <2>2, <2>3, <2>4, <2>5, <1>5 DEF FinishIni, HandoverTypeOK
<1>6. ASSUME NEW g \in Gs, RecvAck(g) PROVE HandoverTypeOK'
  <2> DEFINE a == Head(wire[g]).as
  <2>1. Receives(g, "ack") /\ DeleteNode(g, a)
    BY <1>6 DEF RecvAck
  <2>2. a \in As /\ Tail(wire[g]) \in Seq(Message)
    BY <2>1, ReceivesFacts
  <2>3. wire' \in [Gs -> Seq(Message)]
    BY <1>6, <2>2 DEF RecvAck, HandoverTypeOK
  <2>4. ho_coms' = [ho_coms EXCEPT ![g] = @ \cup {[as |-> a, gs |-> Peer(g)]}]
    BY <1>6 DEF RecvAck
  <2>5. ho_coms' \in [Gs -> SUBSET [as : As, gs : Gs]]
    <3> HIDE DEF a
    <3> QED BY <2>4, <2>2, PeerFacts DEF HandoverTypeOK
  <2> QED BY <2>1, <2>3, <2>5, DeleteNodeType, <1>6 DEF RecvAck, HandoverTypeOK
<1>7. ASSUME NEW g \in Gs, PeerDown(g) PROVE HandoverTypeOK'
  BY <1>7, PeerFacts DEF PeerDown, HandoverTypeOK
<1>8. ASSUME NEW g \in Gs, NEW com \in ho_coms[g], NEW heard, HoCom(g, com, heard)
      PROVE  HandoverTypeOK'
  <2>1. com.gs \in Gs
    BY DEF HandoverTypeOK
  <2>2. /\ ho_coms' \in [Gs -> SUBSET [as : As, gs : Gs]]
        /\ curr_gs' \in [As -> Gs] /\ mac' \in [As -> {"MAC_OPEN", "MAC_HO2"}]
    BY <1>8, <2>1 DEF HoCom, HandoverTypeOK
  <2> QED BY <2>2, <1>8 DEF HoCom, HandoverTypeOK
<1>9. ASSUME NEW a \in As, SyncPoll(a) PROVE HandoverTypeOK'
  BY <1>9 DEF SyncPoll, Tuned, Gs, HandoverTypeOK
<1>10. ASSUME NEW a \in As, Leave(a) PROVE HandoverTypeOK'
  BY <1>10 DEF Leave, Tuned, Gs, HandoverTypeOK
<1>11. CASE UNCHANGED vars
  BY <1>11 DEF vars, HandoverTypeOK
<1> QED BY <1>1, <1>2, <1>3, <1>4, <1>5, <1>6, <1>7, <1>8, <1>9, <1>10, <1>11 DEF Next

\* Every variable of stations and ground stations keeps its type.
THEOREM TypeCorrect == Spec => []HandoverTypeOK
<1> QED BY TypeInit, TypeNext, PTL DEF Spec

-----------------------------------------------------------------------------
(***************************************************************************)
(* The initial states.                                                     *)
(***************************************************************************)

LEMMA InvInit == Init => IInv
<1> SUFFICES ASSUME Init PROVE IInv
  OBVIOUS
<1>1. /\ \A g \in Gs : wire[g] = <<>> /\ In(g) = {} /\ Apart(wire[g])
      /\ \A g \in Gs : accepting[g] = Idle /\ exits[g] = {} /\ peer_up[g]
      /\ \A g \in Gs : nodes[g] = IF g = "gs1" THEN As ELSE {}
  BY EmptyFacts DEF Init, In
<1>2. HandoverTypeOK
  BY TypeInit
<1>3. OneMessage
  BY <1>1, PeerFacts DEF OneMessage
<1>4. AckKept
  BY <1>1 DEF AckKept
<1>5. Kept
  BY <1>1 DEF Kept, Gs
<1>6. OneNode
  <2>1. \A g \in Gs : accepting[g].as \notin nodes[g] /\ accepting[g].as \notin nodes[Peer(g)]
    BY <1>1, PeerFacts, HandoverAssumption DEF Idle
  <2>2. \A g \in Gs : \A a \in nodes[g] : a \notin nodes[Peer(g)]
    BY <1>1 DEF Gs, Peer
  <2> QED BY <1>1, <2>1, <2>2 DEF OneNode
<1>7. Filed
  <2>1. PICK held \in [As -> Co] :
          /\ \A a, b \in As : a # b => held[a] # held[b]
          /\ CO_bitset = [g \in Gs |-> IF g = "gs1" THEN {held[a] : a \in As} ELSE {}]
          /\ mac_co_sac = [g \in Gs |-> [c \in Co |->
                IF g = "gs1" /\ \E a \in As : held[a] = c
                THEN CHOOSE a \in As : held[a] = c ELSE NoAs]]
    BY DEF Init
  <2>2. \A a \in As : (CHOOSE b \in As : held[b] = held[a]) = a
    BY <2>1
  <2>3. \A g \in Gs : Held(g) = CO_bitset[g]
    BY <1>1 DEF Held, Offered
  <2>4. ASSUME NEW g \in Gs, g # "gs1" PROVE Books(g)
    BY <2>1, <2>3, <2>4, <1>1 DEF Books
  <2>5. Books("gs1")
    <3> DEFINE g == "gs1"
    <3>1. g \in Gs /\ nodes[g] = As /\ CO_bitset[g] = {held[a] : a \in As} /\ accepting[g] = Idle
      BY <2>1, <1>1 DEF Gs
    <3>2. \A a \in As : held[a] \in Co /\ mac_co_sac[g][held[a]] = a
      BY <2>1, <2>2, <3>1
    <3>3. \A c \in Co : mac_co_sac[g][c] # NoAs => c = held[mac_co_sac[g][c]]
      <4> SUFFICES ASSUME NEW c \in Co, mac_co_sac[g][c] # NoAs
                   PROVE  c = held[mac_co_sac[g][c]]
        OBVIOUS
      <4>1. \E a \in As : held[a] = c
        BY <2>1, <3>1
      <4> QED BY <4>1, <3>2
    <3>4. \A c \in CO_bitset[g], d \in Co : d < c => mac_co_sac[g][d] # mac_co_sac[g][c]
      <4> SUFFICES ASSUME NEW a \in As, NEW d \in Co, d < held[a], mac_co_sac[g][d] = a
                   PROVE  FALSE
        BY <3>1, <3>2
      <4>1. d = held[a]
        BY <3>3, HandoverAssumption
      <4> QED BY <4>1, HandoverAssumption DEF Co
    <3> HIDE DEF g
    <3>5. Held(g) = CO_bitset[g]
      BY <2>3, <3>1
    <3>6. \A a \in nodes[g] : \E c \in Held(g) : mac_co_sac[g][c] = a
      BY <3>1, <3>2, <3>5
    <3>7. /\ \A c \in Held(g) : mac_co_sac[g][c] \in nodes[g]
          /\ \A c, d \in Held(g) : mac_co_sac[g][d] = mac_co_sac[g][c] => d = c
      BY <3>1, <3>2, <3>5
    <3>8. Books(g)
      BY <3>1, <3>4, <3>5, <3>6, <3>7 DEF Books
    <3> QED BY <3>8 DEF g
  <2> QED BY <2>4, <2>5 DEF Filed
<1> QED BY <1>2, <1>3, <1>4, <1>5, <1>6, <1>7 DEF IInv, Told

-----------------------------------------------------------------------------
(***************************************************************************)
(* The steps.                                                              *)
(***************************************************************************)

\* What remains excused when no acknowledgement is taken off.
LEMMA StillExcused ==
  ASSUME NEW a, Excused(a),
         \A h \in Gs : \A m \in In(h) : m.type = "ack" => m \in Els(wire'[h]),
         peer_up' = peer_up
  PROVE  Excused(a)'
BY DEF Excused, In

\* rcu_handover: nobody but the station's ground station knows of it.
LEMMA CommandStep ==
  ASSUME IInv, Patient, NEW g \in Gs, NEW a \in As, Command(g, a)
  PROVE  (Told /\ Filed)'
<1> USE DEF cellVars, peerVars, airVars, asVars
<1> DEFINE h == Peer(g)
<1>1. /\ HandoverTypeOK /\ OneMessage /\ AckKept /\ Kept /\ OneNode /\ Filed
      /\ h \in Gs /\ h # g /\ Peer(h) = g /\ (\A x \in Gs : x = g \/ x = h)
  BY PeerFacts DEF IInv, Told
<1>2. /\ a \in nodes[g] /\ peer_up[g] /\ ~Underway(a)
      /\ wire' = [wire EXCEPT ![h] = Append(@, Ini(a))]
      /\ UNCHANGED <<nodes, CO_bitset, mac_co_sac, peer_up, accepting, exits, left>>
  BY DEF Command
<1>3. /\ \A x \in Gs : accepting[x].as # a
      /\ \A x \in Gs : \A m \in In(x) : m.as # a
  BY <1>1, <1>2, InFacts DEF Underway, In, Els
<1>4. Ini(a) \in Message /\ Ini(a).as = a /\ Ini(a).type = "ini"
  BY MessageFacts
<1>5. /\ wire'[g] = wire[g] /\ Els(wire'[h]) = In(h) \cup {Ini(a)}
      /\ Apart(wire'[h]) /\ Apart(wire'[g])
  <2>1. wire'[h] = Append(wire[h], Ini(a)) /\ wire'[g] = wire[g]
    BY <1>1, <1>2 DEF HandoverTypeOK
  <2>2. Apart(wire[h]) /\ Apart(wire[g]) /\ wire[h] \in Seq(Message)
    BY <1>1, InFacts DEF OneMessage
  <2> QED BY <2>1, <2>2, <1>3, <1>4, <1>1, AppendFacts DEF In
<1>6. /\ \A x \in Gs : \A m \in Els(wire'[x]) : m \in In(x) \/ (x = h /\ m = Ini(a))
      /\ \A x \in Gs : In(x) \subseteq Els(wire'[x])
      /\ \A x \in Gs : Apart(wire'[x])
  BY <1>1, <1>5 DEF In
<1> HIDE DEF h
<1>7. OneMessage'
  <2>1. ASSUME NEW x \in Gs, NEW m \in Els(wire'[x]), NEW n \in Els(wire'[Peer(x)])
        PROVE  m.as # n.as
    BY <1>1, <1>3, <1>4, <1>6, PeerFacts DEF OneMessage
  <2>2. ASSUME NEW x \in Gs, NEW y \in Gs, accepting[x] # Idle,
               NEW m \in Els(wire'[y]), m.as = accepting[x].as
        PROVE  y = Peer(x) /\ m.type = "ack"
    BY <1>1, <1>3, <1>4, <1>6, <2>2 DEF OneMessage
  <2> QED BY <1>1, <1>2, <1>6, <2>1, <2>2 DEF OneMessage, In
<1>8. AckKept'
  <2>1. ASSUME NEW x \in Gs, NEW m \in Els(wire'[x]), m.type = "ack" PROVE m \in In(x)
    BY <1>4, <1>6, <2>1
  <2> QED BY <1>1, <1>2, <2>1 DEF AckKept, In
<1>9. Kept'
  BY <1>1, <1>2 DEF Kept
<1>10. OneNode'
  <2>1. \A b : Excused(b) => Excused(b)'
    BY <1>2, <1>6, StillExcused
  <2>2. a \notin nodes[h] \/ ~peer_up[h]
    BY <1>1, <1>2, <1>3 DEF OneNode, Excused
  <2>3. ASSUME NEW x \in Gs, peer_up[x], NEW m \in Els(wire'[x]), m.type = "ini"
        PROVE  m.as \notin nodes[x]
    BY <1>1, <1>4, <1>6, <2>2, <2>3 DEF OneNode
  <2> QED BY <1>1, <1>2, <2>1, <2>3 DEF OneNode, In
<1>11. Filed'
  BY <1>1, <1>2 DEF Filed, Books, Held, Offered
<1> QED BY <1>7, <1>8, <1>9, <1>10, <1>11 DEF Told

\* What the head of a wire leaves behind when it is taken off.
LEMMA TakenOff ==
  ASSUME HandoverTypeOK, OneMessage, NEW g \in Gs, NEW t, Receives(g, t)
  PROVE  /\ Apart(Tail(wire[g])) /\ Els(Tail(wire[g])) \subseteq In(g)
         /\ \A m \in In(g) : m = Head(wire[g]) \/ m \in Els(Tail(wire[g]))
         /\ \A m \in Els(Tail(wire[g])) : m.as # Head(wire[g]).as
         /\ \A m \in In(Peer(g)) : m.as # Head(wire[g]).as
<1>1. wire[g] \in Seq(Message) /\ wire[g] # <<>> /\ Apart(wire[g]) /\ Head(wire[g]) \in In(g)
  BY InFacts, ReceivesFacts DEF OneMessage
<1> QED BY <1>1, TailFacts DEF In, OneMessage

\* A request that is refused, or accepted without a peer, is gone.
LEMMA RefuseStep ==
  ASSUME IInv, Patient, NEW g \in Gs, NEW accepted \in BOOLEAN, RecvIni(g, accepted),
         ~(accepted /\ peer_up[g])
  PROVE  (Told /\ Filed)'
<1> USE DEF cellVars, peerVars, airVars, asVars
<1>1. /\ HandoverTypeOK /\ OneMessage /\ AckKept /\ Kept /\ OneNode /\ Filed
  BY DEF IInv, Told
<1>2. /\ Receives(g, "ini") /\ wire' = [wire EXCEPT ![g] = Tail(@)]
      /\ UNCHANGED <<nodes, mac_co_sac, peer_up, accepting, exits, left>>
      /\ CO_bitset'[Peer(g)] = CO_bitset[Peer(g)]
      /\ peer_up[g] => CO_bitset'[g] = CO_bitset[g]
  <2>1. CASE accepted
    <3>1. ~peer_up[g]
      BY <2>1
    <3> QED BY <3>1, <2>1, <1>1, PeerFacts DEF RecvIni, HandoverTypeOK
  <2>2. CASE ~accepted
    BY <2>2 DEF RecvIni
  <2> QED BY <2>1, <2>2
<1>3. Head(wire[g]).type = "ini"
  BY <1>2 DEF Receives
<1>4. /\ \A x \in Gs : Els(wire'[x]) \subseteq In(x) /\ Apart(wire'[x])
      /\ \A x \in Gs : \A m \in In(x) : m.type = "ack" => m \in Els(wire'[x])
  <2>1. wire'[g] = Tail(wire[g]) /\ wire'[Peer(g)] = wire[Peer(g)]
    BY <1>1, <1>2, PeerFacts DEF HandoverTypeOK
  <2>2. Apart(wire'[g]) /\ Els(wire'[g]) \subseteq In(g) /\ Apart(wire'[Peer(g)])
    BY <2>1, <1>1, <1>2, TakenOff, PeerFacts DEF OneMessage
  <2>3. \A m \in In(g) : m.type = "ack" => m \in Els(wire'[g])
    BY <2>1, <1>1, <1>2, <1>3, TakenOff
  <2> QED BY <2>1, <2>2, <2>3, PeerFacts DEF In
<1>5. OneMessage'
  <2>1. /\ \A x \in Gs : \A m \in Els(wire'[x]), n \in Els(wire'[Peer(x)]) : m.as # n.as
        /\ \A x, y \in Gs : accepting[x] # Idle => \A m \in Els(wire'[y]) :
              m.as = accepting[x].as => y = Peer(x) /\ m.type = "ack"
        /\ \A x \in Gs : accepting[x] # Idle => accepting[Peer(x)].as # accepting[x].as
    BY <1>1, <1>4, PeerFacts DEF OneMessage
  <2> QED BY <2>1, <1>2, <1>4 DEF OneMessage, In
<1>6. AckKept'
  BY <1>1, <1>2, <1>4 DEF AckKept, In
<1>7. Kept'
  BY <1>1, <1>2 DEF Kept
<1>8. OneNode'
  <2>1. \A b : Excused(b) => Excused(b)'
    BY <1>2, <1>4, StillExcused
  <2> QED BY <1>1, <1>2, <1>4, <2>1 DEF OneNode, In
<1>9. Filed'
  BY <1>1, <1>2, PeerFacts DEF Filed, Books, Held, Offered
<1> QED BY <1>5, <1>6, <1>7, <1>8, <1>9 DEF Told

\* A request that is accepted becomes an acknowledgement.
LEMMA AcceptStep ==
  ASSUME IInv, Patient, NEW g \in Gs, RecvIni(g, TRUE), peer_up[g]
  PROVE  (Told /\ Filed)'
<1> USE DEF cellVars, peerVars, airVars, asVars
<1> DEFINE h == Peer(g)
<1>0. PICK a, c : a = Head(wire[g]).as /\ c = LowestFree(g)
  OBVIOUS
<1>1. /\ HandoverTypeOK /\ OneMessage /\ AckKept /\ Kept /\ OneNode /\ Filed
      /\ h \in Gs /\ h # g /\ Peer(h) = g /\ (\A x \in Gs : x = g \/ x = h)
  BY PeerFacts DEF IInv, Told
<1>2. /\ Receives(g, "ini") /\ CO_bitset[g] # Co
      /\ wire' = [wire EXCEPT ![g] = Tail(@), ![h] = Append(@, Ack(a, c))]
      /\ accepting' = [accepting EXCEPT ![g] = [as |-> a, co |-> c]]
      /\ CO_bitset' = [CO_bitset EXCEPT ![g] = @ \cup {c}]
      /\ UNCHANGED <<nodes, mac_co_sac, peer_up, exits, left>>
  BY <1>0 DEF RecvIni
<1>3. /\ a \in As /\ Head(wire[g]).type = "ini" /\ Head(wire[g]) \in In(g)
      /\ accepting[g] = Idle /\ NoAs \notin As
  BY <1>0, <1>1, <1>2, ReceivesFacts, AcceptingFacts
<1>4. /\ c \in Co /\ c \notin CO_bitset[g] /\ \A d \in Co : d < c => d \in CO_bitset[g]
  BY <1>0, <1>1, <1>2, LowestFreeFacts DEF HandoverTypeOK
<1>5. Ack(a, c) \in Message /\ Ack(a, c).as = a /\ Ack(a, c).type = "ack"
  BY <1>3, <1>4, MessageFacts
<1>6. /\ \A m \in Els(wire'[g]) : m \in In(g) /\ m.as # a
      /\ \A m \in In(g) : m = Head(wire[g]) \/ m \in Els(wire'[g])
      /\ Els(wire'[h]) = In(h) \cup {Ack(a, c)}
      /\ \A m \in In(h) : m.as # a
      /\ Apart(wire'[g]) /\ Apart(wire'[h])
  <2>1. wire'[g] = Tail(wire[g]) /\ wire'[h] = Append(wire[h], Ack(a, c))
    BY <1>1, <1>2 DEF HandoverTypeOK
  <2>2. Apart(wire[h]) /\ wire[h] \in Seq(Message)
    BY <1>1, InFacts DEF OneMessage
  <2>3. \A m \in In(h) : m.as # a
    BY <1>0, <1>1, <1>2, TakenOff
  <2>4. Apart(wire'[h]) /\ Els(wire'[h]) = In(h) \cup {Ack(a, c)}
    <3>1. \A n \in Els(wire[h]) : n.as # Ack(a, c).as
      BY <2>3, <1>5 DEF In
    <3> QED BY <3>1, <2>1, <2>2, <1>5, AppendFacts DEF In
  <2>5. /\ Apart(wire'[g]) /\ \A m \in Els(wire'[g]) : m \in In(g) /\ m.as # a
        /\ \A m \in In(g) : m = Head(wire[g]) \/ m \in Els(wire'[g])
    BY <2>1, <1>0, <1>1, <1>2, TakenOff
  <2> QED BY <2>3, <2>4, <2>5
<1>7. /\ accepting'[g] = [as |-> a, co |-> c] /\ accepting'[g] # Idle
      /\ accepting'[g].as = a /\ accepting'[g].co = c /\ accepting'[h] = accepting[h]
  BY <1>1, <1>2, <1>3 DEF HandoverTypeOK, Idle
<1>8. accepting[h].as # a
  <2>1. accepting[h] # Idle => accepting[h].as # a
    BY <1>0, <1>1, <1>3 DEF OneMessage
  <2> QED BY <2>1, <1>1, <1>3, AcceptingFacts
<1>9. \A x \in Gs : \A m \in In(x) : m.type = "ack" => m \in Els(wire'[x])
  BY <1>1, <1>3, <1>6
<1> HIDE DEF h
<1>10. OneMessage'
  <2>1. \A x \in Gs : Apart(wire'[x])
    BY <1>1, <1>6
  <2>2. \A x \in Gs : \A m \in Els(wire'[x]), n \in Els(wire'[Peer(x)]) : m.as # n.as
    <3>1. \A m \in Els(wire'[g]), n \in Els(wire'[h]) : m.as # n.as
      <4>1. \A m \in In(g), n \in In(h) : m.as # n.as
        BY <1>1 DEF OneMessage, h
      <4> QED BY <4>1, <1>5, <1>6
    <3>2. Peer(g) = h
      BY DEF h
    <3> QED BY <3>1, <3>2, <1>1
  <2>3. ASSUME NEW x \in Gs, NEW y \in Gs, accepting'[x] # Idle,
               NEW m \in Els(wire'[y]), m.as = accepting'[x].as
        PROVE  y = Peer(x) /\ m.type = "ack"
    <3>1. CASE x = g
      <4>1. m.as = a
        BY <2>3, <3>1, <1>7
      <4>2. y = h /\ m = Ack(a, c)
        BY <4>1, <1>1, <1>6
      <4> QED BY <4>2, <3>1, <1>5 DEF h
    <3>2. CASE x = h
      <4>1. accepting[h] # Idle /\ m.as = accepting[h].as
        BY <2>3, <3>2, <1>7
      <4>2. m \in In(y)
        BY <4>1, <1>1, <1>5, <1>6, <1>8
      <4> QED BY <4>1, <4>2, <3>2, <1>1 DEF OneMessage
    <3> QED BY <3>1, <3>2, <1>1
  <2>4. \A x \in Gs : accepting'[x] # Idle => accepting'[Peer(x)].as # accepting'[x].as
    <3>1. Peer(g) = h
      BY DEF h
    <3> QED BY <3>1, <1>1, <1>7, <1>8
  <2> QED BY <2>1, <2>2, <2>3, <2>4 DEF OneMessage, In
<1>11. AckKept'
  <2>1. ASSUME NEW x \in Gs, NEW m \in Els(wire'[x]), m.type = "ack", m.as \notin left
        PROVE  m.as \in nodes[Peer(x)] \/ accepting'[Peer(x)].as = m.as
    <3>1. CASE m \in In(x)
      <4>1. m.as \in nodes[Peer(x)] \/ accepting[Peer(x)].as = m.as
        BY <3>1, <2>1, <1>1 DEF AckKept
      <4>2. m.as \in As
        BY <3>1, <1>1, InFacts, MessageFacts
      <4>3. accepting[Peer(x)].as = m.as => Peer(x) # g
        BY <4>2, <1>3 DEF Idle
      <4> QED BY <4>1, <4>3, <1>1, <1>7, PeerFacts
    <3>2. CASE x = h /\ m = Ack(a, c)
      BY <3>2, <1>1, <1>5, <1>7
    <3> QED BY <3>1, <3>2, <2>1, <1>1, <1>6
  <2> QED BY <2>1, <1>1, <1>2 DEF AckKept, In
<1>12. Kept'
  <2>1. ASSUME NEW b \in As, NEW x \in Gs, accepting[x].as = b PROVE accepting'[x].as = b
    <3>1. x # g
      BY <2>1, <1>3 DEF Idle
    <3> QED BY <3>1, <2>1, <1>1, <1>7
  <2> QED BY <2>1, <1>1, <1>2 DEF Kept
<1>13. OneNode'
  <2>1. \A b : Excused(b) => Excused(b)'
    BY <1>2, <1>9, StillExcused
  <2>2. Excused(a)'
    BY <1>1, <1>5, <1>6 DEF Excused, In
  <2>3. a \notin nodes[g]
    BY <1>0, <1>1, <1>3 DEF OneNode
  <2>4. ASSUME NEW x \in Gs
        PROVE  /\ \A b \in nodes[Peer(x)] : accepting'[x].as = b => Excused(b)'
               /\ peer_up[x] /\ accepting'[x] # Idle => accepting'[x].as \notin nodes[x]
    <3>1. CASE x = g
      BY <3>1, <2>2, <2>3, <1>7
    <3>2. CASE x = h
      <4>1. /\ \A b \in nodes[Peer(h)] : accepting[h].as = b => Excused(b)
            /\ peer_up[h] /\ accepting[h] # Idle => accepting[h].as \notin nodes[h]
        BY <1>1 DEF OneNode
      <4> QED BY <4>1, <3>2, <2>1, <1>7
    <3> QED BY <3>1, <3>2, <1>1
  <2>5. ASSUME NEW x \in Gs, peer_up[x], NEW m \in Els(wire'[x]), m.type = "ini"
        PROVE  m.as \notin nodes[x]
    <3>1. m \in In(x)
      BY <2>5, <1>1, <1>5, <1>6
    <3> QED BY <3>1, <2>5, <1>1 DEF OneNode
  <2>6. \A x \in Gs : \A b \in nodes[x] : b \in nodes[Peer(x)] => Excused(b)'
    BY <2>1, <1>1 DEF OneNode
  <2>7. \A x \in Gs : nodes'[x] = nodes[x] /\ peer_up'[x] = peer_up[x]
    BY <1>2
  <2> QED BY <2>4, <2>5, <2>6, <2>7, PeerFacts DEF OneNode, In
<1>14. Filed'
  <2>1. Books(g) /\ a \notin nodes[g]
    BY <1>0, <1>1, <1>3 DEF Filed, OneNode
  <2>2. Held(g) = CO_bitset[g] /\ CO_bitset'[g] = CO_bitset[g] \cup {c}
    BY <1>1, <1>2, <1>3 DEF Held, Offered, HandoverTypeOK
  <2>3. Offered(g)' = {c}
    BY <1>7 DEF Offered
  <2>4. Held(g)' = CO_bitset[g]
    BY <2>2, <2>3, <1>4 DEF Held
  <2>5. \A d \in Co : d < c => mac_co_sac[g][d] # a
    BY <2>1, <2>2, <1>4 DEF Books
  <2>6. Books(g)'
    BY <2>1, <2>2, <2>4, <2>5, <1>2, <1>7 DEF Books
  <2>7. peer_up[h] => Books(h)'
    BY <1>1, <1>2, <1>7 DEF Filed, Books, Held, Offered, HandoverTypeOK
  <2> QED BY <2>6, <2>7, <1>1, <1>2 DEF Filed
<1> QED BY <1>10, <1>11, <1>12, <1>13, <1>14 DEF Told

\* The node of a handover is stored.
LEMMA FinishStep ==
  ASSUME IInv, Patient, NEW g \in Gs, FinishIni(g)
  PROVE  (Told /\ Filed)'
<1> USE DEF cellVars, peerVars, airVars, asVars
<1> DEFINE h == Peer(g)
<1>0. PICK a, c : a = accepting[g].as /\ c = accepting[g].co
  OBVIOUS
<1>1. /\ HandoverTypeOK /\ OneMessage /\ AckKept /\ Kept /\ OneNode /\ Filed
      /\ h \in Gs /\ h # g /\ Peer(h) = g /\ (\A x \in Gs : x = g \/ x = h)
  BY PeerFacts DEF IInv, Told
<1>2. /\ accepting[g] # Idle
      /\ nodes' = [nodes EXCEPT ![g] = @ \cup {a}]
      /\ mac_co_sac' = [mac_co_sac EXCEPT ![g][c] = a]
      /\ accepting' = [accepting EXCEPT ![g] = Idle]
      /\ UNCHANGED <<CO_bitset, peer_up, wire, exits, left>>
  BY <1>0 DEF FinishIni
<1>3. a \in As /\ c \in Co /\ NoAs \notin As
  BY <1>0, <1>1, <1>2, AcceptingFacts
<1>4. /\ nodes'[g] = nodes[g] \cup {a} /\ nodes'[h] = nodes[h]
      /\ accepting'[g] = Idle /\ accepting'[g].as = NoAs /\ accepting'[h] = accepting[h]
  BY <1>1, <1>2 DEF HandoverTypeOK, Idle
<1>5. accepting[h].as # a /\ \A x \in Gs : \A m \in In(x) : m.as = a => x = h /\ m.type = "ack"
  BY <1>0, <1>1, <1>2 DEF OneMessage
<1> HIDE DEF h
<1>6. OneMessage'
  <2>1. \A x \in Gs : accepting'[x] # Idle => x = h /\ accepting[x] # Idle /\ accepting'[x] = accepting[x]
    BY <1>1, <1>4
  <2>2. accepting[h] # Idle => accepting'[g].as # accepting[h].as
    BY <1>1, <1>3, <1>4, AcceptingFacts
  <2>3. /\ \A x \in Gs : Apart(wire'[x])
        /\ \A x \in Gs : \A m \in Els(wire'[x]), n \in Els(wire'[Peer(x)]) : m.as # n.as
        /\ \A x, y \in Gs : accepting'[x] # Idle => \A m \in Els(wire'[y]) :
              m.as = accepting'[x].as => y = Peer(x) /\ m.type = "ack"
    BY <1>1, <1>2, <2>1 DEF OneMessage, In
  <2>4. \A x \in Gs : accepting'[x] # Idle => accepting'[Peer(x)].as # accepting'[x].as
    BY <1>1, <2>1, <2>2
  <2> QED BY <2>3, <2>4 DEF OneMessage, In
<1>7. \A x \in Gs, b \in As : b \in nodes[x] \/ accepting[x].as = b =>
         b \in nodes'[x] \/ accepting'[x].as = b
  BY <1>0, <1>1, <1>4
<1>8. AckKept'
  <2>1. \A x \in Gs : \A m \in In(x) : m.as \in As
    BY <1>1, InFacts, MessageFacts
  <2>2. ASSUME NEW x \in Gs, NEW m \in In(x), m.type = "ack", m.as \notin left
        PROVE  m.as \in nodes'[Peer(x)] \/ accepting'[Peer(x)].as = m.as
    BY <2>1, <2>2, <1>1, <1>7, PeerFacts DEF AckKept
  <2> QED BY <2>2, <1>1, <1>2 DEF AckKept, In
<1>9. Kept'
  BY <1>1, <1>2, <1>7 DEF Kept
<1>10. OneNode'
  <2>1. \A b : Excused(b) => Excused(b)'
    BY <1>2 DEF Excused, In
  <2>2. a \in nodes[h] => Excused(a)
    BY <1>0, <1>1 DEF OneNode, h
  <2>3. \A x \in Gs : \A b \in nodes'[x] : b \in nodes'[Peer(x)] => Excused(b)'
    <3>1. \A b \in nodes'[g] : b \in nodes'[h] => Excused(b)'
      <4>1. \A b \in nodes[g] : b \in nodes[h] => Excused(b)
        BY <1>1 DEF OneNode, h
      <4> QED BY <4>1, <2>1, <2>2, <1>4
    <3>2. Peer(g) = h
      BY DEF h
    <3> QED BY <3>1, <3>2, <1>1
  <2>4. \A x \in Gs : \A b \in nodes'[Peer(x)] : accepting'[x].as = b => Excused(b)'
    <3>1. ASSUME NEW b \in nodes'[h], accepting'[g].as = b PROVE Excused(b)'
      BY <3>1, <1>1, <1>3, <1>4 DEF HandoverTypeOK
    <3>2. ASSUME NEW b \in nodes'[g], accepting'[h].as = b PROVE Excused(b)'
      BY <3>2, <2>1, <1>1, <1>4, <1>5 DEF OneNode
    <3>3. Peer(g) = h
      BY DEF h
    <3> QED BY <3>1, <3>2, <3>3, <1>1
  <2>5. ASSUME NEW x \in Gs, peer_up[x]
        PROVE  /\ accepting'[x] # Idle => accepting'[x].as \notin nodes'[x]
               /\ \A m \in In(x) : m.type = "ini" => m.as \notin nodes'[x]
    <3>1. CASE x = g
      BY <3>1, <2>5, <1>1, <1>4, <1>5 DEF OneNode
    <3>2. CASE x = h
      BY <3>2, <2>5, <1>1, <1>4 DEF OneNode
    <3> QED BY <3>1, <3>2, <1>1
  <2> QED BY <2>3, <2>4, <2>5, <1>2 DEF OneNode, In
<1>11. Filed'
  <2>1. peer_up[h] => Books(h)'
    <3>1. mac_co_sac'[h] = mac_co_sac[h] /\ CO_bitset'[h] = CO_bitset[h]
      BY <1>1, <1>2 DEF HandoverTypeOK
    <3> QED BY <3>1, <1>1, <1>4 DEF Filed, Books, Held, Offered
  <2>2. ASSUME peer_up[g] PROVE Books(g)'
    <3>1. Books(g) /\ a \notin nodes[g]
      BY <2>2, <1>0, <1>1, <1>2 DEF Filed, OneNode
    <3>2. Held(g) = CO_bitset[g] \ {c} /\ Held(g)' = CO_bitset[g] /\ c \in CO_bitset[g]
      BY <3>1, <1>0, <1>2, <1>4 DEF Held, Offered, Books
    <3>3. CO_bitset[g] \subseteq Co
      BY <1>1 DEF HandoverTypeOK
    <3>4. mac_co_sac'[g][c] = a /\ \A d \in Co : d # c => mac_co_sac'[g][d] = mac_co_sac[g][d]
      BY <1>1, <1>2, <1>3 DEF HandoverTypeOK
    <3>5. \A d \in Held(g) : mac_co_sac[g][d] # a
      BY <3>1 DEF Books
    <3>6. \A d \in Co : d < c => mac_co_sac[g][d] # a
      BY <3>1, <1>0, <1>2 DEF Books
    <3>7. \A b \in nodes'[g] : \E d \in CO_bitset[g] : mac_co_sac'[g][d] = b
      BY <3>1, <3>2, <3>3, <3>4, <1>4 DEF Books
    <3>8. /\ \A d \in CO_bitset[g] : mac_co_sac'[g][d] \in nodes'[g]
          /\ \A d, e \in CO_bitset[g] : mac_co_sac'[g][e] = mac_co_sac'[g][d] => e = d
      BY <3>1, <3>2, <3>3, <3>4, <3>5, <1>4 DEF Books
    <3>9. ASSUME NEW e \in CO_bitset[g], NEW d \in Co, d < e
          PROVE  mac_co_sac'[g][d] # mac_co_sac'[g][e]
      <4>1. CASE e = c
        <5>1. d # c
          BY <4>1, <3>9, <1>3, HandoverAssumption DEF Co
        <5> QED BY <5>1, <4>1, <3>6, <3>4, <3>9
      <4>2. CASE e # c
        <5>1. e \in Held(g) /\ e \in Co
          BY <4>2, <3>2, <3>3
        <5> QED BY <5>1, <4>2, <3>1, <3>4, <3>5, <3>9 DEF Books
      <4> QED BY <4>1, <4>2
    <3> QED BY <3>2, <3>7, <3>8, <3>9, <1>4 DEF Books
  <2> QED BY <2>1, <2>2, <1>1, <1>2 DEF Filed
<1> QED BY <1>6, <1>8, <1>9, <1>10, <1>11 DEF Told

\* delete_lme_as_node_by_sac frees the control offset of the node and no other.
LEMMA DeleteBooks ==
  ASSUME HandoverTypeOK, Filed, NEW g \in Gs, NEW a, DeleteNode(g, a),
         UNCHANGED <<accepting, peer_up>>
  PROVE  Filed'
<1> DEFINE h == Peer(g)
<1>1. h \in Gs /\ h # g /\ (\A x \in Gs : x = g \/ x = h)
  BY PeerFacts
<1>2. /\ nodes'[g] = nodes[g] \ {a} /\ nodes'[h] = nodes[h] /\ mac_co_sac' = mac_co_sac
      /\ CO_bitset'[g] = IF a \in nodes[g] /\ HasCo(g, a)
                         THEN CO_bitset[g] \ {FirstCo(g, a)} ELSE CO_bitset[g]
      /\ CO_bitset'[h] = CO_bitset[h]
  BY <1>1 DEF DeleteNode, HandoverTypeOK
<1>3. peer_up[h] => Books(h)'
  BY <1>1, <1>2 DEF Filed, Books, Held, Offered
<1>4. ASSUME peer_up[g] PROVE Books(g)'
  <2>1. Books(g) /\ CO_bitset[g] \subseteq Co
    BY <1>4 DEF Filed, HandoverTypeOK
  <2>2. CASE a \notin nodes[g]
    <3>1. nodes'[g] = nodes[g] /\ CO_bitset'[g] = CO_bitset[g]
      BY <2>2, <1>2
    <3> QED BY <3>1, <2>1, <1>2 DEF Books, Held, Offered
  <2>3. CASE a \in nodes[g]
    <3>1. PICK c \in Held(g) : mac_co_sac[g][c] = a
      BY <2>1, <2>3 DEF Books
    <3>2. c \in Co /\ c \in CO_bitset[g] /\ HasCo(g, a)
      BY <3>1, <2>1 DEF Held, HasCo
    <3>3. /\ FirstCo(g, a) \in Co /\ mac_co_sac[g][FirstCo(g, a)] = a
          /\ \A d \in Co : d < FirstCo(g, a) => mac_co_sac[g][d] # a
      BY <3>2, FirstCoFacts
    <3>4. ~(FirstCo(g, a) < c)
      BY <3>1, <3>3, <2>1 DEF Books
    <3>5. FirstCo(g, a) = c
      BY <3>1, <3>2, <3>3, <3>4, HandoverAssumption DEF Co
    <3>6. CO_bitset'[g] = CO_bitset[g] \ {c}
      BY <3>2, <3>5, <2>3, <1>2
    <3>7. Held(g)' = Held(g) \ {c}
      BY <3>6 DEF Held, Offered
    <3>8. accepting[g] # Idle => accepting[g].co # c
      BY <3>1 DEF Held, Offered
    <3>9. \A b \in nodes'[g] : \E d \in Held(g) \ {c} : mac_co_sac[g][d] = b
      BY <2>1, <3>1, <1>2 DEF Books
    <3>10. \A d \in Held(g) \ {c} : mac_co_sac[g][d] \in nodes'[g]
      BY <2>1, <3>1, <1>2 DEF Books
    <3> QED BY <3>6, <3>7, <3>8, <3>9, <3>10, <2>1, <1>2 DEF Books
  <2> QED BY <2>2, <2>3
<1> QED BY <1>1, <1>3, <1>4 DEF Filed

LEMMA DeleteFacts ==
  ASSUME HandoverTypeOK, NEW g \in Gs, NEW a, DeleteNode(g, a)
  PROVE  nodes'[g] = nodes[g] \ {a} /\ nodes'[Peer(g)] = nodes[Peer(g)]
BY PeerFacts DEF DeleteNode, HandoverTypeOK

\* The station is sent off, and is known to the other ground station.
LEMMA AckStep ==
  ASSUME IInv, Patient, NEW g \in Gs, RecvAck(g)
  PROVE  (Told /\ Filed)'
<1> USE DEF cellVars, peerVars, airVars, asVars
<1> DEFINE h == Peer(g)
<1>0. PICK a : a = Head(wire[g]).as
  OBVIOUS
<1>1. /\ HandoverTypeOK /\ OneMessage /\ AckKept /\ Kept /\ OneNode /\ Filed
      /\ h \in Gs /\ h # g /\ Peer(h) = g /\ (\A x \in Gs : x = g \/ x = h)
  BY PeerFacts DEF IInv, Told
<1>2. /\ Receives(g, "ack") /\ DeleteNode(g, a)
      /\ wire' = [wire EXCEPT ![g] = Tail(@)]
      /\ UNCHANGED <<peer_up, accepting, exits, left>>
  BY <1>0 DEF RecvAck
<1>3. /\ a \in As /\ Head(wire[g]).type = "ack" /\ Head(wire[g]) \in In(g)
      /\ accepting[g] = Idle /\ accepting[g].as = NoAs /\ NoAs \notin As
  BY <1>0, <1>1, <1>2, ReceivesFacts, AcceptingFacts
<1>4. nodes'[g] = nodes[g] \ {a} /\ nodes'[h] = nodes[h]
  BY <1>1, <1>2, DeleteFacts
<1>5. /\ \A x \in Gs : Apart(wire'[x])
      /\ \A x \in Gs : \A m \in Els(wire'[x]) : m \in In(x) /\ m.as # a
      /\ \A x \in Gs : \A m \in In(x) : m.as # a => m \in Els(wire'[x])
  <2>1. wire'[g] = Tail(wire[g]) /\ wire'[h] = wire[h]
    BY <1>1, <1>2 DEF HandoverTypeOK
  <2>2. /\ Apart(wire'[g]) /\ Els(wire'[g]) \subseteq In(g)
        /\ \A m \in Els(wire'[g]) : m.as # a
        /\ \A m \in In(g) : m.as # a => m \in Els(wire'[g])
        /\ \A m \in In(h) : m.as # a
    BY <2>1, <1>0, <1>1, <1>2, TakenOff
  <2>3. Apart(wire'[h]) /\ Els(wire'[h]) = In(h)
    BY <2>1, <1>1 DEF OneMessage, In
  <2> QED BY <2>2, <2>3, <1>1
<1> HIDE DEF h
<1>6. OneMessage'
  <2>1. /\ \A x \in Gs : \A m \in Els(wire'[x]), n \in Els(wire'[Peer(x)]) : m.as # n.as
        /\ \A x, y \in Gs : accepting[x] # Idle => \A m \in Els(wire'[y]) :
              m.as = accepting[x].as => y = Peer(x) /\ m.type = "ack"
        /\ \A x \in Gs : accepting[x] # Idle => accepting[Peer(x)].as # accepting[x].as
    BY <1>1, <1>5, PeerFacts DEF OneMessage
  <2> QED BY <2>1, <1>2, <1>5 DEF OneMessage, In
<1>7. AckKept'
  <2>1. ASSUME NEW x \in Gs, NEW m \in Els(wire'[x]), m.type = "ack", m.as \notin left
        PROVE  m.as \in nodes'[Peer(x)] \/ accepting[Peer(x)].as = m.as
    <3>1. m.as # a /\ (m.as \in nodes[Peer(x)] \/ accepting[Peer(x)].as = m.as)
      BY <2>1, <1>1, <1>5 DEF AckKept
    <3> QED BY <3>1, <1>1, <1>4, PeerFacts
  <2> QED BY <2>1, <1>1, <1>2 DEF AckKept, In
<1>8. Kept'
  <2>1. a \notin left => a \in nodes[h] \/ accepting[h].as = a
    BY <1>0, <1>1, <1>3 DEF AckKept, h
  <2>2. ASSUME NEW b \in As \ left
        PROVE  (\E x \in Gs : b \in nodes'[x]) \/ (\E x \in Gs : accepting[x].as = b)
    <3>1. CASE b = a
      BY <3>1, <2>1, <2>2, <1>1, <1>4
    <3>2. CASE b # a
      BY <3>2, <1>1, <1>4 DEF Kept
    <3> QED BY <3>1, <3>2
  <2> QED BY <2>2, <1>2 DEF Kept
<1>9. OneNode'
  <2>1. ASSUME NEW b, b # a, Excused(b) PROVE Excused(b)'
    BY <2>1, <1>2, <1>5 DEF Excused, In
  <2>2. ASSUME NEW b \in nodes'[g], b \in nodes'[h] PROVE Excused(b)'
    <3>1. b # a /\ b \in nodes[g] /\ b \in nodes[h]
      BY <2>2, <1>4
    <3>2. Excused(b)
      BY <3>1, <1>1 DEF OneNode, h
    <3> QED BY <3>1, <3>2, <2>1
  <2>3. ASSUME NEW b \in nodes'[g], accepting[h].as = b PROVE Excused(b)'
    <3>1. b # a /\ b \in nodes[Peer(h)]
      BY <2>3, <1>1, <1>4
    <3>2. Excused(b)
      BY <3>1, <2>3, <1>1 DEF OneNode
    <3> QED BY <3>1, <3>2, <2>1
  <2>4. ASSUME NEW b \in nodes'[h], accepting[g].as = b PROVE Excused(b)'
    BY <2>4, <1>1, <1>3, <1>4 DEF HandoverTypeOK
  <2>5. Peer(g) = h
    BY DEF h
  <2>6. \A x \in Gs : /\ \A b \in nodes'[x] : b \in nodes'[Peer(x)] => Excused(b)'
                      /\ \A b \in nodes'[Peer(x)] : accepting[x].as = b => Excused(b)'
    BY <2>2, <2>3, <2>4, <2>5, <1>1
  <2>7. \A x \in Gs : nodes'[x] \subseteq nodes[x]
    BY <1>1, <1>4
  <2>8. \A x \in Gs : peer_up[x] =>
           /\ accepting[x] # Idle => accepting[x].as \notin nodes'[x]
           /\ \A m \in Els(wire'[x]) : m.type = "ini" => m.as \notin nodes'[x]
    BY <2>7, <1>1, <1>5 DEF OneNode
  <2> QED BY <2>6, <2>8, <1>2 DEF OneNode, In
<1>10. Filed'
  BY <1>1, <1>2, DeleteBooks
<1> QED BY <1>6, <1>7, <1>8, <1>9, <1>10 DEF Told

\* An exit concerns a station that has left.
LEMMA ExitStep ==
  ASSUME IInv, Patient, NEW g \in Gs, NEW a \in As, CellExit(g, a)
  PROVE  (Told /\ Filed)'
<1> USE DEF cellVars, peerVars, airVars, asVars
<1>1. /\ HandoverTypeOK /\ OneMessage /\ AckKept /\ Kept /\ OneNode /\ Filed
  BY DEF IInv, Told
<1>2. /\ a \in exits[g] /\ DeleteNode(g, a) /\ exits' = [exits EXCEPT ![g] = @ \ {a}]
      /\ UNCHANGED <<peer_up, accepting, wire, left>>
  BY DEF CellExit
<1>3. a \in left /\ \A x \in Gs : exits'[x] \subseteq left
  BY <1>1, <1>2 DEF AckKept, HandoverTypeOK
<1>4. \A x \in Gs : nodes'[x] \subseteq nodes[x] /\ \A b \in nodes[x] : b # a => b \in nodes'[x]
  BY <1>1, <1>2, DeleteFacts, PeerFacts
<1>5. OneMessage'
  BY <1>1, <1>2 DEF OneMessage, In
<1>6. AckKept'
  <2>1. ASSUME NEW x \in Gs, NEW m \in In(x), m.type = "ack", m.as \notin left
        PROVE  m.as \in nodes'[Peer(x)] \/ accepting[Peer(x)].as = m.as
    BY <2>1, <1>1, <1>3, <1>4, PeerFacts DEF AckKept
  <2> QED BY <2>1, <1>2, <1>3 DEF AckKept, In
<1>7. Kept'
  BY <1>1, <1>2, <1>3, <1>4 DEF Kept
<1>8. OneNode'
  <2>1. \A b : Excused(b) => Excused(b)'
    BY <1>2 DEF Excused, In
  <2>2. /\ \A x \in Gs : \A b \in nodes'[x] : b \in nodes'[Peer(x)] => Excused(b)'
        /\ \A x \in Gs : \A b \in nodes'[Peer(x)] : accepting[x].as = b => Excused(b)'
    BY <2>1, <1>1, <1>4, PeerFacts DEF OneNode
  <2>3. \A x \in Gs : peer_up[x] =>
           /\ accepting[x] # Idle => accepting[x].as \notin nodes'[x]
           /\ \A m \in In(x) : m.type = "ini" => m.as \notin nodes'[x]
    BY <1>1, <1>4 DEF OneNode
  <2> QED BY <2>2, <2>3, <1>2 DEF OneNode, In
<1>9. Filed'
  BY <1>1, <1>2, DeleteBooks
<1> QED BY <1>5, <1>6, <1>7, <1>8, <1>9 DEF Told

\* A station that leaves sends an exit.
LEMMA LeaveStep ==
  ASSUME IInv, Patient, NEW a \in As, Leave(a)
  PROVE  (Told /\ Filed)'
<1> USE DEF cellVars, peerVars, airVars, asVars
<1>1. /\ HandoverTypeOK /\ OneMessage /\ AckKept /\ Kept /\ OneNode /\ Filed
  BY DEF IInv, Told
<1>2. /\ left' = left \cup {a} /\ exits' = [exits EXCEPT ![Tuned(a)] = @ \cup {a}]
      /\ UNCHANGED <<nodes, CO_bitset, mac_co_sac, peer_up, wire, accepting>>
  BY DEF Leave
<1>3. \A x \in Gs : exits'[x] \subseteq left'
  BY <1>1, <1>2 DEF AckKept, HandoverTypeOK
<1>4. OneMessage'
  BY <1>1, <1>2 DEF OneMessage, In
<1>5. AckKept'
  BY <1>1, <1>2, <1>3 DEF AckKept, In
<1>6. Kept'
  BY <1>1, <1>2 DEF Kept
<1>7. OneNode'
  <2>1. \A b : Excused(b) => Excused(b)'
    BY <1>2 DEF Excused, In
  <2> QED BY <2>1, <1>1, <1>2 DEF OneNode, In
<1>8. Filed'
  BY <1>1, <1>2 DEF Filed, Books, Held, Offered
<1> QED BY <1>4, <1>5, <1>6, <1>7, <1>8 DEF Told

\* From a connection that breaks on, both ground stations may keep a station.
LEMMA DownStep ==
  ASSUME IInv, Patient, NEW g \in Gs, PeerDown(g)
  PROVE  (Told /\ Filed)'
<1> USE DEF cellVars, peerVars, airVars, asVars
<1>1. /\ HandoverTypeOK /\ OneMessage /\ AckKept /\ Kept /\ OneNode /\ Filed
  BY DEF IInv, Told
<1>2. /\ peer_up' = [peer_up EXCEPT ![g] = FALSE] /\ wire' = [wire EXCEPT ![Peer(g)] = <<>>]
      /\ UNCHANGED <<nodes, CO_bitset, mac_co_sac, accepting, exits, left>>
  BY DEF PeerDown
<1>3. \A x \in Gs : Els(wire'[x]) \subseteq In(x) /\ Apart(wire'[x])
  <2>1. wire'[Peer(g)] = <<>> /\ wire'[g] = wire[g]
    BY <1>1, <1>2, PeerFacts DEF HandoverTypeOK
  <2> QED BY <2>1, <1>1, EmptyFacts, PeerFacts DEF OneMessage, In
<1>4. ~peer_up'[g] /\ \A x \in Gs : peer_up'[x] => peer_up[x]
  BY <1>1, <1>2 DEF HandoverTypeOK
<1>5. OneMessage'
  <2>1. /\ \A x \in Gs : \A m \in Els(wire'[x]), n \in Els(wire'[Peer(x)]) : m.as # n.as
        /\ \A x, y \in Gs : accepting[x] # Idle => \A m \in Els(wire'[y]) :
              m.as = accepting[x].as => y = Peer(x) /\ m.type = "ack"
        /\ \A x \in Gs : accepting[x] # Idle => accepting[Peer(x)].as # accepting[x].as
    BY <1>1, <1>3, PeerFacts DEF OneMessage
  <2> QED BY <2>1, <1>2, <1>3 DEF OneMessage, In
<1>6. AckKept'
  BY <1>1, <1>2, <1>3 DEF AckKept, In
<1>7. Kept'
  BY <1>1, <1>2 DEF Kept
<1>8. OneNode'
  <2>1. \A b : Excused(b)'
    BY <1>4 DEF Excused
  <2> QED BY <2>1, <1>1, <1>2, <1>3, <1>4 DEF OneNode, In
<1>9. Filed'
  BY <1>1, <1>2, <1>4 DEF Filed, Books, Held, Offered
<1> QED BY <1>5, <1>6, <1>7, <1>8, <1>9 DEF Told

\* Steps that concern what is broadcast and heard only.
LEMMA OtherStep ==
  ASSUME IInv, Patient,
         UNCHANGED <<nodes, CO_bitset, mac_co_sac, peer_up, wire, accepting, exits, left>>
  PROVE  (Told /\ Filed)'
<1>1. OneMessage' /\ AckKept'
  BY DEF IInv, Told, OneMessage, AckKept, In
<1>2. Kept'
  BY DEF IInv, Told, Kept
<1>3. OneNode'
  <2>1. \A b : Excused(b) => Excused(b)'
    BY DEF Excused, In
  <2> QED BY <2>1 DEF IInv, Told, OneNode, In
<1>4. Filed'
  BY DEF IInv, Filed, Books, Held, Offered
<1> QED BY <1>1, <1>2, <1>3, <1>4 DEF Told

LEMMA InvNext == IInv /\ [Next]_vars => IInv'
<1> SUFFICES ASSUME IInv, [Next]_vars PROVE IInv'
  OBVIOUS
<1> USE DEF cellVars, peerVars, airVars, asVars
<1>1. HandoverTypeOK'
  BY TypeNext DEF IInv
<1>2. ASSUME Patient PROVE (Told /\ Filed)'
  <2>1. ASSUME NEW g \in Gs, NEW a \in As, Command(g, a) PROVE (Told /\ Filed)'
    BY <2>1, <1>2, CommandStep
  <2>2. ASSUME NEW g \in Gs, NEW a \in As, CellExit(g, a) PROVE (Told /\ Filed)'
    BY <2>2, <1>2, ExitStep
  <2>3. ASSUME NEW g \in Gs, NEW accepted \in BOOLEAN, RecvIni(g, accepted)
        PROVE  (Told /\ Filed)'
    <3>1. CASE accepted /\ peer_up[g]
      <4>1. accepted = TRUE
        BY <3>1
      <4>2. RecvIni(g, TRUE)
        BY <4>1, <2>3
      <4> QED BY <4>2, <3>1, <1>2, AcceptStep
    <3>2. CASE ~(accepted /\ peer_up[g])
      BY <3>2, <2>3, <1>2, RefuseStep
    <3> QED BY <3>1, <3>2
  <2>4. ASSUME NEW g \in Gs, FinishIni(g) PROVE (Told /\ Filed)'
    BY <2>4, <1>2, FinishStep
  <2>5. ASSUME NEW g \in Gs, RecvAck(g) PROVE (Told /\ Filed)'
    BY <2>5, <1>2, AckStep
  <2>6. ASSUME NEW g \in Gs, PeerDown(g) PROVE (Told /\ Filed)'
    BY <2>6, <1>2, DownStep
  <2>7. ASSUME NEW a \in As, Leave(a) PROVE (Told /\ Filed)'
    BY <2>7, <1>2, LeaveStep
  <2>8. ASSUME NEW g \in Gs, NEW a \in As, SyncInd(g, a) PROVE (Told /\ Filed)'
    BY <2>8, <1>2, OtherStep DEF SyncInd
  <2>9. ASSUME NEW g \in Gs, NEW com \in ho_coms[g], NEW heard, HoCom(g, com, heard)
        PROVE  (Told /\ Filed)'
    BY <2>9, <1>2, OtherStep DEF HoCom
  <2>10. ASSUME NEW a \in As, SyncPoll(a) PROVE (Told /\ Filed)'
    BY <2>10, <1>2, OtherStep DEF SyncPoll
  <2>11. CASE UNCHANGED vars
    BY <2>11, <1>2, OtherStep DEF vars
  <2> QED BY <2>1, <2>2, <2>3, <2>4, <2>5, <2>6, <2>7, <2>8, <2>9, <2>10, <2>11 DEF Next
<1> QED BY <1>1, <1>2 DEF IInv

-----------------------------------------------------------------------------
(***************************************************************************)
(* The theorems.                                                           *)
(***************************************************************************)

\* No handover, refused, lost or overtaken by an exit, leaves a station in the air
\* unknown to both ground stations (send_ho_com, gst_handover_complete_key).
THEOREM NoneForgotten == Spec => []Kept
<1>1. IInv => Kept
  BY DEF IInv, Told, Kept
<1> QED BY <1>1, InvInit, InvNext, PTL DEF Spec

\* While a ground station has its peer, each node has its own control offset and
\* no other is in use but the one on offer (get_CO, clear_mac_CO).
THEOREM OffsetsOfNodes == Spec => []OffsetsFollow
<1>1. IInv => OffsetsFollow
  <2> SUFFICES ASSUME IInv, Patient, NEW g \in Gs, peer_up[g]
               PROVE  /\ \A a \in nodes[g] : \E c \in CO_bitset[g] : mac_co_sac[g][c] = a
                      /\ \A c \in CO_bitset[g] :
                            \/ accepting[g] # Idle /\ accepting[g].co = c
                            \/ /\ mac_co_sac[g][c] \in nodes[g]
                               /\ \A d \in CO_bitset[g] :
                                     mac_co_sac[g][d] = mac_co_sac[g][c] =>
                                       d = c \/ (accepting[g] # Idle /\ accepting[g].co = d)
    BY DEF OffsetsFollow
  <2>1. Books(g)
    BY DEF IInv, Filed
  <2>2. \A c \in CO_bitset[g] : c \in Held(g) \/ (accepting[g] # Idle /\ accepting[g].co = c)
    BY DEF Held, Offered
  <2>3. Held(g) \subseteq CO_bitset[g]
    BY DEF Held
  <2> QED BY <2>1, <2>2, <2>3 DEF Books
<1> QED BY <1>1, InvInit, InvNext, PTL DEF Spec
===============================================================================
