--------------------------- MODULE FlFrames_proofs ---------------------------
(* Proofs about FlFrames, for every number of stations, messages and           *)
(* multiframes, every demand and every length of the blocks, and whether or    *)
(* not the closing timer may be late.                                          *)
EXTENDS FlFrames, SequenceTheorems, TLAPS

\* The types the argument needs.
Typed ==
    /\ mf \in Nat /\ tick \in Nat /\ BO \in Nat
    /\ todo \in Seq([as : As, bl : Nat])
    /\ asseming \in NodeType \cup {NoNode}
    /\ assemed \in Seq(NodeType)
    /\ accepted \in [Msg -> Nat]
    /\ aired \subseteq [m : Msg, tick : Nat]

\* The PHY is at most one tick behind, at most two closing timers are under way,
\* and no more than two ticks have found nothing to send.
InStep ==
    /\ tick = mf \/ tick = mf - 1
    /\ armed \in 0 .. 2
    /\ closing => armed > 0
    /\ FramesSent >= tick - 2

\* The messages of the node that is being assembled, if there is one.
MsgsOf(n) == IF n = NoNode THEN {} ELSE n.msgs

\* Where a message is that M_SAPC has taken over.
IsAired(m)  == \E x \in aired : x.m = m
IsClosed(m) == \E i \in 1 .. Len(assemed) : m \in assemed[i].msgs

\* A message is in one place, from the moment it is taken over.
Somewhere ==
    \A m \in Msg : accepted[m] # 0 <=> m \in MsgsOf(asseming) \/ IsClosed(m) \/ IsAired(m)
OnePlace ==
    \A m \in Msg :
        /\ m \in MsgsOf(asseming) => ~IsClosed(m) /\ ~IsAired(m)
        /\ IsClosed(m) => ~IsAired(m)
        /\ \A i, j \in 1 .. Len(assemed) : m \in assemed[i].msgs /\ m \in assemed[j].msgs => i = j
        /\ \A x, y \in aired : x.m = m /\ y.m = m => x = y

\* A packet closed n-th is sent n-th.  A message is in the packet that is open when it
\* comes, of its own multiframe or, if its timer is late, of the one before.
Numbered ==
    \A m \in Msg :
        /\ m \in MsgsOf(asseming) => mf - armed <= accepted[m]
        /\ \A i \in 1 .. Len(assemed) :
              m \in assemed[i].msgs => FramesSent + i <= accepted[m] + 1
        /\ \A x \in aired : x.m = m => x.tick <= accepted[m] + 3

\* The inductive invariant.
IInv == Typed /\ InStep /\ Somewhere /\ OnePlace /\ Numbered

\* A step that leaves the messages of every node where they are keeps the
\* statements about messages.
MsgVars == <<MsgsOf(asseming), assemed, aired, accepted>>

LEMMA NewNodeTyped == NewNode \in NodeType /\ NewNode.msgs = {}
  BY DEF NewNode, NodeType

LEMMA NodeTyped ==
  ASSUME Typed
  PROVE  Node \in NodeType /\ Node.msgs = MsgsOf(asseming) /\ MsgsOf(Node) = MsgsOf(asseming)
  BY NewNodeTyped, FlAssumption DEF Typed, Node, MsgsOf, FlAssumption

LEMMA InitIInv == Init => IInv
<1> SUFFICES ASSUME Init PROVE IInv
  OBVIOUS
<1> USE DEF Init
<1>1. Typed
  BY DEF Typed
<1>2. InStep
  BY DEF InStep, FramesSent
<1>3. MsgsOf(asseming) = {} /\ Len(assemed) = 0 /\ aired = {}
  BY DEF MsgsOf
<1>4. Somewhere /\ OnePlace /\ Numbered
  BY <1>3 DEF Somewhere, OnePlace, Numbered, IsClosed, IsAired
<1> QED BY <1>1, <1>2, <1>4 DEF IInv

\* Steps that touch neither the messages nor the numbers of the frames.
LEMMA Unmoved ==
  ASSUME IInv, Typed', InStep', UNCHANGED MsgVars, UNCHANGED FramesSent,
         UNCHANGED (mf - armed)
  PROVE  IInv'
<1> USE DEF IInv, MsgVars
<1>1. Somewhere'
  BY DEF Somewhere, IsClosed, IsAired
<1>2. OnePlace'
  BY DEF OnePlace, IsClosed, IsAired
<1>3. Numbered'
  BY DEF Numbered
<1> QED BY <1>1, <1>2, <1>3

LEMMA LmeTickStep == IInv /\ LmeTick => IInv'
<1> SUFFICES ASSUME IInv, LmeTick PROVE IInv'
  OBVIOUS
<1> USE DEF IInv, LmeTick, phyVars, asVars
<1>1. asseming' \in NodeType \cup {NoNode} /\ MsgsOf(asseming') = MsgsOf(asseming)
  BY NodeTyped DEF Typed
<1>2. todo' \in Seq([as : As, bl : Nat])
  <2>1. CASE UNCHANGED <<todo, asseming>>
    BY <2>1 DEF Typed
  <2>2. CASE todo' \in (IF mf' \in DataMf THEN Demands ELSE {<<>>})
    <3>1. CASE todo' \in Demands
      BY <3>1, FlAssumption DEF FlAssumption
    <3>2. CASE todo' = <<>>
      BY <3>2, EmptySeq
    <3> QED BY <2>2, <3>1, <3>2, Zenon
  <2> QED BY <2>1, <2>2
<1>3. Typed'
  BY <1>1, <1>2 DEF Typed
<1>4. /\ armed \in 0 .. 1 /\ mf' = mf + 1 /\ armed' = armed + 1
      /\ tick' = tick /\ tick = mf /\ closing' = closing
  BY DEF InStep
<1>5. FramesSent' = FramesSent /\ mf' - armed' = mf - armed
  BY <1>4 DEF FramesSent, Typed
<1>6. InStep'
  BY <1>4, <1>5 DEF InStep, Typed
<1>7. MsgsOf(asseming)' = MsgsOf(asseming)
  BY <1>1 DEF MsgsOf
<1> QED BY <1>3, <1>5, <1>6, <1>7, Unmoved DEF MsgVars

LEMMA GrantStep == IInv /\ Grant => IInv'
<1> SUFFICES ASSUME IInv, Grant PROVE IInv'
  OBVIOUS
<1> USE DEF IInv, phyVars, asVars
<1> DEFINE g == Head(todo)
<1>1. g \in [as : As, bl : Nat] /\ Tail(todo) \in Seq([as : As, bl : Nat])
  BY HeadTailProperties DEF Grant, Typed
<1>2. PICK l \in 0 .. g.bl :
        asseming' = Announce(Put(asseming, Blocks(g.as, l)), FlAlloc(g, l))
  BY DEF Grant
<1>3. Blocks(g.as, l) \in Seq([mf : Nat, as : As \cup {0}, i : Nat])
  BY <1>1, <1>2 DEF Blocks, Typed
<1>4. FlAlloc(g, l) \in [mf : Nat, as : As, BO : Nat, BL : Nat, kept : BOOLEAN]
  BY <1>1 DEF FlAlloc, Typed
<1>5. asseming' \in NodeType /\ asseming'.msgs = MsgsOf(asseming)
  <2>1. CASE asseming = NoNode
    BY <2>1, <1>2, <1>4, NewNodeTyped DEF Announce, Put, MsgsOf, NodeType
  <2>2. CASE asseming # NoNode
    <3> DEFINE p == [asseming EXCEPT !.dch = @ \o Blocks(g.as, l)]
    <3>1. asseming \in NodeType
      BY <2>2 DEF Typed
    <3>2. asseming.dch \o Blocks(g.as, l) \in Seq([mf : Nat, as : As \cup {0}, i : Nat])
      BY <3>1, <1>3, ConcatProperties DEF NodeType
    <3>3. p \in NodeType /\ p.msgs = asseming.msgs
      BY <3>1, <3>2 DEF NodeType
    <3>4. p # NoNode
      BY <3>3, FlAssumption DEF FlAssumption
    <3>5. asseming' = [p EXCEPT !.grants = @ \cup {FlAlloc(g, l)}]
      BY <1>2, <2>2, <3>4 DEF Announce, Put
    <3> HIDE DEF p
    <3> QED BY <3>3, <3>5, <2>2, <1>4 DEF MsgsOf, NodeType
  <2> QED BY <2>1, <2>2
<1>6. asseming' # NoNode
  BY <1>5, FlAssumption DEF FlAssumption
<1>7. /\ UNCHANGED <<mf, armed, closing, assemed, tick, accepted, aired>>
      /\ BO' = BO + g.bl /\ todo' = Tail(todo)
  BY DEF Grant
<1>8. Typed'
  BY <1>1, <1>5, <1>7 DEF Typed
<1>9. UNCHANGED FramesSent /\ UNCHANGED (mf - armed)
  BY <1>7 DEF FramesSent
<1>10. InStep'
  BY <1>7, <1>9 DEF InStep
<1>11. MsgsOf(asseming)' = MsgsOf(asseming)
  BY <1>5, <1>6 DEF MsgsOf
<1> QED BY <1>7, <1>8, <1>9, <1>10, <1>11, Unmoved DEF MsgVars

LEMMA CcMsgStep ==
  ASSUME NEW m \in Msg, IInv, CcMsg(m)
  PROVE  IInv'
<1> USE DEF IInv, CcMsg, phyVars, asVars, lmeVars
<1>1. asseming' \in NodeType /\ asseming'.msgs = MsgsOf(asseming) \cup {m}
  BY NodeTyped DEF NodeType
<1>2. MsgsOf(asseming)' = MsgsOf(asseming) \cup {m}
  BY <1>1, FlAssumption DEF MsgsOf, FlAssumption
<1>3. accepted' = [accepted EXCEPT ![m] = mf] /\ mf > 0 /\ accepted[m] = 0
  OBVIOUS
<1>4. Typed'
  BY <1>1, <1>3 DEF Typed
<1>5. FramesSent' = FramesSent /\ UNCHANGED <<mf, armed, closing, assemed, aired, tick>>
  BY DEF FramesSent
<1>6. InStep'
  BY <1>5 DEF InStep
<1>7. ~IsClosed(m) /\ ~IsAired(m) /\ m \notin MsgsOf(asseming)
  BY <1>3 DEF Somewhere
<1>8. \A n \in Msg : (IsClosed(n)' <=> IsClosed(n)) /\ (IsAired(n)' <=> IsAired(n))
  BY <1>5 DEF IsClosed, IsAired
<1>9. \A n \in Msg : accepted'[n] = IF n = m THEN mf ELSE accepted[n]
  BY <1>3 DEF Typed
<1>10. Somewhere'
  <2> SUFFICES ASSUME NEW n \in Msg
               PROVE  accepted'[n] # 0 <=> n \in MsgsOf(asseming)' \/ IsClosed(n)' \/ IsAired(n)'
    BY DEF Somewhere
  <2>1. CASE n = m
    <3>1. accepted'[m] = mf /\ mf # 0
      BY <1>3, <1>9 DEF Typed
    <3>2. m \in MsgsOf(asseming)'
      BY <1>2
    <3> QED BY <2>1, <3>1, <3>2, Zenon
  <2>2. CASE n # m
    <3>1. accepted'[n] = accepted[n]
      BY <2>2, <1>9
    <3>2. accepted[n] # 0 <=> n \in MsgsOf(asseming) \/ IsClosed(n) \/ IsAired(n)
      BY DEF Somewhere
    <3> QED BY <3>1, <3>2, <2>2, <1>2, <1>8, Zenon
  <2> QED BY <2>1, <2>2
<1>11. OnePlace'
  BY <1>2, <1>5, <1>7, <1>8 DEF OnePlace
<1>12. Numbered'
  <2> SUFFICES ASSUME NEW n \in Msg
               PROVE  /\ n \in MsgsOf(asseming)' => mf' - armed' <= accepted'[n]
                      /\ \A i \in 1 .. Len(assemed') :
                            n \in assemed'[i].msgs => FramesSent' + i <= accepted'[n] + 1
                      /\ \A x \in aired' : x.m = n => x.tick <= accepted'[n] + 3
    BY DEF Numbered
  <2>1. CASE n = m
    BY <2>1, <1>5, <1>7, <1>9 DEF IsClosed, IsAired, InStep, Typed
  <2>2. CASE n # m
    BY <2>2, <1>2, <1>5, <1>9 DEF Numbered
  <2> QED BY <2>1, <2>2
<1> QED BY <1>4, <1>6, <1>10, <1>11, <1>12

\* The SLOT_DESC of the closing timer at most creates the node.
LEMMA SlotDescStep == IInv /\ SlotDesc => IInv'
<1> SUFFICES ASSUME IInv, SlotDesc PROVE IInv'
  OBVIOUS
<1> USE DEF IInv
<1>1. /\ asseming' = Node /\ closing' = TRUE /\ armed > 0
      /\ UNCHANGED <<mf, tick, BO, todo, armed, assemed, accepted, aired>>
  BY DEF SlotDesc, lmeVars, phyVars
<1>2. Node \in NodeType /\ MsgsOf(Node) = MsgsOf(asseming)
  BY NodeTyped
<1>3. Typed'
  BY <1>1, <1>2 DEF Typed
<1>4. UNCHANGED FramesSent /\ UNCHANGED (mf - armed)
  BY <1>1 DEF FramesSent
<1>5. InStep'
  BY <1>1, <1>4 DEF InStep
<1>6. MsgsOf(asseming)' = MsgsOf(asseming)
  BY <1>1, <1>2 DEF MsgsOf
<1> QED BY <1>1, <1>3, <1>4, <1>5, <1>6, Unmoved DEF MsgVars

LEMMA CcMacStep == IInv /\ CcMac => IInv'
<1> SUFFICES ASSUME IInv, CcMac PROVE IInv'
  OBVIOUS
<1> USE DEF IInv, CcMac, phyVars, asVars, lmeVars
<1>1. Node \in NodeType /\ Node.msgs = MsgsOf(asseming)
  BY NodeTyped
<1>2. asseming' = NoNode /\ MsgsOf(asseming)' = {}
  BY DEF AfterClosing, MsgsOf
<1> DEFINE L == Len(assemed)
<1>3. /\ L \in Nat /\ assemed' = Append(assemed, Node) /\ assemed' \in Seq(NodeType)
      /\ Len(assemed') = L + 1 /\ assemed'[L + 1] = Node
      /\ \A i \in 1 .. L : assemed'[i] = assemed[i]
  BY <1>1 DEF Typed
<1>4. /\ UNCHANGED <<mf, tick, accepted, aired, todo, BO>>
      /\ armed' = armed - 1 /\ armed > 0 /\ closing' = FALSE
  BY DEF InStep
<1>5. Typed'
  BY <1>2, <1>3, <1>4 DEF Typed
<1>6. FramesSent' = FramesSent /\ FramesSent = mf - armed - L
  BY <1>3, <1>4 DEF FramesSent, Typed, InStep
<1>7. InStep'
  BY <1>4, <1>6 DEF InStep
<1>8. \A n \in Msg : /\ IsClosed(n)' <=> IsClosed(n) \/ n \in MsgsOf(asseming)
                     /\ IsAired(n)' <=> IsAired(n)
  <2> TAKE n \in Msg
  <2>1. IsAired(n)' <=> IsAired(n)
    BY <1>4 DEF IsAired
  <2>2. IsClosed(n) => IsClosed(n)'
    BY <1>3 DEF IsClosed
  <2>3. n \in MsgsOf(asseming) => IsClosed(n)'
    BY <1>1, <1>3 DEF IsClosed
  <2>4. IsClosed(n)' => IsClosed(n) \/ n \in MsgsOf(asseming)
    BY <1>1, <1>3 DEF IsClosed
  <2> QED BY <2>1, <2>2, <2>3, <2>4
<1>9. Somewhere'
  BY <1>2, <1>4, <1>8 DEF Somewhere
<1>10. OnePlace'
  <2> SUFFICES ASSUME NEW n \in Msg
               PROVE  /\ IsClosed(n)' => ~IsAired(n)'
                      /\ \A i, j \in 1 .. Len(assemed') :
                            n \in assemed'[i].msgs /\ n \in assemed'[j].msgs => i = j
    BY <1>2, <1>4 DEF OnePlace
  <2>1. IsClosed(n)' => ~IsAired(n)'
    BY <1>8 DEF OnePlace
  <2>2. ASSUME NEW i \in 1 .. L + 1, NEW j \in 1 .. L + 1,
               n \in assemed'[i].msgs, n \in assemed'[j].msgs
        PROVE  i = j
    <3>1. CASE i \in 1 .. L /\ j \in 1 .. L
      BY <3>1, <2>2, <1>3 DEF OnePlace
    <3>2. CASE i = L + 1 /\ j \in 1 .. L
      BY <3>2, <2>2, <1>1, <1>3 DEF OnePlace, IsClosed
    <3>3. CASE j = L + 1 /\ i \in 1 .. L
      BY <3>3, <2>2, <1>1, <1>3 DEF OnePlace, IsClosed
    <3> QED BY <3>1, <3>2, <3>3, <1>3
  <2> QED BY <2>1, <2>2, <1>3
<1>11. Numbered'
  <2> SUFFICES ASSUME NEW n \in Msg
               PROVE  /\ \A i \in 1 .. L + 1 :
                            n \in assemed'[i].msgs => FramesSent + i <= accepted[n] + 1
                      /\ \A x \in aired : x.m = n => x.tick <= accepted[n] + 3
    BY <1>2, <1>3, <1>4, <1>6 DEF Numbered
  <2>1. ASSUME NEW i \in 1 .. L + 1, n \in assemed'[i].msgs
        PROVE  FramesSent + i <= accepted[n] + 1
    <3>1. CASE i \in 1 .. L
      BY <3>1, <2>1, <1>3 DEF Numbered
    <3>2. CASE i = L + 1
      BY <3>2, <2>1, <1>1, <1>3, <1>6 DEF Numbered, Typed, InStep
    <3> QED BY <3>1, <3>2, <1>3
  <2> QED BY <2>1 DEF Numbered
<1> QED BY <1>5, <1>7, <1>9, <1>10, <1>11

LEMMA PhyTickStep == IInv /\ PhyTick => IInv'
<1> SUFFICES ASSUME IInv, PhyTick PROVE IInv'
  OBVIOUS
<1> USE DEF IInv, PhyTick, SomethingToSend, asVars, lmeVars
<1>1. /\ UNCHANGED <<mf, armed, closing, todo, BO, asseming, accepted>>
      /\ tick' = tick + 1 /\ tick' = mf' /\ tick = mf - 1
  <2>1. /\ UNCHANGED <<mf, todo, BO, armed, closing, asseming, accepted>>
        /\ tick' = tick + 1 /\ tick < mf
    BY Zenon
  <2> QED BY <2>1 DEF InStep, Typed
<1>2. CASE assemed = <<>>
  <2>1. UNCHANGED <<assemed, aired>>
    BY <1>2
  <2>2. Typed'
    BY <1>1, <2>1 DEF Typed
  <2>3. FramesSent' = FramesSent /\ FramesSent = mf - armed
    BY <1>1, <1>2, <2>1 DEF FramesSent, InStep, Typed
  <2>4. InStep'
    BY <1>1, <2>3 DEF InStep, Typed
  <2> QED BY <1>1, <2>1, <2>2, <2>3, <2>4, Unmoved DEF MsgVars, MsgsOf
<1>3. CASE assemed # <<>>
  <2> DEFINE L == Len(assemed)
             n0 == assemed[1]
             new == {[m |-> m, tick |-> tick + 1] : m \in n0.msgs}
  <2>1. /\ L \in Nat \ {0} /\ assemed' = Tail(assemed) /\ assemed' \in Seq(NodeType)
        /\ Len(assemed') = L - 1
        /\ \A i \in 1 .. L - 1 : assemed'[i] = assemed[i + 1]
        /\ n0 \in NodeType /\ aired' = aired \cup new
    <3>1. assemed \in Seq(NodeType)
      BY DEF Typed
    <3>2. Head(assemed) = n0
      BY <3>1, <1>3
    <3>3. assemed' = Tail(assemed) /\ aired' = aired \cup new
      BY <1>3, <3>2, Zenon
    <3> QED BY <3>1, <3>3, <1>3
  <2>2. n0.msgs \subseteq Msg /\ new \subseteq [m : Msg, tick : Nat]
    BY <2>1 DEF NodeType, Typed
  <2>3. Typed'
    BY <1>1, <2>1, <2>2 DEF Typed
  <2>4. FramesSent' = FramesSent + 1 /\ FramesSent \in Int
    BY <1>1, <2>1 DEF FramesSent, InStep, Typed
  <2>5. InStep'
    BY <1>1, <2>4 DEF InStep, Typed
  <2>6. \A m \in Msg : (IsAired(m)' <=> IsAired(m) \/ m \in n0.msgs)
    <3> TAKE m \in Msg
    <3>1. IsAired(m) => IsAired(m)'
      BY <2>1 DEF IsAired
    <3>2. m \in n0.msgs => IsAired(m)'
      <4>1. m \in n0.msgs => [m |-> m, tick |-> tick + 1] \in aired'
        BY <2>1
      <4> QED BY <4>1 DEF IsAired
    <3>3. ASSUME NEW x \in aired', x.m = m
          PROVE  IsAired(m) \/ m \in n0.msgs
      <4>1. CASE x \in aired
        BY <4>1, <3>3 DEF IsAired
      <4>2. CASE x \in new
        <5>1. PICK k \in n0.msgs : x = [m |-> k, tick |-> tick + 1]
          BY <4>2
        <5> QED BY <5>1, <3>3
      <4> QED BY <4>1, <4>2, <2>1
    <3>4. IsAired(m)' => IsAired(m) \/ m \in n0.msgs
      BY <3>3 DEF IsAired
    <3> QED BY <3>1, <3>2, <3>4
  <2>7. \A m \in Msg : IsClosed(m) <=> IsClosed(m)' \/ m \in n0.msgs
    <3> TAKE m \in Msg
    <3>1. IsClosed(m)' => IsClosed(m)
      BY <2>1 DEF IsClosed
    <3>2. m \in n0.msgs => IsClosed(m)
      BY <2>1 DEF IsClosed
    <3>3. ASSUME NEW i \in 1 .. L, m \in assemed[i].msgs, i # 1
          PROVE  IsClosed(m)'
      <4>1. i - 1 \in 1 .. L - 1 /\ assemed'[i - 1] = assemed[i]
        BY <3>3, <2>1
      <4> QED BY <4>1, <3>3, <2>1 DEF IsClosed
    <3> QED BY <3>1, <3>2, <3>3 DEF IsClosed
  <2>8. \A m \in Msg : m \in n0.msgs => ~IsClosed(m)'
    <3> SUFFICES ASSUME NEW m \in Msg, m \in n0.msgs,
                        NEW i \in 1 .. L - 1, m \in assemed'[i].msgs
                 PROVE  FALSE
      BY <2>1 DEF IsClosed
    <3>1. i + 1 \in 1 .. L /\ 1 \in 1 .. L /\ m \in assemed[i + 1].msgs
      BY <2>1
    <3>2. i + 1 = 1
      BY <3>1 DEF OnePlace
    <3> QED BY <3>2
  <2>9. MsgsOf(asseming)' = MsgsOf(asseming)
    BY <1>1 DEF MsgsOf
  <2> HIDE DEF L, n0
  <2>10. Somewhere'
    BY <1>1, <2>6, <2>7, <2>9 DEF Somewhere
  <2>11. OnePlace'
    <3> SUFFICES ASSUME NEW m \in Msg
                 PROVE  /\ m \in MsgsOf(asseming)' => ~IsClosed(m)' /\ ~IsAired(m)'
                        /\ IsClosed(m)' => ~IsAired(m)'
                        /\ \A i, j \in 1 .. Len(assemed') :
                              m \in assemed'[i].msgs /\ m \in assemed'[j].msgs => i = j
                        /\ \A x, y \in aired' : x.m = m /\ y.m = m => x = y
      BY DEF OnePlace
    <3>1. m \in MsgsOf(asseming)' => ~IsClosed(m)' /\ ~IsAired(m)'
      BY <2>6, <2>7, <2>9 DEF OnePlace
    <3>2. IsClosed(m)' => ~IsAired(m)'
      BY <2>6, <2>7, <2>8 DEF OnePlace
    <3>3. ASSUME NEW i \in 1 .. L - 1, NEW j \in 1 .. L - 1,
                 m \in assemed'[i].msgs, m \in assemed'[j].msgs
          PROVE  i = j
      <4>1. i + 1 \in 1 .. L /\ j + 1 \in 1 .. L
        BY <2>1
      <4>2. i + 1 = j + 1
        BY <4>1, <3>3, <2>1 DEF OnePlace, L
      <4> QED BY <4>2
    <3>4. ASSUME NEW x \in aired', NEW y \in aired', x.m = m, y.m = m
          PROVE  x = y
      <4>1. CASE m \in n0.msgs
        <5>1. \A z \in aired : z.m # m
          BY <4>1, <2>7 DEF OnePlace, IsAired
        <5> QED BY <5>1, <3>4, <2>1
      <4>2. CASE m \notin n0.msgs
        <5>1. x \in aired /\ y \in aired
          BY <4>2, <3>4, <2>1
        <5> QED BY <5>1, <3>4 DEF OnePlace
      <4> QED BY <4>1, <4>2
    <3> QED BY <3>1, <3>2, <3>3, <3>4, <2>1
  <2>12. Numbered'
    <3> SUFFICES ASSUME NEW m \in Msg
                 PROVE  /\ \A i \in 1 .. L - 1 :
                              m \in assemed'[i].msgs => FramesSent' + i <= accepted[m] + 1
                        /\ \A x \in aired' : x.m = m => x.tick <= accepted[m] + 3
      BY <1>1, <2>1, <2>9 DEF Numbered
    <3>1. ASSUME NEW i \in 1 .. L - 1, m \in assemed'[i].msgs
          PROVE  FramesSent' + i <= accepted[m] + 1
      <4>1. i + 1 \in 1 .. L /\ m \in assemed[i + 1].msgs
        BY <3>1, <2>1
      <4>2. FramesSent + (i + 1) <= accepted[m] + 1
        BY <4>1 DEF Numbered, L
      <4> QED BY <4>2, <2>4
    <3>2. ASSUME NEW x \in aired', x.m = m
          PROVE  x.tick <= accepted[m] + 3
      <4>1. CASE x \in aired
        BY <4>1, <3>2 DEF Numbered
      <4>2. CASE x \in new
        <5>1. m \in n0.msgs /\ x.tick = tick + 1 /\ 1 \in 1 .. Len(assemed)
          BY <4>2, <3>2, <2>1 DEF L
        <5>2. FramesSent + 1 <= accepted[m] + 1
          BY <5>1 DEF Numbered, n0
        <5> QED BY <5>1, <5>2, <2>4 DEF InStep, Typed
      <4> QED BY <4>1, <4>2, <2>1
    <3> QED BY <3>1, <3>2
  <2> QED BY <2>3, <2>5, <2>10, <2>11, <2>12
<1> QED BY <1>2, <1>3

LEMMA StepIInv == IInv /\ [Next]_vars => IInv'
<1> SUFFICES ASSUME IInv, [Next]_vars PROVE IInv'
  OBVIOUS
<1>1. CASE UNCHANGED <<lmeVars, macVars, tick, accepted, aired>>
  <2>1. UNCHANGED <<mf, todo, BO, armed, closing, asseming, assemed, tick, accepted, aired>>
    BY <1>1 DEF lmeVars, macVars
  <2>2. Typed' /\ UNCHANGED FramesSent
    BY <2>1 DEF IInv, Typed, FramesSent
  <2>3. InStep'
    BY <2>1, <2>2 DEF IInv, InStep
  <2> QED BY <2>1, <2>2, <2>3, Unmoved DEF MsgVars, MsgsOf
<1>2. CASE LmeTick
  BY <1>2, LmeTickStep
<1>3. CASE Grant
  BY <1>3, GrantStep
<1>4. CASE SlotDesc \/ CcMac
  BY <1>4, SlotDescStep, CcMacStep
<1>5. CASE PhyTick
  BY <1>5, PhyTickStep
<1>6. ASSUME NEW m \in Msg, CcMsg(m)
      PROVE  IInv'
  BY <1>6, CcMsgStep
<1>7. ASSUME NEW missed \in SUBSET Deaf, NEW unverified \in SUBSET Deaf,
             RecvFrame(As \ missed, As \ unverified)
      PROVE  IInv'
  BY <1>7, <1>1 DEF RecvFrame
<1>8. ASSUME NEW a \in As, CcThread(a)
      PROVE  IInv'
  BY <1>8, <1>1 DEF CcThread, phyVars
<1>9. CASE UNCHANGED vars
  BY <1>9, <1>1 DEF vars, phyVars
<1> QED BY <1>2, <1>3, <1>4, <1>5, <1>6, <1>7, <1>8, <1>9 DEF Next

LEMMA Invariance == Spec => []IInv
  BY InitIInv, StepIInv, PTL DEF Spec

\* No control message is sent twice: the three threads that share
\* cd_asseming_node hand it over whole (M_SAPC, trans_cc_must_timer_func).
THEOREM NeverAiredTwice == Spec => []OnceOnAir
<1>1. IInv => OnceOnAir
  <2> SUFFICES ASSUME IInv, NEW x \in aired, NEW y \in aired, x.m = y.m
               PROVE  x = y
    BY DEF OnceOnAir
  <2>1. x.m \in Msg
    BY DEF IInv, Typed
  <2> QED BY <2>1 DEF IInv, OnePlace
<1> QED BY <1>1, Invariance, PTL

\* A control message is on the air by the third multiframe after the one it was
\* taken over in, however late the closing timer and however full the packets.
THEOREM InTime == Spec => []Latency
<1>1. IInv => Latency
  <2> SUFFICES ASSUME IInv, NEW m \in Msg, accepted[m] # 0, ~(tick < accepted[m] + 3)
               PROVE  \E x \in aired : x.m = m /\ x.tick <= accepted[m] + 3
    BY DEF Latency
  <2> USE DEF IInv
  <2>1. Len(assemed) \in Nat /\ accepted[m] \in Nat
    BY DEF Typed
  <2>2. FramesSent = mf - armed - Len(assemed) /\ FramesSent >= accepted[m] + 1
    BY <2>1 DEF FramesSent, InStep, Typed
  <2>3. m \notin MsgsOf(asseming)
    BY <2>1, <2>2 DEF Numbered, Typed, InStep
  <2>4. ~IsClosed(m)
    BY <2>1, <2>2 DEF Numbered, IsClosed, Typed, InStep
  <2>5. IsAired(m)
    BY <2>3, <2>4 DEF Somewhere
  <2> QED BY <2>5 DEF IsAired, Numbered
<1> QED BY <1>1, Invariance, PTL

-----------------------------------------------------------------------------
(* The data of the grants.                                                  *)

Block == [mf : Nat, as : As \cup {0}, i : Nat]
Alloc == [mf : Nat, as : As, BO : Nat, BL : Nat, kept : BOOLEAN]
Heard == [mf : Nat, as : As, BO : Nat, BL : Nat, kept : BOOLEAN, no : Int, full : Nat]

\* What the messages of a packet and the round robin have to keep to: the CC slot lies
\* in slots 13 to 21, and no grant reaches beyond the data of the packet.
PacketsFit ==
    \A j \in 1 .. Len(assemed) :
        /\ CCL(assemed[j]) \in 1 .. Blk0Max + 1
        /\ \A g \in assemed[j].grants : g.BO + g.BL <= FirstHalf(CCL(assemed[j])) + 2 * BlkLen

\* Block i of a grant.
Want(g, i) == [mf |-> g.mf, as |-> g.as, i |-> i]

\* The data of a packet is where its FL_ALLOCs say.
Holds(n) ==
    \A g \in n.grants : g.kept =>
        \A i \in 1 .. g.BL : g.BO + i <= Len(n.dch) /\ n.dch[g.BO + i] = Want(g, i)

\* What a grant has in the first and in the second half of the data.
InFirst(s, g, ccl) ==
    /\ Len(s) = FirstHalf(ccl)
    /\ \A i \in 1 .. g.BL : g.BO + i <= FirstHalf(ccl) => s[g.BO + i] = Want(g, i)
InSecond(s, g, ccl) ==
    \A i \in 1 .. g.BL :
        g.BO + i > FirstHalf(ccl) =>
            /\ g.BO + i - FirstHalf(ccl) <= Len(s)
            /\ s[g.BO + i - FirstHalf(ccl)] = Want(g, i)

NodesHold ==
    /\ asseming # NoNode => Holds(asseming)
    /\ \A j \in 1 .. Len(assemed) : Holds(assemed[j])

\* The frame on the air, whose second half is still with the ground station.
WireHolds ==
    wire # NoNode =>
        /\ wire.no = FramesSent /\ wire.full \in Nat
        /\ wire.grants \subseteq Alloc
        /\ wire.slots1_12 \in Seq(Block) /\ FirstOf(wire) \in Seq(Block)
        /\ \A g \in wire.grants : g.kept =>
              /\ wire.CCL = wire.full => InFirst(FirstOf(wire), g, wire.full)
              /\ InSecond(data_next_mf, g, wire.full)

\* What a station has cached goes with the grants it has heard, and the frame that
\* comes next completes it.
StationHolds(a) ==
    /\ cached[a] \in Seq(Block)
    /\ cc_pq[a] \cup fl_alloc_queue[a] \subseteq Heard
    /\ \A r \in cc_pq[a] \cup fl_alloc_queue[a] : r.kept =>
          /\ InFirst(cached[a], r, r.full)
          /\ wire = NoNode => /\ r.no <= FramesSent
                              /\ r.no = FramesSent => InSecond(data_next_mf, r, r.full)
          /\ wire # NoNode => /\ r.no < FramesSent
                              /\ r.no = FramesSent - 1 => InSecond(wire.slots1_12, r, r.full)
    /\ \A r \in fl_alloc_queue[a] : r.as = a

DataInv ==
    /\ data_next_mf \in Seq(Block)
    /\ cached \in [As -> Seq(Block)]
    /\ cc_pq \in [As -> SUBSET Heard] /\ fl_alloc_queue \in [As -> SUBSET Heard]
    /\ NodesHold /\ WireHolds
    /\ \A a \in As : StationHolds(a)
    /\ RightPiece

LEMMA AssumptionFacts ==
    /\ BlkLen \in Nat \ {0} /\ Blk0Max \in Nat \ {0} /\ CclMod \in Nat \ {0}
    /\ \A c \in Nat : FirstHalf(c) \in Int /\ Blk0Len(c) = Blk0Max - (c - 1)
                      /\ FirstHalf(c) = Blk0Len(c) + BlkLen
  BY FlAssumption DEF FlAssumption, FirstHalf, Blk0Len

LEMMA ZeroTyped == Zero \in Block /\ CcBlk \in Block
  BY DEF Zero, CcBlk, Block

\* A stretch of a sequence, and two sequences put together.
LEMMA Slice ==
  ASSUME NEW S, NEW s \in Seq(S), NEW a \in Nat \ {0}, NEW b \in Nat, a <= b + 1, b <= Len(s)
  PROVE  /\ SubSeq(s, a, b) \in Seq(S) /\ Len(SubSeq(s, a, b)) = b - a + 1
         /\ \A j \in 1 .. b - a + 1 : SubSeq(s, a, b)[j] = s[a - 1 + j]
         /\ SubSeq(s, a, b) = [j \in 1 .. b - a + 1 |-> s[a - 1 + j]]
<1>1. Len(s) \in Nat /\ \A i \in a .. b : s[i] \in S
  BY LenProperties, ElementOfSeq
<1>2. /\ SubSeq(s, a, b) \in Seq(S)
      /\ Len(SubSeq(s, a, b)) = IF a <= b THEN b - a + 1 ELSE 0
      /\ \A j \in 1 .. b - a + 1 : SubSeq(s, a, b)[j] = s[a + j - 1]
  BY <1>1, SubSeqProperties
<1> DEFINE t == SubSeq(s, a, b)
<1> HIDE DEF t
<1>3. /\ t \in Seq(S) /\ Len(t) = b - a + 1
      /\ \A j \in 1 .. b - a + 1 : t[j] = s[a - 1 + j]
  BY <1>2 DEF t
<1>4. t = [j \in 1 .. b - a + 1 |-> t[j]]
  BY <1>3, LenProperties
<1>5. t = [j \in 1 .. b - a + 1 |-> s[a - 1 + j]]
  BY <1>3, <1>4
<1> QED BY <1>3, <1>5 DEF t

LEMMA Joined ==
  ASSUME NEW S, NEW s \in Seq(S), NEW t \in Seq(S)
  PROVE  /\ Len(s) \in Nat /\ Len(t) \in Nat
         /\ s \o t \in Seq(S) /\ Len(s \o t) = Len(s) + Len(t)
         /\ \A j \in 1 .. Len(s) : (s \o t)[j] = s[j]
         /\ \A j \in 1 .. Len(t) : (s \o t)[Len(s) + j] = t[j]
  BY ConcatProperties, LenProperties

\* A sequence cut into three, the first part put behind other blocks and taken off again.
CutRight(S, buf, ones, b0, k, m, fh) ==
    LET whole == ones \o SubSeq(buf, 1, b0)
        h1 == SubSeq(buf, b0 + 1, fh)
        h2 == SubSeq(buf, fh + 1, fh + m)
        first == SubSeq(whole, Len(ones) + 1, Len(whole)) \o h1
    IN  /\ whole \in Seq(S) /\ h1 \in Seq(S) /\ h2 \in Seq(S)
        /\ Len(whole) = Len(ones) + b0 /\ Len(h1) = k
        /\ Len(h2) = m /\ \A j \in 1 .. m : h2[j] = buf[fh + j]
        /\ Len(first) = fh /\ \A j \in 1 .. fh : first[j] = buf[j]

LEMMA Halves ==
  ASSUME NEW S, NEW buf \in Seq(S), NEW ones \in Seq(S),
         NEW b0 \in Nat, NEW k \in Nat \ {0}, NEW m \in Nat, NEW fh, fh = b0 + k,
         Len(buf) = fh + m
  PROVE  CutRight(S, buf, ones, b0, k, m, fh)
<1> DEFINE h0 == SubSeq(buf, 1, b0)
           whole == ones \o h0
           h1 == SubSeq(buf, b0 + 1, fh)
           h2 == SubSeq(buf, fh + 1, fh + m)
           t == SubSeq(whole, Len(ones) + 1, Len(whole))
           first == t \o h1
<1> HIDE DEF h0, whole, h1, h2, t, first
<1>1. fh \in Nat /\ Len(ones) \in Nat
  BY LenProperties
<1>3. h0 \in Seq(S) /\ Len(h0) = b0 /\ \A j \in 1 .. b0 : h0[j] = buf[j]
  <2>1. 1 \in Nat \ {0} /\ 1 <= b0 + 1 /\ b0 <= Len(buf)
    BY <1>1
  <2>2. /\ h0 \in Seq(S) /\ Len(h0) = b0 - 1 + 1
        /\ \A j \in 1 .. b0 - 1 + 1 : h0[j] = buf[1 - 1 + j]
    BY <2>1, Slice DEF h0
  <2> QED BY <2>2
<1>4. h1 \in Seq(S) /\ Len(h1) = k /\ \A j \in 1 .. k : h1[j] = buf[b0 + j]
  <2>1. b0 + 1 \in Nat \ {0} /\ b0 + 1 <= fh + 1 /\ fh <= Len(buf)
    BY <1>1
  <2>2. /\ h1 \in Seq(S) /\ Len(h1) = fh - (b0 + 1) + 1
        /\ \A j \in 1 .. fh - (b0 + 1) + 1 : h1[j] = buf[(b0 + 1) - 1 + j]
    BY <2>1, <1>1, Slice DEF h1
  <2>3. fh - (b0 + 1) + 1 = k /\ \A j \in 1 .. k : (b0 + 1) - 1 + j = b0 + j
    BY <1>1
  <2>4. h1 \in Seq(S) /\ Len(h1) = k /\ \A j \in 1 .. k : h1[j] = buf[(b0 + 1) - 1 + j]
    BY <2>2, <2>3
  <2> QED BY <2>3, <2>4
<1>5. h2 \in Seq(S) /\ Len(h2) = m /\ \A j \in 1 .. m : h2[j] = buf[fh + j]
  <2>1. fh + 1 \in Nat \ {0} /\ fh + m \in Nat /\ fh + 1 <= (fh + m) + 1 /\ fh + m <= Len(buf)
    BY <1>1
  <2>2. /\ h2 \in Seq(S) /\ Len(h2) = (fh + m) - (fh + 1) + 1
        /\ \A j \in 1 .. (fh + m) - (fh + 1) + 1 : h2[j] = buf[(fh + 1) - 1 + j]
    BY <2>1, <1>1, Slice DEF h2
  <2>3. (fh + m) - (fh + 1) + 1 = m /\ \A j \in 1 .. m : (fh + 1) - 1 + j = fh + j
    BY <1>1
  <2>4. h2 \in Seq(S) /\ Len(h2) = m /\ \A j \in 1 .. m : h2[j] = buf[(fh + 1) - 1 + j]
    BY <2>2, <2>3
  <2> QED BY <2>3, <2>4
<1>6. /\ whole \in Seq(S) /\ Len(whole) = Len(ones) + b0
      /\ \A j \in 1 .. b0 : whole[Len(ones) + j] = h0[j]
  <2>2. /\ whole \in Seq(S) /\ Len(whole) = Len(ones) + Len(h0)
        /\ \A j \in 1 .. Len(h0) : whole[Len(ones) + j] = h0[j]
    <3>1. h0 \in Seq(S)
      BY <1>3
    <3>2. /\ ones \o h0 \in Seq(S) /\ Len(ones \o h0) = Len(ones) + Len(h0)
          /\ \A j \in 1 .. Len(h0) : (ones \o h0)[Len(ones) + j] = h0[j]
      BY <3>1, Joined
    <3> QED BY <3>2, Zenon DEF whole
  <2>3. Len(h0) = b0
    BY <1>3
  <2> QED BY <2>2, <2>3
<1>8. t \in Seq(S) /\ Len(t) = b0 /\ \A j \in 1 .. b0 : t[j] = buf[j]
  <2> DEFINE l == Len(ones)
             e == Len(whole)
  <2>0. l \in Nat /\ e = l + b0
    BY <1>1, <1>6
  <2>1. l + 1 \in Nat \ {0} /\ e \in Nat /\ l + 1 <= e + 1 /\ e <= Len(whole)
    BY <2>0
  <2>2. /\ t \in Seq(S) /\ Len(t) = e - (l + 1) + 1
        /\ \A j \in 1 .. e - (l + 1) + 1 : t[j] = whole[(l + 1) - 1 + j]
    BY <2>1, <1>6, Slice DEF t
  <2>3. \A j \in 1 .. b0 : whole[l + j] = buf[j]
    BY <1>3, <1>6
  <2> HIDE DEF l, e
  <2>4. e - (l + 1) + 1 = b0 /\ \A j \in 1 .. b0 : (l + 1) - 1 + j = l + j
    BY <2>0
  <2>5. t \in Seq(S) /\ Len(t) = b0 /\ \A j \in 1 .. b0 : t[j] = whole[(l + 1) - 1 + j]
    BY <2>2, <2>4
  <2>6. \A j \in 1 .. b0 : t[j] = whole[l + j]
    BY <2>4, <2>5
  <2> QED BY <2>3, <2>5, <2>6
<1>10. /\ Len(first) = fh
       /\ \A j \in 1 .. b0 : first[j] = buf[j]
       /\ \A j \in 1 .. k : first[b0 + j] = buf[b0 + j]
  <2>1. /\ Len(first) = Len(t) + Len(h1)
        /\ \A j \in 1 .. Len(t) : first[j] = t[j]
        /\ \A j \in 1 .. Len(h1) : first[Len(t) + j] = h1[j]
    <3>1. h1 \in Seq(S) /\ t \in Seq(S)
      BY <1>4, <1>8
    <3> QED BY <3>1, Joined DEF first
  <2>2. Len(t) = b0 /\ Len(h1) = k
    BY <1>4, <1>8
  <2>3. /\ Len(first) = b0 + k
        /\ \A j \in 1 .. b0 : first[j] = t[j]
        /\ \A j \in 1 .. k : first[b0 + j] = h1[j]
    BY <2>1, <2>2
  <2> QED BY <2>3, <1>4, <1>8
<1>11. \A j \in 1 .. fh : first[j] = buf[j]
  <2> SUFFICES ASSUME NEW j \in 1 .. fh PROVE first[j] = buf[j]
    OBVIOUS
  <2>1. CASE j <= b0
    BY <2>1, <1>10, <1>1
  <2>2. CASE j > b0
    <3>1. j - b0 \in 1 .. k /\ b0 + (j - b0) = j
      BY <2>2, <1>1
    <3>2. first[b0 + (j - b0)] = buf[b0 + (j - b0)]
      BY <3>1, <1>10
    <3> QED BY <3>1, <3>2
  <2> QED BY <2>1, <2>2, <1>1
<1> QED BY <1>4, <1>5, <1>6, <1>10, <1>11 DEF CutRight, first, t, whole, h0, h1, h2

\* combine_cc_data keeps every block of the packet in its place.
LEMMA FrameHolds ==
  ASSUME NEW n \in NodeType, Holds(n), NEW f, f = FrameOf(n), data_next_mf \in Seq(Block),
         CCL(n) \in 1 .. Blk0Max + 1,
         \A g \in n.grants : g.BO + g.BL <= FirstHalf(CCL(n)) + 2 * BlkLen
  PROVE  /\ FirstOf(f) \in Seq(Block) /\ NextHalf(n) \in Seq(Block)
         /\ Len(NextHalf(n)) = 2 * BlkLen
         /\ Len(f.slots13_21) = Blk0Max + 1 /\ Len(f.slots22_27) = BlkLen
         /\ \A g \in n.grants : g.kept =>
               /\ f.CCL = f.full => InFirst(FirstOf(f), g, f.full)
               /\ InSecond(NextHalf(n), g, f.full)
<1> DEFINE ccl == CCL(n)
           b0 == Blk0Len(ccl)
           fh == FirstHalf(ccl)
           dbl == 2 * BlkLen
           buf == SduBuf(n)
           ones == [i \in 1 .. ccl |-> CcBlk]
           h1 == SubSeq(buf, b0 + 1, fh)
           h2 == SubSeq(buf, fh + 1, fh + dbl)
           whole == ones \o SubSeq(buf, 1, b0)
<1>1. /\ ccl \in Nat /\ b0 \in Nat /\ fh = b0 + BlkLen /\ fh \in Nat
      /\ ccl + b0 = Blk0Max + 1 /\ BlkLen \in Nat \ {0} /\ dbl \in Nat
  <2>1. /\ BlkLen \in Nat \ {0} /\ Blk0Max \in Nat \ {0}
        /\ \A c \in Nat : Blk0Len(c) = Blk0Max - (c - 1) /\ FirstHalf(c) = Blk0Len(c) + BlkLen
    BY AssumptionFacts
  <2>2. ccl \in 1 .. Blk0Max + 1
    OBVIOUS
  <2> HIDE DEF ccl
  <2>3. b0 = Blk0Max - (ccl - 1) /\ fh = b0 + BlkLen
    BY <2>1, <2>2
  <2> HIDE DEF b0, fh
  <2> QED BY <2>1, <2>2, <2>3
<1>2. n.dch \in Seq(Block) /\ n.grants \subseteq Alloc
  BY DEF NodeType, Block, Alloc
<1>3. buf = [i \in 1 .. fh + dbl |-> IF i <= Len(n.dch) THEN n.dch[i] ELSE Zero]
  BY DEF SduBuf
<1>5. /\ f.CCL = ccl % CclMod /\ f.full = ccl /\ f.slots13_21 = whole /\ f.slots22_27 = h1
  BY DEF FrameOf
<1>6. NextHalf(n) = h2
  BY DEF NextHalf
<1> HIDE DEF ccl, b0, fh, dbl
<1>4. /\ buf \in Seq(Block) /\ Len(buf) = fh + dbl
      /\ \A i \in 1 .. fh + dbl : buf[i] = IF i <= Len(n.dch) THEN n.dch[i] ELSE Zero
  <2> DEFINE l == fh + dbl
             blk(i) == IF i <= Len(n.dch) THEN n.dch[i] ELSE Zero
  <2>1. l \in Nat /\ Len(n.dch) \in Nat
    BY <1>1, <1>2, LenProperties
  <2>2. \A i \in 1 .. l : blk(i) \in Block
    <3> SUFFICES ASSUME NEW i \in 1 .. l PROVE blk(i) \in Block
      OBVIOUS
    <3>1. CASE i <= Len(n.dch)
      <4>1. i \in 1 .. Len(n.dch)
        BY <2>1, <3>1
      <4> QED BY <4>1, <3>1, <1>2, ElementOfSeq
    <3>2. CASE ~(i <= Len(n.dch))
      BY <3>2, ZeroTyped
    <3> QED BY <3>1, <3>2
  <2>3. buf = [i \in 1 .. l |-> blk(i)]
    BY <1>3
  <2> HIDE DEF l, blk, buf
  <2>4. buf \in Seq(Block)
    BY <2>1, <2>2, <2>3, IsASeq
  <2>5. Len(buf) = l /\ \A i \in 1 .. l : buf[i] = blk(i)
    BY <2>1, <2>3
  <2> QED BY <2>4, <2>5 DEF l, blk
<1>7. \A g \in n.grants : g.kept =>
        \A i \in 1 .. g.BL : /\ g.BO + i \in 1 .. fh + dbl
                             /\ buf[g.BO + i] = Want(g, i)
  <2> SUFFICES ASSUME NEW g \in n.grants, g.kept, NEW i \in 1 .. g.BL
               PROVE  g.BO + i \in 1 .. fh + dbl /\ buf[g.BO + i] = Want(g, i)
    OBVIOUS
  <2>1. g.BO \in Nat /\ g.BL \in Nat
    BY <1>2 DEF Alloc
  <2>2. g.BO + g.BL <= fh + dbl
    BY DEF fh, ccl, dbl
  <2>3. g.BO + i \in 1 .. fh + dbl
    BY <2>1, <2>2, <1>1
  <2>4. g.BO + i <= Len(n.dch) /\ n.dch[g.BO + i] = Want(g, i)
    BY DEF Holds
  <2> HIDE DEF buf
  <2> QED BY <2>3, <2>4, <1>4
<1> HIDE DEF buf
<1>9. ones \in Seq(Block) /\ Len(ones) = ccl
  <2>1. \A i \in 1 .. ccl : CcBlk \in Block
    BY ZeroTyped
  <2>2. ones \in Seq(Block)
    BY <1>1, <2>1, IsASeq
  <2> QED BY <2>2, <1>1
<1> HIDE DEF ones
<1> DEFINE first == SubSeq(whole, Len(ones) + 1, Len(whole)) \o h1
<1>10. /\ whole \in Seq(Block) /\ h1 \in Seq(Block) /\ h2 \in Seq(Block)
       /\ Len(whole) = Len(ones) + b0 /\ Len(h1) = BlkLen
       /\ Len(h2) = dbl /\ \A j \in 1 .. dbl : h2[j] = buf[fh + j]
       /\ Len(first) = fh /\ \A j \in 1 .. fh : first[j] = buf[j]
  <2>1. buf \in Seq(Block) /\ Len(buf) = fh + dbl
    BY <1>4
  <2>2. /\ ones \in Seq(Block) /\ b0 \in Nat /\ BlkLen \in Nat \ {0} /\ dbl \in Nat
        /\ fh = b0 + BlkLen
    BY <1>1, <1>9
  <2> HIDE DEF ones
  <2>3. CutRight(Block, buf, ones, b0, BlkLen, dbl, fh)
    BY <2>1, <2>2, Halves
  <2> QED BY <2>3, Zenon DEF CutRight
<1> HIDE DEF whole, h1, h2
<1>11. ASSUME NEW c \in Nat PROVE SubSeq(whole, c + 1, Len(whole)) \in Seq(Block)
  <2>1. Len(whole) \in Int /\ c + 1 \in Int /\ \A i \in c + 1 .. Len(whole) : whole[i] \in Block
    BY <1>10, LenProperties, ElementOfSeq
  <2> QED BY <2>1, SubSeqProperties
<1>13. f.CCL \in Nat /\ FirstOf(f) = SubSeq(whole, f.CCL + 1, Len(whole)) \o h1
  <2>1. FirstOf(f) = SubSeq(whole, f.CCL + 1, Len(whole)) \o h1
    BY <1>5 DEF FirstOf, CcPdu
  <2>2. f.CCL \in Nat
    BY <1>5, <1>1, AssumptionFacts
  <2> QED BY <2>1, <2>2
<1>14. FirstOf(f) \in Seq(Block)
  BY <1>10, <1>11, <1>13, ConcatProperties
<1>15. ASSUME f.CCL = f.full
       PROVE  Len(FirstOf(f)) = fh /\ \A j \in 1 .. fh : FirstOf(f)[j] = buf[j]
  <2>1. FirstOf(f) = SubSeq(whole, Len(ones) + 1, Len(whole)) \o h1
    BY <1>5, <1>9, <1>13, <1>15
  <2> QED BY <2>1, <1>10
<1>16. ASSUME NEW g \in n.grants, g.kept
       PROVE  /\ f.CCL = f.full => InFirst(FirstOf(f), g, f.full)
              /\ InSecond(NextHalf(n), g, f.full)
  <2>1. g.BO \in Nat /\ g.BL \in Nat
    BY <1>2 DEF Alloc
  <2>2. FirstHalf(f.full) = fh
    BY <1>5 DEF fh
  <2>3. \A i \in 1 .. g.BL : g.BO + i \in 1 .. fh + dbl /\ buf[g.BO + i] = Want(g, i)
    BY <1>7, <1>16
  <2>4. ASSUME f.CCL = f.full PROVE InFirst(FirstOf(f), g, f.full)
    <3>1. Len(FirstOf(f)) = FirstHalf(f.full)
      BY <2>2, <2>4, <1>15
    <3>2. ASSUME NEW i \in 1 .. g.BL, g.BO + i <= fh
          PROVE  FirstOf(f)[g.BO + i] = Want(g, i)
      <4>1. g.BO + i \in 1 .. fh
        BY <2>3, <3>2, <1>1
      <4> QED BY <4>1, <2>3, <2>4, <1>15
    <3> QED BY <2>2, <3>1, <3>2 DEF InFirst
  <2>5. InSecond(NextHalf(n), g, f.full)
    <3>1. ASSUME NEW i \in 1 .. g.BL, g.BO + i > fh
          PROVE  g.BO + i - fh <= Len(h2) /\ h2[g.BO + i - fh] = Want(g, i)
      <4> DEFINE j == g.BO + i - fh
      <4>1. g.BO + i \in 1 .. fh + dbl /\ buf[g.BO + i] = Want(g, i)
        BY <2>3
      <4>2. j \in 1 .. dbl /\ fh + j = g.BO + i
        BY <4>1, <3>1, <2>1, <1>1
      <4> HIDE DEF j
      <4>3. h2[j] = buf[fh + j] /\ j <= Len(h2)
        BY <4>2, <1>1, <1>10
      <4> QED BY <4>1, <4>2, <4>3 DEF j
    <3> QED BY <2>2, <3>1, <1>6 DEF InSecond
  <2> QED BY <2>4, <2>5
<1>17. /\ Len(NextHalf(n)) = 2 * BlkLen
       /\ Len(f.slots13_21) = Blk0Max + 1 /\ Len(f.slots22_27) = BlkLen
  <2>1. Len(whole) = ccl + b0 /\ Len(h1) = BlkLen /\ Len(h2) = 2 * BlkLen
    BY <1>9, <1>10 DEF dbl
  <2> QED BY <2>1, <1>1, <1>5, <1>6
<1> QED BY <1>6, <1>10, <1>14, <1>16, <1>17

\* PHY_DATA_IND cuts the data of a grant out of the two halves.
LEMMA PieceHolds ==
  ASSUME NEW c \in Seq(Block), NEW s \in Seq(Block), NEW r \in Heard,
         InFirst(c, r, r.full),
         InSecond(s, r, r.full) \/ r.BO + r.BL <= FirstHalf(r.full)
  PROVE  SubSeq(c \o s, r.BO + 1, r.BO + r.BL) = [i \in 1 .. r.BL |-> Want(r, i)]
<1> DEFINE fh == FirstHalf(r.full)
           w == c \o s
<1>1. /\ r.BO \in Nat /\ r.BL \in Nat /\ r.full \in Nat /\ fh = Len(c)
      /\ Len(c) \in Nat /\ Len(s) \in Nat
  BY LenProperties DEF Heard, InFirst
<1>2. /\ w \in Seq(Block) /\ Len(w) = Len(c) + Len(s)
      /\ \A j \in 1 .. Len(c) : w[j] = c[j]
      /\ \A j \in 1 .. Len(s) : w[Len(c) + j] = s[j]
  BY Joined
<1> HIDE DEF w, fh
<1>3. ASSUME NEW i \in 1 .. r.BL
      PROVE  r.BO + i \in 1 .. Len(w) /\ w[r.BO + i] = Want(r, i)
  <2>2. CASE r.BO + i <= fh
    <3>1. c[r.BO + i] = Want(r, i)
      BY <2>2 DEF InFirst, fh
    <3>2. r.BO + i \in 1 .. Len(c) /\ r.BO + i \in 1 .. Len(w)
      BY <1>1, <1>2, <2>2
    <3> QED BY <3>1, <3>2, <1>2
  <2>3. CASE r.BO + i > fh
    <3>1. InSecond(s, r, r.full)
      BY <1>1, <2>3 DEF fh
    <3>2. r.BO + i - fh <= Len(s) /\ s[r.BO + i - fh] = Want(r, i)
      BY <3>1, <2>3 DEF InSecond, fh
    <3> DEFINE j == r.BO + i - fh
    <3>a. j \in Int /\ j > 0 /\ j <= Len(s) /\ Len(c) + j = r.BO + i
      <4>1. r.BO \in Int /\ fh \in Int /\ i \in Int /\ fh = Len(c)
        BY <1>1
      <4>2. r.BO + i - fh <= Len(s) /\ r.BO + i > fh
        BY <3>2, <2>3
      <4> QED BY <4>1, <4>2
    <3>3. j \in 1 .. Len(s) /\ Len(c) + j = r.BO + i /\ r.BO + i \in 1 .. Len(w)
      <4> HIDE DEF j
      <4> QED BY <3>a, <1>1, <1>2
    <3>4. w[Len(c) + j] = s[j] /\ s[j] = Want(r, i)
      BY <3>2, <3>3, <1>2
    <3> QED BY <3>3, <3>4
  <2> QED BY <2>2, <2>3, <1>1
<1>4. CASE r.BL = 0
  <2>1. SubSeq(w, r.BO + 1, r.BO + r.BL) = <<>>
    BY <1>1, <1>4, SubSeqEmpty
  <2>2. [i \in 1 .. r.BL |-> Want(r, i)] = <<>>
    BY <1>4
  <2> QED BY <2>1, <2>2 DEF w
<1>5. CASE r.BL # 0
  <2> DEFINE a == r.BO + 1
             b == r.BO + r.BL
  <2>1. /\ a \in Nat \ {0} /\ b \in Nat /\ a <= b + 1 /\ b <= Len(w)
        /\ b - a + 1 = r.BL /\ a - 1 = r.BO
    <3>1. r.BL \in 1 .. r.BL
      BY <1>1, <1>5
    <3>2. r.BO + r.BL \in 1 .. Len(w)
      BY <3>1, <1>3
    <3>3. /\ r.BO + r.BL <= Len(w) /\ r.BO \in Nat /\ r.BL \in Nat
      BY <3>2, <1>1
    <3>4. a \in Nat \ {0} /\ b \in Nat /\ a <= b + 1
      BY <3>3
    <3>5. b - a + 1 = r.BL /\ a - 1 = r.BO
      BY <3>3
    <3> QED BY <3>3, <3>4, <3>5
  <2>2. SubSeq(w, a, b) = [i \in 1 .. b - a + 1 |-> w[a - 1 + i]]
    <3> HIDE DEF a, b
    <3> QED BY <2>1, <1>2, Slice
  <2>3. SubSeq(w, a, b) = [i \in 1 .. r.BL |-> w[r.BO + i]]
    BY <2>1, <2>2, Zenon
  <2> QED BY <2>3, <1>3 DEF w
<1> QED BY <1>4, <1>5

-----------------------------------------------------------------------------
(* The steps.                                                               *)

LEMMA InitData == Init => DataInv
<1> SUFFICES ASSUME Init PROVE DataInv
  OBVIOUS
<1> USE DEF Init
<1>1. Zeros(2 * BlkLen) \in Seq(Block)
  <2> DEFINE z(i) == Zero
  <2>1. 2 * BlkLen \in Nat /\ \A i \in 1 .. 2 * BlkLen : z(i) \in Block
    BY AssumptionFacts, ZeroTyped
  <2>2. [i \in 1 .. 2 * BlkLen |-> z(i)] \in Seq(Block)
    BY <2>1, IsASeq
  <2> QED BY <2>2 DEF Zeros
<1>2. data_next_mf \in Seq(Block) /\ cached \in [As -> Seq(Block)]
  BY <1>1
<1>3. /\ cc_pq \in [As -> SUBSET Heard] /\ fl_alloc_queue \in [As -> SUBSET Heard]
      /\ \A a \in As : cc_pq[a] \cup fl_alloc_queue[a] = {}
  OBVIOUS
<1>4. NodesHold /\ WireHolds
  BY DEF NodesHold, WireHolds
<1>5. \A a \in As : StationHolds(a)
  BY <1>2, <1>3 DEF StationHolds
<1>6. RightPiece
  BY DEF RightPiece
<1> QED BY <1>2, <1>3, <1>4, <1>5, <1>6 DEF DataInv

\* Steps that collect: the frame and the stations are left alone.
LEMMA Collecting ==
  ASSUME DataInv, NodesHold', pieces' = {}, UNCHANGED FramesSent,
         UNCHANGED <<data_next_mf, wire, cached, cc_pq, fl_alloc_queue>>
  PROVE  DataInv'
<1> USE DEF DataInv
<1>1. WireHolds'
  BY DEF WireHolds, InFirst, InSecond, FirstOf, CcPdu
<1>2. ASSUME NEW a \in As PROVE StationHolds(a)'
  <2>1. StationHolds(a)
    OBVIOUS
  <2> QED BY <2>1 DEF StationHolds, InFirst, InSecond
<1>3. RightPiece'
  BY DEF RightPiece
<1> QED BY <1>1, <1>2, <1>3

LEMMA SentFacts ==
  ASSUME IInv
  PROVE  FramesSent \in Int /\ mf \in Int /\ armed \in Int /\ Len(assemed) \in Nat
  BY DEF IInv, Typed, InStep, FramesSent

LEMMA NoGrants == NewNode.grants = {} /\ Holds(NewNode)
  BY DEF NewNode, Holds

LEMMA NodeHolds ==
  ASSUME NodesHold
  PROVE  Holds(Node)
  BY NoGrants DEF NodesHold, Node

LEMMA LmeTickData == IInv /\ DataInv /\ LmeTick => DataInv'
<1> SUFFICES ASSUME IInv, DataInv, LmeTick PROVE DataInv'
  OBVIOUS
<1>1. UNCHANGED <<data_next_mf, wire, cached, cc_pq, fl_alloc_queue, assemed>> /\ pieces' = {}
  BY DEF LmeTick, phyVars, asVars
<1>2. UNCHANGED FramesSent
  BY SentFacts, <1>1 DEF LmeTick, FramesSent
<1>3. NodesHold'
  <2>1. NodesHold /\ Holds(Node)
    BY NodeHolds DEF DataInv
  <2>2. asseming' = asseming \/ asseming' = Node
    BY DEF LmeTick
  <2> QED BY <2>1, <2>2, <1>1 DEF NodesHold, Holds
<1> QED BY <1>1, <1>2, <1>3, Collecting

LEMMA CcMsgData ==
  ASSUME NEW m \in Msg, IInv, DataInv, CcMsg(m)
  PROVE  DataInv'
<1>1. UNCHANGED <<data_next_mf, wire, cached, cc_pq, fl_alloc_queue, mf, armed, assemed>>
      /\ pieces' = {}
  BY DEF CcMsg, phyVars, asVars, lmeVars
<1>2. UNCHANGED FramesSent
  BY <1>1 DEF FramesSent
<1>3. NodesHold'
  <2>1. NodesHold /\ Holds(Node) /\ Node \in NodeType
    BY NodeHolds, NodeTyped DEF DataInv, IInv
  <2>2. asseming' = [Node EXCEPT !.msgs = @ \cup {m}]
    BY DEF CcMsg
  <2>3. asseming'.grants = Node.grants /\ asseming'.dch = Node.dch
    BY <2>1, <2>2 DEF NodeType
  <2>4. Holds(asseming')
    BY <2>1, <2>3 DEF Holds
  <2> QED BY <2>1, <2>4, <1>1 DEF NodesHold, Holds
<1> QED BY <1>1, <1>2, <1>3, Collecting

LEMMA SlotDescData == IInv /\ DataInv /\ SlotDesc => DataInv'
<1> SUFFICES ASSUME IInv, DataInv, SlotDesc PROVE DataInv'
  OBVIOUS
<1>1. UNCHANGED <<data_next_mf, wire, cached, cc_pq, fl_alloc_queue, mf, armed, assemed>>
      /\ pieces' = {} /\ asseming' = Node
  BY DEF SlotDesc, phyVars, asVars, lmeVars
<1>2. UNCHANGED FramesSent
  BY <1>1 DEF FramesSent
<1>3. NodesHold'
  BY <1>1, NodeHolds DEF DataInv, NodesHold, Holds
<1> QED BY <1>1, <1>2, <1>3, Collecting

LEMMA CcMacData == IInv /\ DataInv /\ CcMac => DataInv'
<1> SUFFICES ASSUME IInv, DataInv, CcMac PROVE DataInv'
  OBVIOUS
<1>1. UNCHANGED <<data_next_mf, wire, cached, cc_pq, fl_alloc_queue, mf>> /\ pieces' = {}
  BY DEF CcMac, phyVars, asVars, lmeVars
<1>2. Node \in NodeType /\ assemed \in Seq(NodeType) /\ assemed' = Append(assemed, Node)
      /\ asseming' = NoNode /\ armed' = armed - 1
  BY NodeTyped DEF CcMac, IInv, Typed, AfterClosing
<1>3. /\ Len(assemed') = Len(assemed) + 1 /\ Len(assemed) \in Nat
      /\ \A j \in 1 .. Len(assemed) : assemed'[j] = assemed[j]
      /\ assemed'[Len(assemed) + 1] = Node
  BY <1>2, AppendProperties, LenProperties
<1>4. UNCHANGED FramesSent
  <2>1. Len(assemed') = Len(assemed) + 1 /\ armed' = armed - 1 /\ mf' = mf
    BY <1>1, <1>2, <1>3
  <2> QED BY <2>1, SentFacts DEF FramesSent
<1>5. NodesHold'
  <2>1. NodesHold /\ Holds(Node)
    BY NodeHolds DEF DataInv
  <2>2. ASSUME NEW j \in 1 .. Len(assemed') PROVE Holds(assemed'[j])
    <3> DEFINE k == Len(assemed)
    <3>0. Len(assemed') = k + 1 /\ k \in Nat
      BY <1>3
    <3>1. j \in 1 .. k \/ j = k + 1
      <4> HIDE DEF k
      <4> QED BY <3>0
    <3>2. CASE j \in 1 .. k
      BY <2>1, <3>2, <1>3 DEF NodesHold
    <3>3. CASE j = k + 1
      <4>1. assemed'[Len(assemed) + 1] = Node /\ j = Len(assemed) + 1
        BY <1>3, <3>3, Zenon
      <4>2. assemed'[j] = Node
        BY <4>1, Zenon
      <4> QED BY <2>1, <4>2, Zenon
    <3> QED BY <3>1, <3>2, <3>3
  <2> QED BY <2>2, <1>2 DEF NodesHold, Holds
<1> QED BY <1>1, <1>4, <1>5, Collecting

\* M_SAPD appends to the data of the node, so the older grants keep theirs.
LEMMA GrantData == IInv /\ DataInv /\ Grant => DataInv'
<1> SUFFICES ASSUME IInv, DataInv, Grant PROVE DataInv'
  OBVIOUS
<1> DEFINE g == Head(todo)
<1>1. UNCHANGED <<data_next_mf, wire, cached, cc_pq, fl_alloc_queue, mf, armed, assemed>>
      /\ pieces' = {}
  BY DEF Grant, phyVars, asVars
<1>2. UNCHANGED FramesSent
  BY <1>1 DEF FramesSent
<1>3. PICK l \in 0 .. g.bl :
        asseming' = Announce(Put(asseming, Blocks(g.as, l)), FlAlloc(g, l))
  BY DEF Grant
<1>4. g \in [as : As, bl : Nat] /\ BO \in Nat /\ mf \in Nat
  BY HeadTailProperties DEF Grant, IInv, Typed
<1> DEFINE b == Blocks(g.as, l)
           al == FlAlloc(g, l)
<1>5. b \in Seq(Block) /\ Len(b) = l
      /\ \A i \in 1 .. l : b[i] = [mf |-> mf, as |-> g.as, i |-> i]
  BY <1>3, <1>4 DEF Blocks, Block
<1>6. /\ al.mf = mf /\ al.as = g.as /\ al.BO = BO /\ al.BL = g.bl
      /\ al.kept => asseming # NoNode /\ l = g.bl /\ Len(asseming.dch) = BO
  BY DEF FlAlloc
<1>7. NodesHold
  BY DEF DataInv
<1> HIDE DEF b, al, g
<1>8. Holds(asseming')
  <2>1. CASE asseming = NoNode
    <3>1. asseming'.grants = {al}
      BY <2>1, <1>3, NewNodeTyped DEF Announce, Put, NewNode, NodeType, b, al
    <3> QED BY <2>1, <3>1, <1>6 DEF Holds
  <2>2. CASE asseming # NoNode
    <3>1. asseming \in NodeType /\ asseming.dch \in Seq(Block) /\ Holds(asseming)
      BY <2>2, <1>7 DEF IInv, Typed, NodeType, Block, NodesHold
    <3> DEFINE d == asseming.dch
    <3> HIDE DEF d
    <3>2. /\ Len(d) \in Nat /\ d \o b \in Seq(Block) /\ Len(d \o b) = Len(d) + l
          /\ \A j \in 1 .. Len(d) : (d \o b)[j] = d[j]
          /\ \A j \in 1 .. l : (d \o b)[Len(d) + j] = b[j]
      <4>1. d \in Seq(Block)
        BY <3>1 DEF d
      <4> QED BY <4>1, <1>5, Joined
    <3>3. asseming'.grants = asseming.grants \cup {al} /\ asseming'.dch = d \o b
      <4> DEFINE p == [asseming EXCEPT !.dch = @ \o b]
      <4>1. p \in NodeType /\ p.grants = asseming.grants /\ p.dch = d \o b
        BY <3>1, <3>2 DEF NodeType, Block, d
      <4>2. p # NoNode
        BY <4>1, FlAssumption DEF FlAssumption
      <4>3. asseming' = [p EXCEPT !.grants = @ \cup {al}]
        BY <1>3, <2>2, <4>2 DEF Announce, Put, b, al
      <4> HIDE DEF p
      <4> QED BY <4>1, <4>3 DEF NodeType
    <3>4. ASSUME NEW r \in asseming'.grants, r.kept, NEW i \in 1 .. r.BL
          PROVE  r.BO + i <= Len(d \o b) /\ (d \o b)[r.BO + i] = Want(r, i)
      <4>1. CASE r \in asseming.grants
        <5>1. r.BO + i <= Len(d) /\ d[r.BO + i] = Want(r, i)
          BY <3>1, <3>4, <4>1 DEF Holds, d
        <5>2. r.BO \in Nat /\ r.BL \in Nat
          BY <3>1, <4>1 DEF NodeType
        <5>3. r.BO + i \in 1 .. Len(d)
          BY <5>1, <5>2, <3>2
        <5> QED BY <5>1, <5>3, <3>2, <1>3
      <4>2. CASE r = al
        <5>1. r.mf = mf /\ r.as = g.as /\ r.BO = Len(d) /\ r.BL = l
          BY <4>2, <3>4, <1>6 DEF d
        <5>2. i \in 1 .. l /\ b[i] = Want(r, i)
          BY <5>1, <1>5 DEF Want
        <5> QED BY <5>1, <5>2, <3>2
      <4> QED BY <4>1, <4>2, <3>3
    <3> QED BY <3>3, <3>4 DEF Holds
  <2> QED BY <2>1, <2>2
<1>9. NodesHold'
  BY <1>1, <1>7, <1>8 DEF NodesHold, Holds
<1> QED BY <1>1, <1>2, <1>9, Collecting

LEMMA CcThreadData ==
  ASSUME NEW a \in As, DataInv, CcThread(a)
  PROVE  DataInv'
<1> USE DEF DataInv
<1>1. UNCHANGED <<data_next_mf, wire, cached, mf, armed, asseming, assemed>> /\ pieces' = {}
      /\ UNCHANGED FramesSent
  BY DEF CcThread, phyVars, lmeVars, macVars, FramesSent
<1>2. /\ cc_pq' = [cc_pq EXCEPT ![a] = {}]
      /\ fl_alloc_queue' = [fl_alloc_queue EXCEPT ![a] = @ \cup OwnGrants(a)]
  BY DEF CcThread
<1>3. NodesHold' /\ WireHolds'
  BY <1>1 DEF NodesHold, WireHolds, Holds, InFirst, InSecond, FirstOf, CcPdu
<1>4. cc_pq' \in [As -> SUBSET Heard] /\ fl_alloc_queue' \in [As -> SUBSET Heard]
  BY <1>2 DEF OwnGrants
<1>5. ASSUME NEW c \in As PROVE StationHolds(c)'
  <2>1. StationHolds(c)
    OBVIOUS
  <2>2. /\ cc_pq'[c] \cup fl_alloc_queue'[c] \subseteq cc_pq[c] \cup fl_alloc_queue[c]
        /\ \A r \in fl_alloc_queue'[c] : r \in fl_alloc_queue[c] \/ r.as = c
    BY <1>2 DEF OwnGrants
  <2> QED BY <2>1, <2>2, <1>1 DEF StationHolds, InFirst, InSecond
<1>6. RightPiece'
  BY <1>1 DEF RightPiece
<1> QED BY <1>1, <1>3, <1>4, <1>5, <1>6

\* The next frame takes the second half along that belongs to the last one.
LEMMA PhyTickData == IInv /\ DataInv /\ PacketsFit /\ PhyTick => DataInv'
<1> SUFFICES ASSUME IInv, DataInv, PacketsFit, PhyTick PROVE DataInv'
  OBVIOUS
<1>1. /\ UNCHANGED <<mf, armed, asseming, cached, cc_pq, fl_alloc_queue>>
      /\ pieces' = {} /\ wire = NoNode
  BY DEF PhyTick, lmeVars, asVars
<1>2. CASE ~SomethingToSend(assemed)
  <2>1. UNCHANGED <<assemed, wire, data_next_mf>>
    BY <1>2 DEF PhyTick
  <2>2. UNCHANGED FramesSent
    BY <1>1, <2>1 DEF FramesSent
  <2>3. NodesHold'
    BY <1>1, <2>1 DEF DataInv, NodesHold, Holds
  <2> QED BY <1>1, <2>1, <2>2, <2>3, Collecting
<1>3. CASE SomethingToSend(assemed)
  <2> DEFINE n == Head(assemed)
  <2>1. /\ assemed' = Tail(assemed) /\ wire' = FrameOf(n) /\ data_next_mf' = NextHalf(n)
        /\ assemed \in Seq(NodeType) /\ assemed # <<>>
    BY <1>3 DEF PhyTick, Transmit, SomethingToSend, IInv, Typed
  <2>2. /\ n = assemed[1] /\ n \in NodeType /\ Len(assemed) \in Nat /\ Len(assemed) >= 1
        /\ Len(assemed') = Len(assemed) - 1
        /\ \A j \in 1 .. Len(assemed') : assemed'[j] = assemed[j + 1]
    BY <2>1, HeadTailProperties, LenProperties, EmptySeq
  <2>3. FramesSent' = FramesSent + 1 /\ FramesSent \in Int
    <3>1. Len(assemed') = Len(assemed) - 1 /\ Len(assemed) \in Int
      BY <2>2
    <3> QED BY <3>1, <1>1, SentFacts DEF FramesSent
  <2> HIDE DEF n
  <2>4. NodesHold /\ Holds(n)
    BY <2>2 DEF DataInv, NodesHold
  <2>5. NodesHold'
    <3>1. ASSUME NEW j \in 1 .. Len(assemed') PROVE Holds(assemed'[j])
      <4>1. j + 1 \in 1 .. Len(assemed)
        BY <2>2
      <4>2. Holds(assemed[j + 1])
        BY <4>1, <2>4 DEF NodesHold
      <4> QED BY <4>2, <2>2
    <3> QED BY <3>1, <2>4, <1>1 DEF NodesHold, Holds
  <2>6. /\ wire'.no = FramesSent + 1 /\ wire'.full = CCL(n) /\ wire'.grants = n.grants
        /\ wire'.slots1_12 = data_next_mf
    BY <2>1 DEF FrameOf
  <2>7. data_next_mf \in Seq(Block) /\ cached \in [As -> Seq(Block)]
    BY DEF DataInv
  <2>10. /\ CCL(n) \in 1 .. Blk0Max + 1
         /\ \A g \in n.grants : g.BO + g.BL <= FirstHalf(CCL(n)) + 2 * BlkLen
    BY <2>2 DEF PacketsFit
  <2>11. /\ FirstOf(wire') \in Seq(Block) /\ data_next_mf' \in Seq(Block)
         /\ \A g \in wire'.grants : g.kept =>
               /\ wire'.CCL = wire'.full => InFirst(FirstOf(wire'), g, wire'.full)
               /\ InSecond(data_next_mf', g, wire'.full)
    BY <2>1, <2>2, <2>4, <2>6, <2>7, <2>10, FrameHolds
  \* A frame is no null, but nothing in the argument turns on it.
  <2>8. CASE wire' = NoNode
    <3>2. WireHolds'
      BY <2>8 DEF WireHolds
    <3>3. ASSUME NEW a \in As PROVE StationHolds(a)'
      <4>1. StationHolds(a) /\ wire = NoNode
        BY <1>1 DEF DataInv
      <4>2. \A r \in cc_pq[a] \cup fl_alloc_queue[a] : r.kept =>
               r.no <= FramesSent' /\ r.no # FramesSent'
        <5> SUFFICES ASSUME NEW r \in cc_pq[a] \cup fl_alloc_queue[a], r.kept
                     PROVE  r.no <= FramesSent' /\ r.no # FramesSent'
          OBVIOUS
        <5>1. r.no <= FramesSent /\ r.no \in Int
          BY <4>1 DEF StationHolds, Heard
        <5> QED BY <5>1, <2>3
      <4> QED BY <4>1, <4>2, <1>1, <2>8 DEF StationHolds, InFirst
    <3> QED BY <2>11, <3>2, <3>3, <2>5, <1>1 DEF DataInv, RightPiece
  <2>9. CASE wire' # NoNode
    <3>3. n.grants \subseteq Alloc /\ CCL(n) \in Nat
      <4>1. n.grants \subseteq Alloc
        BY <2>2 DEF NodeType, Alloc
      <4>2. CCL(n) \in 1 .. Blk0Max + 1 /\ Blk0Max \in Nat
        BY <2>10, AssumptionFacts
      <4> QED BY <4>1, <4>2
    <3>4. WireHolds'
      BY <2>11, <3>3, <2>3, <2>6, <2>7 DEF WireHolds, FirstOf, CcPdu, InFirst, InSecond
    <3>5. ASSUME NEW a \in As PROVE StationHolds(a)'
      <4>1. StationHolds(a) /\ wire = NoNode
        BY <1>1 DEF DataInv
      <4>2. \A r \in cc_pq[a] \cup fl_alloc_queue[a] : r.kept =>
               /\ r.no < FramesSent'
               /\ r.no = FramesSent' - 1 => InSecond(wire'.slots1_12, r, r.full)
        <5> SUFFICES ASSUME NEW r \in cc_pq[a] \cup fl_alloc_queue[a], r.kept
                     PROVE  /\ r.no < FramesSent'
                            /\ r.no = FramesSent' - 1 => InSecond(wire'.slots1_12, r, r.full)
          OBVIOUS
        <5>1. r.no <= FramesSent /\ r.no \in Int
              /\ (r.no = FramesSent => InSecond(data_next_mf, r, r.full))
          BY <4>1 DEF StationHolds, Heard
        <5>2. r.no < FramesSent' /\ (r.no = FramesSent' - 1 => r.no = FramesSent)
          BY <5>1, <2>3
        <5> QED BY <5>1, <5>2, <2>6
      <4>3. /\ cached' = cached /\ cc_pq' = cc_pq /\ fl_alloc_queue' = fl_alloc_queue
        BY <1>1
      <4>4. \A r \in cc_pq[a] \cup fl_alloc_queue[a] : r.kept => InFirst(cached[a], r, r.full)
        BY <4>1 DEF StationHolds
      <4> QED BY <4>1, <4>2, <4>3, <4>4, <2>9 DEF StationHolds, InFirst, InSecond
    <3> QED BY <2>11, <3>4, <3>5, <2>5, <1>1 DEF DataInv, RightPiece
  <2> QED BY <2>8, <2>9
<1> QED BY <1>2, <1>3

\* The halves a station puts together are those of one packet, or the grant lies in
\* the first.
LEMMA RecvFrameData ==
  ASSUME NEW heard \in SUBSET As, NEW verified \in SUBSET As,
         IInv, DataInv, RecvFrame(heard, verified)
  PROVE  DataInv'
<1>1. /\ UNCHANGED <<mf, armed, asseming, assemed, data_next_mf>>
      /\ wire # NoNode /\ wire' = NoNode
      /\ pieces' = UNION {PiecesOf(a, wire) : a \in heard}
      /\ fl_alloc_queue' = [a \in As |-> IF a \in heard THEN {} ELSE fl_alloc_queue[a]]
      /\ cc_pq' = [a \in As |-> IF a \in heard THEN AllocsHeard(wire, a \in verified) ELSE {}]
      /\ cached' = [a \in As |-> IF a \in heard THEN FirstOf(wire) ELSE cached[a]]
      /\ \A a \in As : cc_pq[a] = {}
  BY DEF RecvFrame, lmeVars, macVars
<1>2. FramesSent' = FramesSent /\ FramesSent \in Int
  BY <1>1, SentFacts DEF FramesSent
<1>3. NodesHold' /\ WireHolds'
  BY <1>1 DEF DataInv, NodesHold, Holds, WireHolds
<1>4. /\ wire.no = FramesSent /\ wire.full \in Nat /\ wire.grants \subseteq Alloc
      /\ wire.slots1_12 \in Seq(Block) /\ FirstOf(wire) \in Seq(Block)
      /\ \A g \in wire.grants : g.kept =>
            /\ wire.CCL = wire.full => InFirst(FirstOf(wire), g, wire.full)
            /\ InSecond(data_next_mf, g, wire.full)
  BY <1>1 DEF DataInv, WireHolds
<1>5. ASSUME NEW c \in As, NEW r \in AllocsHeard(wire, c \in verified)
      PROVE  /\ r \in Heard /\ r.no = FramesSent
             /\ r.kept => InFirst(FirstOf(wire), r, r.full) /\ InSecond(data_next_mf, r, r.full)
  <2>1. wire.CCL = wire.full
    BY <1>5 DEF AllocsHeard, CcPdu
  <2>2. PICK g \in wire.grants :
          r = [mf |-> g.mf, as |-> g.as, BO |-> g.BO, BL |-> g.BL, kept |-> g.kept,
               no |-> wire.no, full |-> wire.full]
    BY <1>5 DEF AllocsHeard
  <2>3. g \in Alloc
    BY <1>4
  <2>4. r \in Heard /\ r.no = FramesSent
    BY <2>2, <2>3, <1>2, <1>4 DEF Alloc, Heard
  <2>5. /\ r.full = wire.full /\ r.kept = g.kept /\ r.BO = g.BO /\ r.BL = g.BL
        /\ \A i : Want(r, i) = Want(g, i)
    BY <2>2 DEF Want
  <2>6. r.kept => InFirst(FirstOf(wire), g, wire.full) /\ InSecond(data_next_mf, g, wire.full)
    BY <1>4, <2>1, <2>5
  <2> QED BY <2>4, <2>5, <2>6 DEF InFirst, InSecond
<1>6. cached' \in [As -> Seq(Block)] /\ data_next_mf' \in Seq(Block)
  BY <1>1, <1>4 DEF DataInv
<1>7. cc_pq' \in [As -> SUBSET Heard] /\ fl_alloc_queue' \in [As -> SUBSET Heard]
  <2>2. \A a \in As : AllocsHeard(wire, a \in verified) \in SUBSET Heard
    BY <1>5
  <2>3. fl_alloc_queue \in [As -> SUBSET Heard]
    BY DEF DataInv
  <2> QED BY <1>1, <2>2, <2>3
<1>8. ASSUME NEW a \in As PROVE StationHolds(a)'
  <2>1. CASE a \in heard
    <3>1. /\ cached'[a] = FirstOf(wire) /\ fl_alloc_queue'[a] = {}
          /\ cc_pq'[a] = AllocsHeard(wire, a \in verified)
      BY <1>1, <2>1
    <3>2. \A r \in cc_pq'[a] : /\ r \in Heard /\ r.no = FramesSent
                               /\ r.kept => /\ InFirst(FirstOf(wire), r, r.full)
                                            /\ InSecond(data_next_mf, r, r.full)
      BY <3>1, <1>5
    <3> QED BY <3>1, <3>2, <1>1, <1>2, <1>4 DEF StationHolds, InFirst, InSecond
  <2>2. CASE a \notin heard
    <3>1. cached'[a] = cached[a] /\ fl_alloc_queue'[a] = fl_alloc_queue[a] /\ cc_pq'[a] = {}
      BY <1>1, <2>2
    <3>2. StationHolds(a)
      BY DEF DataInv
    <3>3. \A r \in fl_alloc_queue[a] : r \in Heard /\ (r.kept => r.no < FramesSent)
      BY <3>2, <1>1 DEF StationHolds
    <3>4. \A r \in fl_alloc_queue[a] : r.kept => r.no <= FramesSent /\ r.no # FramesSent
      <4> SUFFICES ASSUME NEW r \in fl_alloc_queue[a], r.kept
                   PROVE  r.no <= FramesSent /\ r.no # FramesSent
        OBVIOUS
      <4>1. r.no \in Int /\ r.no < FramesSent
        BY <3>3 DEF Heard
      <4> QED BY <4>1, <1>2
    <3> QED BY <3>1, <3>2, <3>4, <1>1, <1>2 DEF StationHolds, InFirst
  <2> QED BY <2>1, <2>2
<1>9. RightPiece'
  <2> SUFFICES ASSUME NEW p \in pieces', p.rec.kept,
                      p.no = p.rec.no + 1 \/ p.rec.BO + p.rec.BL <= FirstHalf(p.rec.full)
               PROVE  p.data = [i \in 1 .. p.rec.BL |->
                                  [mf |-> p.rec.mf, as |-> p.as, i |-> i]]
    BY DEF RightPiece, FirstHalf, Blk0Len
  <2>1. PICK a \in heard : p \in PiecesOf(a, wire)
    BY <1>1
  <2>2. PICK r \in fl_alloc_queue[a] :
          p = [as |-> a, rec |-> r, no |-> wire.no,
               data |-> SubSeq(Completed(a, wire), r.BO + 1, r.BO + r.BL)]
    BY <2>1 DEF PiecesOf
  <2>3. /\ p.as = a /\ p.rec = r /\ p.no = wire.no
        /\ p.data = SubSeq(cached[a] \o wire.slots1_12, r.BO + 1, r.BO + r.BL)
    BY <2>2 DEF Completed
  <2>4. StationHolds(a) /\ a \in As
    BY DEF DataInv
  <2>5. /\ r \in Heard /\ r.as = a /\ cached[a] \in Seq(Block)
        /\ InFirst(cached[a], r, r.full) /\ r.no < FramesSent
        /\ r.no = FramesSent - 1 => InSecond(wire.slots1_12, r, r.full)
    BY <2>3, <2>4, <1>1 DEF StationHolds
  <2>6. wire.no = r.no + 1 => InSecond(wire.slots1_12, r, r.full)
    <3>1. r.no \in Int /\ wire.no = FramesSent
      BY <2>5, <1>4 DEF Heard
    <3>2. wire.no = r.no + 1 => r.no = FramesSent - 1
      BY <3>1, <1>2
    <3> QED BY <3>2, <2>5
  <2>7. InSecond(wire.slots1_12, r, r.full) \/ r.BO + r.BL <= FirstHalf(r.full)
    BY <2>3, <2>6
  <2>8. p.data = [i \in 1 .. r.BL |-> Want(r, i)]
    BY <2>3, <2>5, <2>7, <1>4, PieceHolds
  <2> QED BY <2>3, <2>5, <2>8 DEF Want
<1> QED BY <1>3, <1>6, <1>7, <1>8, <1>9 DEF DataInv

LEMMA StepData == IInv /\ DataInv /\ PacketsFit /\ [Next]_vars => DataInv'
<1> SUFFICES ASSUME IInv, DataInv, PacketsFit, [Next]_vars PROVE DataInv'
  OBVIOUS
<1>1. CASE LmeTick
  BY <1>1, LmeTickData
<1>2. CASE Grant
  BY <1>2, GrantData
<1>3. CASE SlotDesc \/ CcMac
  BY <1>3, SlotDescData, CcMacData
<1>4. CASE PhyTick
  BY <1>4, PhyTickData
<1>5. ASSUME NEW m \in Msg, CcMsg(m)
      PROVE  DataInv'
  BY <1>5, CcMsgData
<1>6. ASSUME NEW missed \in SUBSET Deaf, NEW unverified \in SUBSET Deaf,
             RecvFrame(As \ missed, As \ unverified)
      PROVE  DataInv'
  <2>1. As \ missed \in SUBSET As /\ As \ unverified \in SUBSET As
    OBVIOUS
  <2> QED BY <1>6, <2>1, RecvFrameData
<1>7. ASSUME NEW a \in As, CcThread(a)
      PROVE  DataInv'
  BY <1>7, CcThreadData
<1>8. CASE UNCHANGED vars
  <2>1. UNCHANGED <<mf, armed, asseming, assemed, data_next_mf, wire, cached, cc_pq,
                    fl_alloc_queue, pieces>>
    BY <1>8 DEF vars, lmeVars, macVars, phyVars, asVars
  <2>2. NodesHold' /\ WireHolds' /\ RightPiece'
    BY <2>1 DEF DataInv, NodesHold, Holds, WireHolds, RightPiece, InFirst, InSecond, FirstOf,
                CcPdu, FramesSent, FirstHalf, Blk0Len
  <2>3. ASSUME NEW a \in As PROVE StationHolds(a)'
    <3>1. StationHolds(a) /\ UNCHANGED FramesSent
      BY <2>1 DEF DataInv, FramesSent
    <3> QED BY <3>1, <2>1 DEF StationHolds, InFirst, InSecond
  <2> QED BY <2>1, <2>2, <2>3 DEF DataInv
<1> QED BY <1>1, <1>2, <1>3, <1>4, <1>5, <1>6, <1>7, <1>8 DEF Next

\* What a station hands up under a grant is the data put for it, whatever the lengths
\* of the CC slots and the other grants: as long as the messages leave the CC slot
\* within slots 13 to 21 and no grant reaches beyond the data of its packet
\* (combine_cc_data, upward_FL_CC_DCH_j, PHY_DATA_IND).
THEOREM WholePieces == Spec /\ []PacketsFit => []RightPiece
<1>1. DataInv => RightPiece
  BY DEF DataInv
<1> QED BY <1>1, InitData, StepData, Invariance, PTL DEF Spec

-----------------------------------------------------------------------------
(* The sizes.                                                               *)

Sizes ==
    /\ mf <= MfMax
    /\ Len(data_next_mf) = 2 * BlkLen
    /\ wire # NoNode => Len(wire.slots13_21) = Blk0Max + 1 /\ Len(wire.slots22_27) = BlkLen

LEMMA InitSizes == Init => Sizes
<1>1. ASSUME NEW l \in Nat PROVE Len(Zeros(l)) = l
  BY DEF Zeros
<1>2. 2 * BlkLen \in Nat /\ MfMax \in Nat
  BY FlAssumption DEF FlAssumption
<1> QED BY <1>1, <1>2 DEF Init, Sizes

LEMMA StepSizes == IInv /\ DataInv /\ PacketsFit /\ Sizes /\ [Next]_vars => Sizes'
<1> SUFFICES ASSUME IInv, DataInv, PacketsFit, Sizes, [Next]_vars PROVE Sizes'
  OBVIOUS
<1>1. CASE UNCHANGED <<mf, data_next_mf, wire>>
  BY <1>1 DEF Sizes
<1>2. CASE LmeTick
  <2>1. mf' <= MfMax
    BY <1>2, SentFacts, FlAssumption DEF LmeTick, FlAssumption
  <2> QED BY <1>2, <2>1 DEF LmeTick, phyVars, Sizes
<1>3. CASE PhyTick
  <2>1. CASE ~SomethingToSend(assemed)
    BY <1>1, <1>3, <2>1 DEF PhyTick, lmeVars
  <2>2. CASE SomethingToSend(assemed)
    <3> DEFINE n == Head(assemed)
    <3>1. /\ wire' = FrameOf(n) /\ data_next_mf' = NextHalf(n) /\ mf' = mf
          /\ assemed \in Seq(NodeType) /\ assemed # <<>>
      BY <1>3, <2>2 DEF PhyTick, Transmit, SomethingToSend, lmeVars, IInv, Typed
    <3>2. n = assemed[1] /\ n \in NodeType /\ 1 \in 1 .. Len(assemed)
      BY <3>1, HeadTailProperties, LenProperties, EmptySeq
    <3> HIDE DEF n
    <3>3. Holds(n) /\ data_next_mf \in Seq(Block)
      BY <3>2 DEF DataInv, NodesHold
    <3>4. /\ CCL(n) \in 1 .. Blk0Max + 1
          /\ \A g \in n.grants : g.BO + g.BL <= FirstHalf(CCL(n)) + 2 * BlkLen
      BY <3>2 DEF PacketsFit
    <3>5. /\ Len(data_next_mf') = 2 * BlkLen
          /\ Len(wire'.slots13_21) = Blk0Max + 1 /\ Len(wire'.slots22_27) = BlkLen
      BY <3>1, <3>2, <3>3, <3>4, FrameHolds
    <3> QED BY <3>1, <3>5 DEF Sizes
  <2> QED BY <2>1, <2>2
<1>4. CASE Grant \/ SlotDesc \/ CcMac
  BY <1>1, <1>4 DEF Grant, SlotDesc, CcMac, phyVars, lmeVars
<1>5. ASSUME NEW m \in Msg, CcMsg(m)
      PROVE  Sizes'
  BY <1>1, <1>5 DEF CcMsg, phyVars, lmeVars
<1>6. ASSUME NEW missed \in SUBSET Deaf, NEW unverified \in SUBSET Deaf,
             RecvFrame(As \ missed, As \ unverified)
      PROVE  Sizes'
  BY <1>6 DEF RecvFrame, lmeVars, Sizes
<1>7. ASSUME NEW a \in As, CcThread(a)
      PROVE  Sizes'
  BY <1>1, <1>7 DEF CcThread, phyVars, lmeVars
<1>8. CASE UNCHANGED vars
  BY <1>1, <1>8 DEF vars, phyVars, lmeVars
<1> QED BY <1>2, <1>3, <1>4, <1>5, <1>6, <1>7, <1>8 DEF Next

\* A frame fills its slots whatever the length of the CC slot, the ticks keep step,
\* and at most three packets wait (generate_data_pkt, combine_cc_data).
THEOREM TypeCorrect == Spec /\ []PacketsFit => []TypeOK
<1>1. IInv /\ Sizes => TypeOK
  <2> SUFFICES ASSUME IInv, Sizes PROVE TypeOK
    OBVIOUS
  <2>1. /\ mf \in 0 .. MfMax /\ tick \in {mf - 1, mf} /\ BO \in Nat
        /\ armed \in 0 .. 2 /\ (closing => armed > 0)
    BY FlAssumption DEF IInv, Typed, InStep, Sizes, FlAssumption
  <2>2. Len(assemed) <= 3
    <3>1. FramesSent >= tick - 2 /\ (tick = mf \/ tick = mf - 1)
      BY DEF IInv, InStep
    <3>2. armed >= 0
      BY DEF IInv, InStep
    <3> QED BY <3>1, <3>2, SentFacts DEF FramesSent
  <2> QED BY <2>1, <2>2 DEF TypeOK, Sizes
<1> QED BY <1>1, InitIInv, StepIInv, InitData, StepData, InitSizes, StepSizes, PTL DEF Spec
===============================================================================
