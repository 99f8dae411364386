--------------------------- MODULE Receiver_proofs ---------------------------
(* Proofs about Receiver, for every pair of channels, any number of HO_COMs    *)
(* and any length of queues and socket buffers.                                *)
EXTENDS Receiver, FiniteSetTheorems, SequenceTheorems, TLAPS

Rdr == [sock : Chan, pdu : Cell \cup {None}]

\* The variables of the devices keep their types.
DevTyped ==
    /\ freq_table \in [Dev -> SUBSET Chan]
    /\ chan \in [Dev -> Chan \cup {None}]
    /\ sockq \in [Dev -> 0 .. SockMax]
    /\ readers \in [Dev -> Seq(Rdr)]
    /\ msg_queue \in [Dev -> Seq(Cell)]
    /\ owed \in [Dev -> Int]

\* A device with a thread has a socket, only that of a cell's channel buffers, and a
\* thread has nothing in its hands or a datagram of its socket.
Sane(d) ==
    /\ readers[d] # <<>> => chan[d] \in Chan
    /\ sockq[d] > 0 => chan[d] \in Cell
    /\ \A r \in 1 .. Len(readers[d]) : readers[d][r].pdu \in {None, readers[d][r].sock}

\* Datagrams of channels the device has left: those that are queued, and one for each
\* thread at a socket that is closed.
StaleMsgs(d) == {i \in 1 .. Len(msg_queue[d]) : msg_queue[d][i] # chan[d]}
StaleReaders(d) == {r \in 1 .. Len(readers[d]) : readers[d][r].sock # chan[d]}

Owes(d) == Cardinality(StaleMsgs(d)) + Cardinality(StaleReaders(d)) <= owed[d]

DevInv == DevTyped /\ \A d \in Dev : Sane(d) /\ Owes(d)

\* A broadcast waits for its super frame only while no other is assembled.
CellInv ==
    /\ bc_curr \in [Cell -> BOOLEAN] /\ bc_assem \in [Cell -> 0 .. 1]
    /\ \A c \in Cell : bc_curr[c] => bc_assem[c] = 0

\* The rest of the station.
MacInv ==
    /\ last \in Cell \cup {None}
    /\ mac \in {"FSCANNING", "CSCANNING", "OPEN", "HO2"}
    /\ sib \in BOOLEAN /\ need_sync \in BOOLEAN /\ synced \in Cell \cup {None}
    /\ cc \in {"idle", "dls", "phy", "sync"} /\ commands \in 0 .. MaxCom

\* Where the handling of HO_COMs stands.
ComInv ==
    /\ cc # "idle" => commands > 0 /\ mac \in {"OPEN", "HO2"}
    /\ cc \in {"phy", "sync"} => mac = "OPEN"
    /\ cc = "idle" => (commands > 0 <=> mac = "HO2")
    /\ mac = "HO2" => commands > 0
    /\ mac = "OPEN" => commands <= 1

\* How often the DLS was tuned by a HO_COM.
DlsMoves == IF cc = "dls" THEN commands - 1 ELSE commands

\* The channels taken, and the one each device is tuned to.
FreqInv ==
    /\ freq_table["dls"] = {Old} \cup New .. New + DlsMoves - 1
    /\ chan["dls"] = IF DlsMoves = 0 THEN Old ELSE New + DlsMoves - 1
    /\ mac = "FSCANNING" => freq_table["phy"] = {} /\ chan["phy"] = None
    /\ mac \in {"CSCANNING", "OPEN"} /\ cc # "sync" =>
          freq_table["phy"] = {Old} /\ chan["phy"] = Old
    /\ mac = "HO2" \/ cc = "sync" =>
          freq_table["phy"] = {Old, New} /\ chan["phy"] = New

\* The inductive invariant.
IInv == DevInv /\ CellInv /\ MacInv /\ ComInv /\ FreqInv

-----------------------------------------------------------------------------
(* Counting.                                                                *)

LEMMA StaleFinite ==
  ASSUME DevTyped, NEW d \in Dev
  PROVE  /\ Len(msg_queue[d]) \in Nat /\ Len(readers[d]) \in Nat
         /\ IsFiniteSet(StaleMsgs(d)) /\ Cardinality(StaleMsgs(d)) \in Nat
         /\ Cardinality(StaleMsgs(d)) <= Len(msg_queue[d])
         /\ IsFiniteSet(StaleReaders(d)) /\ Cardinality(StaleReaders(d)) \in Nat
         /\ Cardinality(StaleReaders(d)) <= Len(readers[d])
<1>1. msg_queue[d] \in Seq(Cell) /\ readers[d] \in Seq(Rdr)
  BY DEF DevTyped
<1>2. Len(msg_queue[d]) \in Nat /\ Len(readers[d]) \in Nat
  BY <1>1, LenProperties
<1>3. \A n \in Nat : IsFiniteSet(1 .. n) /\ Cardinality(1 .. n) = n
  BY FS_Interval
<1>4. StaleMsgs(d) \subseteq 1 .. Len(msg_queue[d]) /\ StaleReaders(d) \subseteq 1 .. Len(readers[d])
  BY DEF StaleMsgs, StaleReaders
<1>5. IsFiniteSet(StaleMsgs(d)) /\ Cardinality(StaleMsgs(d)) <= Len(msg_queue[d])
  BY <1>2, <1>3, <1>4, FS_Subset
<1>6. IsFiniteSet(StaleReaders(d)) /\ Cardinality(StaleReaders(d)) <= Len(readers[d])
  BY <1>2, <1>3, <1>4, FS_Subset
<1> QED BY <1>2, <1>5, <1>6, FS_CardinalityType

\* A set that is another one shifted by one has no more members.
LEMMA Shifted ==
  ASSUME NEW S \in SUBSET Int, NEW T \in SUBSET Int, IsFiniteSet(T),
         \A i \in S : i + 1 \in T
  PROVE  Cardinality(S) \in Nat /\ Cardinality(S) <= Cardinality(T)
<1> DEFINE f == [i \in S |-> i + 1]
<1>1. f \in [S -> T]
  OBVIOUS
<1>2. \A i, j \in S : f[i] = f[j] => i = j
  OBVIOUS
<1>3. f \in Injection(S, T)
  BY <1>1, <1>2 DEF Injection, IsInjective
<1> HIDE DEF f
<1>4. IsFiniteSet(S) /\ Cardinality(S) <= Cardinality(T)
  BY <1>3, FS_Injection
<1> QED BY <1>4, FS_CardinalityType

\* A step that leaves a device alone, or only has its threads take datagrams.
LEMMA SameDevice ==
  ASSUME DevTyped, DevTyped', NEW d \in Dev, Owes(d),
         chan'[d] = chan[d], msg_queue'[d] = msg_queue[d], owed'[d] = owed[d],
         Len(readers'[d]) = Len(readers[d]),
         \A r \in 1 .. Len(readers[d]) : readers'[d][r].sock = readers[d][r].sock
  PROVE  Owes(d)'
<1>1. StaleMsgs(d)' = StaleMsgs(d) /\ StaleReaders(d)' = StaleReaders(d)
  BY DEF StaleMsgs, StaleReaders
<1> QED BY <1>1 DEF Owes

LEMMA UnmovedDevices ==
  ASSUME DevInv, UNCHANGED <<devVars, msg_queue, owed>>
  PROVE  DevInv'
<1> USE DEF DevInv, devVars
<1>1. DevTyped'
  BY DEF DevTyped
<1>2. ASSUME NEW d \in Dev PROVE Sane(d)' /\ Owes(d)'
  BY DEF Sane, Owes, StaleMsgs, StaleReaders
<1> QED BY <1>1, <1>2

-----------------------------------------------------------------------------
(* The devices.                                                             *)

LEMMA ArriveKeeps ==
  ASSUME DevInv, NEW d \in Dev, NEW c \in Cell, Arrive(d, c),
         UNCHANGED <<freq_table, chan, msg_queue, owed>>
  PROVE  DevInv'
<1> USE DEF DevInv
<1>0. Cell \subseteq Chan /\ None \notin Chan
  BY ReceiverAssumption DEF ReceiverAssumption, Cell, Chan, None
<1>1. CASE Waiting(d, c) # {}
  <2>1. PICK r \in Waiting(d, c) : readers' = [readers EXCEPT ![d][r].pdu = c] /\ sockq' = sockq
    BY <1>1 DEF Arrive
  <2>2. readers[d] \in Seq(Rdr) /\ r \in 1 .. Len(readers[d]) /\ readers[d][r] = Reader(c)
    BY <2>1, LenProperties DEF Waiting, DevTyped
  <2>3. readers[d][r].sock = c
    BY <2>2 DEF Reader
  <2> DEFINE e == [readers[d][r] EXCEPT !.pdu = c]
  <2>4. e \in Rdr /\ e.sock = c /\ e.pdu = c
    BY <2>2, <1>0, ElementOfSeq DEF Rdr, Reader
  <2> DEFINE s == [readers[d] EXCEPT ![r] = e]
  <2>5. /\ s \in Seq(Rdr) /\ Len(s) = Len(readers[d])
        /\ \A j \in 1 .. Len(readers[d]) : s[j] = IF j = r THEN e ELSE readers[d][j]
    <3> HIDE DEF e
    <3> QED BY <2>2, <2>4, ExceptSeq
  <2>6. readers' = [readers EXCEPT ![d] = s]
    BY <2>1
  <2> HIDE DEF e, s
  <2>7. readers'[d] = s /\ \A x \in Dev : x # d => readers'[x] = readers[x]
    BY <2>6 DEF DevTyped
  <2>8. DevTyped'
    BY <2>1, <2>5, <2>6 DEF DevTyped
  <2>9. ASSUME NEW x \in Dev PROVE Owes(x)'
    <3>1. CASE x = d
      BY <3>1, <2>3, <2>4, <2>5, <2>7, <2>8, SameDevice
    <3>2. CASE x # d
      BY <3>2, <2>7, <2>8, SameDevice
    <3> QED BY <3>1, <3>2
  <2>10. ASSUME NEW x \in Dev PROVE Sane(x)'
    <3>1. CASE x = d
      <4>1. s # <<>> => readers[d] # <<>>
        BY <2>2, <2>5
      <4>2. \A j \in 1 .. Len(s) : s[j].pdu \in {None, s[j].sock}
        BY <2>4, <2>5 DEF Sane
      <4>3. readers'[d] = s /\ chan' = chan /\ sockq' = sockq
        BY <2>1, <2>7
      <4> QED BY <3>1, <4>1, <4>2, <4>3 DEF Sane
    <3>2. CASE x # d
      BY <3>2, <2>1, <2>7 DEF Sane
    <3> QED BY <3>1, <3>2
  <2> QED BY <2>8, <2>9, <2>10
<1>2. CASE Waiting(d, c) = {}
  <2> DEFINE n == IF chan[d] = c /\ sockq[d] < SockMax THEN sockq[d] + 1 ELSE sockq[d]
  <2>1. sockq' = [sockq EXCEPT ![d] = n] /\ readers' = readers
    BY <1>2 DEF Arrive
  <2>2. n \in 0 .. SockMax /\ (n > 0 => chan[d] \in Cell)
    BY ReceiverAssumption DEF DevTyped, Sane, ReceiverAssumption
  <2> HIDE DEF n
  <2>3. DevTyped'
    BY <2>1, <2>2 DEF DevTyped
  <2>4. ASSUME NEW x \in Dev PROVE Owes(x)'
    BY <2>1, <2>3, SameDevice
  <2>5. ASSUME NEW x \in Dev PROVE Sane(x)'
    BY <2>1, <2>2 DEF Sane, DevTyped
  <2> QED BY <2>3, <2>4, <2>5
<1> QED BY <1>1, <1>2

LEMMA PutKeeps ==
  ASSUME DevInv, NEW d \in Dev, NEW r \in DOMAIN readers[d], Put(d, r)
  PROVE  DevInv'
<1> USE DEF DevInv
<1>0. Cell \subseteq Chan /\ None \notin Chan
  BY ReceiverAssumption DEF ReceiverAssumption, Cell, Chan, None
<1>1. readers[d] \in Seq(Rdr) /\ r \in 1 .. Len(readers[d]) /\ readers[d] # <<>>
  BY LenProperties, EmptySeq DEF DevTyped
<1> DEFINE old == readers[d][r]
           more == sockq[d] > 0
           e == [sock |-> chan[d], pdu |-> IF more THEN chan[d] ELSE None]
           s == [readers[d] EXCEPT ![r] = e]
           q == Append(msg_queue[d], old.pdu)
           k == Len(msg_queue[d])
<1>2. /\ old \in Rdr /\ old.pdu # None /\ old.pdu = old.sock /\ old.pdu \in Cell
      /\ chan[d] \in Chan
  <2>1. old \in Rdr
    BY <1>1, ElementOfSeq
  <2>2. old.pdu # None
    BY DEF Put
  <2> QED BY <2>1, <2>2, <1>1 DEF Sane, Rdr
<1>3. /\ msg_queue' = [msg_queue EXCEPT ![d] = q]
      /\ readers' = [readers EXCEPT ![d] = s]
      /\ sockq' = IF more THEN [sockq EXCEPT ![d] = @ - 1] ELSE sockq
      /\ UNCHANGED <<freq_table, chan, owed>>
  <2>1. /\ readers' = [readers EXCEPT ![d][r] = e]
        /\ sockq' = IF more THEN [sockq EXCEPT ![d] = @ - 1] ELSE sockq
    BY DEF Put, NextSock
  <2> QED BY <2>1 DEF Put
<1>4. e \in Rdr /\ e.pdu \in {None, e.sock} /\ e.sock = chan[d]
  BY <1>0, <1>2 DEF Rdr, Sane
<1>5. /\ s \in Seq(Rdr) /\ Len(s) = Len(readers[d])
      /\ \A j \in 1 .. Len(readers[d]) : s[j] = IF j = r THEN e ELSE readers[d][j]
  <2> HIDE DEF e
  <2> QED BY <1>1, <1>4, ExceptSeq
<1>6. /\ k \in Nat /\ q \in Seq(Cell) /\ Len(q) = k + 1 /\ q[k + 1] = old.pdu
      /\ \A i \in 1 .. k : q[i] = msg_queue[d][i]
  BY <1>2 DEF DevTyped
<1>e. e.sock = chan[d]
  BY <1>4
<1> HIDE DEF e, s, q, more, old
<1>7. /\ readers'[d] = s /\ msg_queue'[d] = q
      /\ \A x \in Dev : x # d => readers'[x] = readers[x] /\ msg_queue'[x] = msg_queue[x]
  BY <1>3 DEF DevTyped
<1>8. /\ sockq' \in [Dev -> 0 .. SockMax]
      /\ \A x \in Dev : sockq'[x] > 0 => sockq[x] > 0
  <2>1. CASE more
    BY <2>1, <1>3, ReceiverAssumption DEF DevTyped, ReceiverAssumption, more
  <2>2. CASE ~more
    BY <2>2, <1>3 DEF DevTyped
  <2> QED BY <2>1, <2>2
<1>9. DevTyped'
  BY <1>3, <1>5, <1>6, <1>8 DEF DevTyped
<1>10. ASSUME NEW x \in Dev PROVE Sane(x)'
  <2>1. CASE x = d
    BY <2>1, <1>2, <1>3, <1>4, <1>5, <1>7, <1>8 DEF Sane
  <2>2. CASE x # d
    BY <2>2, <1>3, <1>7, <1>8 DEF Sane
  <2> QED BY <2>1, <2>2
<1>11. Owes(d)'
  <2>1. CASE old.sock = chan[d]
    <3>1. StaleMsgs(d)' = StaleMsgs(d)
      BY <2>1, <1>2, <1>3, <1>6, <1>7 DEF StaleMsgs
    <3>2. StaleReaders(d)' = StaleReaders(d)
      BY <2>1, <1>e, <1>3, <1>5, <1>7 DEF StaleReaders, old
    <3> QED BY <3>1, <3>2, <1>3 DEF Owes
  <2>2. CASE old.sock # chan[d]
    <3>1. StaleMsgs(d)' = StaleMsgs(d) \cup {k + 1} /\ k + 1 \notin StaleMsgs(d)
      BY <2>2, <1>2, <1>3, <1>6, <1>7 DEF StaleMsgs
    <3>2. StaleReaders(d)' = StaleReaders(d) \ {r} /\ r \in StaleReaders(d)
      BY <2>2, <1>1, <1>e, <1>3, <1>5, <1>7 DEF StaleReaders, old
    <3>3. Cardinality(StaleMsgs(d)') = Cardinality(StaleMsgs(d)) + 1
      BY <3>1, StaleFinite, FS_AddElement
    <3>4. Cardinality(StaleReaders(d)') = Cardinality(StaleReaders(d)) - 1
      BY <3>2, StaleFinite, FS_RemoveElement
    <3> QED BY <3>3, <3>4, <1>3, StaleFinite DEF Owes, DevTyped
  <2> QED BY <2>1, <2>2
<1>12. ASSUME NEW x \in Dev, x # d PROVE Owes(x)'
  BY <1>12, <1>3, <1>7, <1>9, SameDevice
<1> QED BY <1>9, <1>10, <1>11, <1>12

LEMMA TakeKeeps ==
  ASSUME DevInv, NEW d \in Dev, Take(d)
  PROVE  DevInv' /\ Head(msg_queue[d]) \in Cell /\ (\A x \in Dev : owed[x] >= 0)
<1> USE DEF DevInv
<1>a. \A x \in Dev : owed[x] >= 0
  BY StaleFinite DEF Owes, DevTyped
<1> DEFINE q == msg_queue[d]
           h == Head(q)
           t == Tail(q)
           o == IF h = chan[d] THEN owed[d] ELSE owed[d] - 1
<1>1. /\ q \in Seq(Cell) /\ q # <<>> /\ h \in Cell /\ h = q[1] /\ t \in Seq(Cell)
      /\ Len(q) \in Nat \ {0} /\ Len(t) = Len(q) - 1
      /\ \A i \in 1 .. Len(q) - 1 : t[i] = q[i + 1]
  BY DEF Take, DevTyped
<1>2. /\ msg_queue' = [msg_queue EXCEPT ![d] = t] /\ owed' = [owed EXCEPT ![d] = o]
      /\ UNCHANGED <<freq_table, chan, sockq, readers>>
  <2>1. /\ msg_queue' = [msg_queue EXCEPT ![d] = t]
        /\ UNCHANGED <<freq_table, chan, sockq, readers>>
        /\ owed' = [owed EXCEPT ![d] = IF h = chan[d] \/ @ < 0 THEN @ ELSE @ - 1]
    BY DEF Take, devVars
  <2>2. ~(owed[d] < 0) /\ owed \in [Dev -> Int]
    BY <1>a DEF DevTyped
  <2> HIDE DEF h
  <2> QED BY <2>1, <2>2
<1> HIDE DEF h, t, o
<1>3. /\ msg_queue'[d] = t /\ owed'[d] = o
      /\ \A x \in Dev : x # d => msg_queue'[x] = msg_queue[x] /\ owed'[x] = owed[x]
  BY <1>2 DEF DevTyped
<1>4. DevTyped'
  BY <1>1, <1>2 DEF DevTyped, o
<1>5. ASSUME NEW x \in Dev PROVE Sane(x)'
  BY <1>2 DEF Sane
<1>6. Owes(d)'
  <2>1. StaleReaders(d)' = StaleReaders(d)
    BY <1>2 DEF StaleReaders
  <2>2. StaleMsgs(d)' \subseteq Int /\ StaleMsgs(d) \subseteq Int
    BY DEF StaleMsgs
  <2>3. \A i \in StaleMsgs(d)' : i + 1 \in StaleMsgs(d) /\ i + 1 # 1
    BY <1>1, <1>2, <1>3 DEF StaleMsgs
  <2>4. CASE h = chan[d]
    <3>1. /\ Cardinality(StaleMsgs(d)') \in Nat
          /\ Cardinality(StaleMsgs(d)') <= Cardinality(StaleMsgs(d))
      BY <2>2, <2>3, StaleFinite, Shifted
    <3>2. owed'[d] = owed[d]
      BY <2>4, <1>3 DEF o
    <3> QED BY <2>1, <3>1, <3>2, StaleFinite DEF Owes, DevTyped
  <2>5. CASE h # chan[d]
    <3>1. 1 \in StaleMsgs(d)
      BY <2>5, <1>1 DEF StaleMsgs
    <3>2. /\ IsFiniteSet(StaleMsgs(d) \ {1})
          /\ Cardinality(StaleMsgs(d) \ {1}) = Cardinality(StaleMsgs(d)) - 1
      BY <3>1, StaleFinite, FS_RemoveElement
    <3>3. /\ Cardinality(StaleMsgs(d)') \in Nat
          /\ Cardinality(StaleMsgs(d)') <= Cardinality(StaleMsgs(d) \ {1})
      <4>1. \A i \in StaleMsgs(d)' : i + 1 \in StaleMsgs(d) \ {1}
        BY <2>3
      <4> QED BY <2>2, <3>2, <4>1, Shifted
    <3>4. owed'[d] = owed[d] - 1
      BY <2>5, <1>3 DEF o
    <3> QED BY <2>1, <3>2, <3>3, <3>4, StaleFinite DEF Owes, DevTyped
  <2> QED BY <2>4, <2>5
<1>7. ASSUME NEW x \in Dev, x # d PROVE Owes(x)'
  BY <1>7, <1>2, <1>3, <1>4, SameDevice
<1> QED BY <1>a, <1>1, <1>4, <1>5, <1>6, <1>7 DEF h

LEMMA TuneKeeps ==
  ASSUME DevInv, NEW d \in Dev, NEW c, Channel(d, c) \in Chan, Tune(d, c),
         UNCHANGED msg_queue
  PROVE  DevInv'
<1> USE DEF DevInv
<1> DEFINE n == Channel(d, c)
           s == Append(readers[d], Reader(n))
           k == Len(readers[d])
           o == Len(msg_queue[d]) + k
<1>1. /\ freq_table' = [freq_table EXCEPT ![d] = @ \cup {n}]
      /\ chan' = [chan EXCEPT ![d] = n]
      /\ sockq' = [sockq EXCEPT ![d] = 0]
      /\ readers' = [readers EXCEPT ![d] = s]
      /\ owed' = [owed EXCEPT ![d] = o]
  BY DEF Tune
<1> HIDE DEF n
<1>2. Reader(n) \in Rdr /\ Reader(n).sock = n /\ Reader(n).pdu = None
  BY DEF Reader, Rdr, n
<1>3. /\ k \in Nat /\ s \in Seq(Rdr) /\ Len(s) = k + 1 /\ s[k + 1] = Reader(n)
      /\ \A r \in 1 .. k : s[r] = readers[d][r]
  <2>1. readers[d] \in Seq(Rdr)
    BY DEF DevTyped
  <2> QED BY <2>1, <1>2
<1>4. o \in Nat
  <2>1. Len(msg_queue[d]) \in Nat /\ Len(readers[d]) \in Nat
    BY StaleFinite
  <2>2. \A x, y \in Nat : x + y \in Nat
    OBVIOUS
  <2> QED BY <2>1, <2>2, Zenon
<1> HIDE DEF s, o
<1>5. DevTyped'
  BY <1>1, <1>3, <1>4, ReceiverAssumption DEF DevTyped, n, ReceiverAssumption
<1>6. /\ chan'[d] = n /\ sockq'[d] = 0 /\ readers'[d] = s /\ owed'[d] = o
      /\ \A x \in Dev : x # d => /\ chan'[x] = chan[x] /\ sockq'[x] = sockq[x]
                                 /\ readers'[x] = readers[x] /\ owed'[x] = owed[x]
  BY <1>1 DEF DevTyped
<1>7. ASSUME NEW x \in Dev PROVE Sane(x)'
  <2>1. CASE x = d
    <3>1. \A r \in 1 .. Len(s) : s[r].pdu \in {None, s[r].sock}
      <4> SUFFICES ASSUME NEW r \in 1 .. k + 1 PROVE s[r].pdu \in {None, s[r].sock}
        BY <1>3
      <4>1. CASE r = k + 1
        BY <4>1, <1>2, <1>3
      <4>2. CASE r # k + 1
        BY <4>2, <1>3 DEF Sane
      <4> QED BY <4>1, <4>2
    <3> QED BY <2>1, <3>1, <1>6 DEF Sane, n
  <2>2. CASE x # d
    BY <2>2, <1>6 DEF Sane
  <2> QED BY <2>1, <2>2
<1>8. Owes(d)'
  <2>1. StaleReaders(d)' \subseteq 1 .. k
    BY <1>2, <1>3, <1>6 DEF StaleReaders
  <2>2. StaleMsgs(d)' \subseteq 1 .. Len(msg_queue[d])
    BY DEF StaleMsgs
  <2>3. Len(msg_queue[d]) \in Nat
    BY StaleFinite
  <2>4. \A m \in Nat : IsFiniteSet(1 .. m) /\ Cardinality(1 .. m) = m
    BY FS_Interval
  <2>5. IsFiniteSet(StaleReaders(d)') /\ Cardinality(StaleReaders(d)') <= k
    BY <2>1, <2>4, <1>3, FS_Subset
  <2>6. IsFiniteSet(StaleMsgs(d)') /\ Cardinality(StaleMsgs(d)') <= Len(msg_queue[d])
    BY <2>2, <2>3, <2>4, FS_Subset
  <2>7. Cardinality(StaleReaders(d)') \in Nat /\ Cardinality(StaleMsgs(d)') \in Nat
    BY <2>5, <2>6, FS_CardinalityType
  <2>8. owed'[d] = Len(msg_queue[d]) + k
    BY <1>6 DEF o
  <2> HIDE DEF k
  <2> QED BY <2>3, <2>5, <2>6, <2>7, <2>8, <1>3 DEF Owes
<1>9. ASSUME NEW x \in Dev, x # d PROVE Owes(x)'
  BY <1>9, <1>5, <1>6, SameDevice
<1> QED BY <1>5, <1>7, <1>8, <1>9

\* set_new_freq of the DLS: the channel next to all it has had of the new cell.
LEMMA NextDlsChannel ==
  ASSUME NEW k \in Nat, New + k < ChannelMax,
         freq_table["dls"] = {Old} \cup New .. New + k - 1
  PROVE  Channel("dls", New) = New + k
<1>0. Old \in Nat /\ New \in Nat /\ Old < New /\ ChannelMax \in Nat
  BY ReceiverAssumption DEF ReceiverAssumption
<1> DEFINE P(x) == /\ x > New /\ x \notin freq_table["dls"]
                   /\ \A y \in New .. x - 1 : y \in freq_table["dls"]
<1>1. CASE k = 0
  BY <1>0, <1>1 DEF Channel
<1>2. CASE k # 0
  <2>1. New \in freq_table["dls"]
    BY <1>0, <1>2
  <2>2. New + k \in Chan /\ P(New + k)
    BY <1>0, <1>2 DEF Chan
  <2>3. \A x \in Chan : P(x) => x = New + k
    <3> SUFFICES ASSUME NEW x \in Chan, P(x), x # New + k PROVE FALSE
      OBVIOUS
    <3>1. x \in Int
      BY <1>0 DEF Chan
    <3>2. CASE x < New + k
      BY <3>1, <3>2, <1>0
    <3>3. CASE x > New + k
      <4>1. New + k \in New .. x - 1
        BY <3>1, <3>3, <1>0
      <4>2. New + k \notin freq_table["dls"]
        BY <1>0
      <4> QED BY <4>1, <4>2
    <3> QED BY <3>1, <3>2, <3>3, <1>0
  <2>4. Channel("dls", New) = CHOOSE x \in Chan : P(x)
    BY <2>1 DEF Channel
  <2> HIDE DEF P
  <2> QED BY <2>2, <2>3, <2>4
<1> QED BY <1>1, <1>2

\* The first channels of the PHY are free.
LEMMA PhyChannel ==
  ASSUME NEW c, c \notin freq_table["phy"]
  PROVE  Channel("phy", c) = c
  BY DEF Channel

-----------------------------------------------------------------------------
(* The steps.                                                               *)

LEMMA InitIInv == Init => IInv
<1> SUFFICES ASSUME Init PROVE IInv
  OBVIOUS
<1>0. Old \in Chan /\ Old \in Nat /\ New \in Nat /\ MaxCom \in Nat /\ SockMax \in Nat
  BY ReceiverAssumption DEF ReceiverAssumption, Chan
<1>1. Reader(Old) \in Rdr /\ Reader(Old).pdu = None /\ Reader(Old).sock = Old
  BY <1>0 DEF Reader, Rdr
<1>2. /\ freq_table \in [Dev -> SUBSET Chan] /\ chan \in [Dev -> Chan \cup {None}]
      /\ freq_table["dls"] = {Old} /\ chan["dls"] = Old
      /\ freq_table["phy"] = {} /\ chan["phy"] = None
  BY <1>0 DEF Init, NoDevice, Dev
<1>3. /\ \A d \in Dev : sockq[d] = 0 /\ msg_queue[d] = <<>> /\ owed[d] = 0
      /\ sockq \in [Dev -> 0 .. SockMax] /\ msg_queue \in [Dev -> Seq(Cell)]
      /\ owed \in [Dev -> Int]
  BY <1>0 DEF Init
<1>4. readers["dls"] = <<Reader(Old)>> /\ readers["phy"] = <<>>
  BY DEF Init, NoDevice, Dev
<1>5. readers \in [Dev -> Seq(Rdr)]
  <2>1. readers = [d \in Dev |-> IF d = "dls" THEN <<Reader(Old)>> ELSE <<>>]
    BY DEF Init, NoDevice
  <2>2. <<Reader(Old)>> \in Seq(Rdr) /\ <<>> \in Seq(Rdr)
    BY <1>1
  <2> QED BY <2>1, <2>2
<1>6. DevTyped
  BY <1>2, <1>3, <1>5 DEF DevTyped
<1>7. Sane("dls") /\ Sane("phy")
  <2>1. Len(<<Reader(Old)>>) = 1 /\ <<Reader(Old)>>[1] = Reader(Old) /\ Len(<<>>) = 0
    OBVIOUS
  <2>2. "dls" \in Dev /\ "phy" \in Dev
    BY DEF Dev
  <2>3. Sane("dls")
    BY <2>1, <2>2, <1>0, <1>1, <1>2, <1>3, <1>4 DEF Sane
  <2>4. Sane("phy")
    BY <2>1, <2>2, <1>3, <1>4 DEF Sane
  <2> QED BY <2>3, <2>4
<1>8. \A d \in Dev : Owes(d)
  <2>1. \A d \in Dev : StaleMsgs(d) = {}
    BY <1>3 DEF StaleMsgs
  <2>2. StaleReaders("phy") = {}
    BY <1>4 DEF StaleReaders
  <2>3. Len(readers["dls"]) = 1 /\ readers["dls"][1] = Reader(Old)
    BY <1>4
  <2>4. StaleReaders("dls") = {}
    BY <2>3, <1>1, <1>2 DEF StaleReaders
  <2>5. \A d \in Dev : StaleReaders(d) = {}
    BY <2>2, <2>4 DEF Dev
  <2>6. Cardinality({}) = 0
    BY FS_EmptySet
  <2> SUFFICES ASSUME NEW d \in Dev PROVE Owes(d)
    OBVIOUS
  <2>7. StaleMsgs(d) = {} /\ StaleReaders(d) = {} /\ owed[d] = 0
    BY <2>1, <2>5, <1>3
  <2> QED BY <2>6, <2>7 DEF Owes
<1>9. DevInv
  BY <1>6, <1>7, <1>8 DEF DevInv, Dev
<1>10. CellInv
  BY DEF CellInv, Init
<1>11. /\ last = None /\ mac = "FSCANNING" /\ sib = FALSE /\ need_sync = TRUE
       /\ synced = None /\ cc = "idle" /\ commands = 0
  BY DEF Init
<1>12. MacInv /\ ComInv
  <2>1. MacInv
    <3>1. commands \in 0 .. MaxCom
      BY <1>0, <1>11
    <3> QED BY <3>1, <1>11, Zenon DEF MacInv
  <2>2. ComInv
    BY <1>11 DEF ComInv
  <2> QED BY <2>1, <2>2
<1>13. FreqInv
  BY <1>0, <1>2, <1>11 DEF FreqInv, DlsMoves
<1> QED BY <1>9, <1>10, <1>12, <1>13 DEF IInv

\* Steps that move no channel and no HO_COM on.
LEMMA UnmovedStation ==
  ASSUME MacInv, ComInv, FreqInv, UNCHANGED <<freq_table, chan, mac, cc, commands>>
  PROVE  ComInv' /\ FreqInv'
  BY DEF ComInv, FreqInv, DlsMoves

LEMMA StepIInv == IInv /\ [Next]_vars => IInv'
<1> SUFFICES ASSUME IInv, [Next]_vars PROVE IInv'
  OBVIOUS
<1> USE DEF IInv
<1>0. /\ Old \in Cell /\ New \in Cell /\ Old \in Chan /\ New \in Chan /\ Old # New
      /\ Old \in Nat /\ New \in Nat /\ MaxCom \in Nat /\ ChannelMax \in Nat
      /\ Old < New /\ New + MaxCom < ChannelMax
  BY ReceiverAssumption DEF ReceiverAssumption, Cell, Chan
<1>1. ASSUME NEW c \in Cell, SuperFrame(c)
      PROVE  IInv'
  <2> USE <1>1 DEF SuperFrame, macVars, comVars
  <2>1. /\ UNCHANGED <<freq_table, chan, msg_queue, owed, last, mac, sib, need_sync, synced,
                       cc, commands>>
    OBVIOUS
  <2>2. bc_curr[c] = FALSE /\ bc_curr' = [bc_curr EXCEPT ![c] = TRUE]
    BY DEF LmeSf, CellInv
  <2>3. CASE bc_assem[c] > 0
    <3>1. bc_assem' = [bc_assem EXCEPT ![c] = @ - 1] /\ Arrive("phy", c)
      BY <2>3 DEF PhySf, Dequeued
    <3>2. CellInv'
      BY <2>2, <2>3, <3>1 DEF CellInv
    <3>3. DevInv'
      BY <2>1, <3>1, ArriveKeeps DEF Dev
    <3> QED BY <2>1, <3>2, <3>3, UnmovedStation DEF MacInv
  <2>4. CASE ~(bc_assem[c] > 0)
    <3>1. UNCHANGED <<bc_assem, sockq, readers>>
      BY <2>4 DEF PhySf
    <3>2. CellInv'
      BY <2>2, <2>4, <3>1 DEF CellInv
    <3>3. DevInv'
      BY <2>1, <3>1, UnmovedDevices DEF devVars
    <3> QED BY <2>1, <3>2, <3>3, UnmovedStation DEF MacInv
  <2> QED BY <2>3, <2>4
<1>2. ASSUME NEW c \in Cell, BcMac(c)
      PROVE  IInv'
  <2>1. UNCHANGED <<devVars, msg_queue, owed>>
        /\ UNCHANGED <<freq_table, chan, last, mac, sib, need_sync, synced, cc, commands>>
    BY <1>2 DEF BcMac, devVars, macVars, comVars
  <2>2. CellInv'
    BY <1>2 DEF BcMac, Queued, CellInv
  <2> QED BY <2>1, <2>2, UnmovedDevices, UnmovedStation DEF MacInv
<1>3. ASSUME NEW c \in Cell, Data(c)
      PROVE  IInv'
  <2>1. UNCHANGED <<freq_table, chan, msg_queue, owed, last, mac, sib, need_sync, synced,
                    cc, commands, bc_curr, bc_assem>>
    BY <1>3 DEF Data, cellVars, macVars, comVars
  <2>2. DevInv'
    BY <1>3, <2>1, ArriveKeeps DEF Data, Dev
  <2> QED BY <2>1, <2>2, UnmovedStation DEF MacInv, CellInv
<1>4. ASSUME NEW d \in Dev, Puts(d)
      PROVE  IInv'
  <2>1. PICK r \in DOMAIN readers[d] : Put(d, r)
    BY <1>4 DEF Puts
  <2>2. UNCHANGED <<freq_table, chan, last, mac, sib, need_sync, synced, cc, commands,
                    bc_curr, bc_assem>>
    BY <2>1 DEF Put, cellVars, macVars, comVars
  <2>3. DevInv'
    BY <2>1, PutKeeps
  <2> QED BY <2>2, <2>3, UnmovedStation DEF MacInv, CellInv
<1>5. CASE Cscan
  <2>1. /\ mac = "FSCANNING" /\ mac' = "CSCANNING" /\ Tune("phy", Old)
        /\ UNCHANGED <<bc_curr, bc_assem, msg_queue, last, sib, need_sync, synced, cc, commands>>
    BY <1>5 DEF Cscan, cellVars, comVars
  <2>2. freq_table["phy"] = {} /\ Channel("phy", Old) = Old
    BY <2>1, PhyChannel DEF FreqInv
  <2>3. DevInv'
    BY <2>1, <2>2, <1>0, TuneKeeps DEF Dev
  <2>4. cc = "idle" /\ commands = 0
    BY <2>1 DEF ComInv, MacInv
  <2>5. /\ freq_table'["phy"] = {Old} /\ chan'["phy"] = Old
        /\ freq_table'["dls"] = freq_table["dls"] /\ chan'["dls"] = chan["dls"]
    BY <2>1, <2>2 DEF Tune, DevInv, DevTyped, Dev
  <2>6. FreqInv' /\ ComInv'
    BY <2>1, <2>4, <2>5 DEF FreqInv, ComInv, DlsMoves
  <2> QED BY <2>1, <2>3, <2>6 DEF MacInv, CellInv
<1>6. CASE Bcch
  <2>1. UNCHANGED <<freq_table, chan, mac, cc, commands, bc_curr, bc_assem>>
        /\ Take("phy") /\ last' = Head(msg_queue["phy"]) /\ sib' \in {sib, TRUE}
    BY <1>6 DEF Bcch, Take, BcInd, cellVars, devVars, comVars
  <2>2. DevInv' /\ Head(msg_queue["phy"]) \in Cell
    BY <2>1, TakeKeeps DEF Dev
  <2>3. need_sync' \in BOOLEAN /\ synced' \in Cell \cup {None}
    BY <1>6, <2>2 DEF Bcch, InitTimer, MacInv
  <2> QED BY <2>1, <2>2, <2>3, UnmovedStation DEF MacInv, CellInv
<1>7. CASE Direct
  <2>1. UNCHANGED <<freq_table, chan, last, mac, sib, need_sync, synced, cc, commands,
                    bc_curr, bc_assem>> /\ Take("dls")
    BY <1>7 DEF Direct, Take, cellVars, devVars, macVars, comVars
  <2>2. DevInv'
    BY <2>1, TakeKeeps DEF Dev
  <2> QED BY <2>1, <2>2, UnmovedStation DEF MacInv, CellInv
<1>8. CASE Enter
  <2>1. /\ mac = "CSCANNING" /\ mac' = "OPEN"
        /\ UNCHANGED <<bc_curr, bc_assem, freq_table, chan, msg_queue, last, sib, need_sync,
                       synced, cc, commands, owed>> /\ UNCHANGED devVars
    BY <1>8 DEF Enter, cellVars, devVars, comVars
  <2>2. cc = "idle" /\ commands = 0
    BY <2>1 DEF ComInv, MacInv
  <2>3. FreqInv' /\ ComInv'
    BY <2>1, <2>2 DEF FreqInv, ComInv, DlsMoves
  <2> QED BY <2>1, <2>3, UnmovedDevices DEF MacInv, CellInv
<1>9. CASE HoCom
  <2>1. /\ mac \in {"OPEN", "HO2"} /\ cc = "idle" /\ commands < MaxCom
        /\ cc' = "dls" /\ commands' = commands + 1
        /\ UNCHANGED <<bc_curr, bc_assem, freq_table, chan, msg_queue, last, mac, sib, need_sync,
                       synced, owed>> /\ UNCHANGED devVars
    BY <1>9 DEF HoCom, cellVars, devVars, macVars
  <2>2. DlsMoves' = DlsMoves
    BY <2>1 DEF DlsMoves, MacInv
  <2>3. FreqInv'
    BY <2>1, <2>2 DEF FreqInv
  <2>4. ComInv'
    BY <2>1 DEF ComInv, MacInv
  <2>5. MacInv'
    BY <2>1, <1>0 DEF MacInv
  <2> QED BY <2>1, <2>3, <2>4, <2>5, UnmovedDevices DEF CellInv
<1>10. CASE TuneDls
  <2>1. /\ cc = "dls" /\ cc' = (IF mac = "OPEN" THEN "phy" ELSE "idle") /\ Tune("dls", New)
        /\ UNCHANGED <<bc_curr, bc_assem, msg_queue, last, mac, sib, need_sync, synced, commands>>
    BY <1>10 DEF TuneDls, MacMoves, cellVars, macVars
  <2>2. /\ commands \in 1 .. MaxCom /\ DlsMoves = commands - 1 /\ DlsMoves' = commands
        /\ mac \in {"OPEN", "HO2"}
    BY <2>1 DEF ComInv, MacInv, DlsMoves
  <2>3. Channel("dls", New) = New + (commands - 1)
    BY <1>0, <2>2, NextDlsChannel DEF FreqInv
  <2>4. Channel("dls", New) \in Chan
    BY <1>0, <2>2, <2>3 DEF Chan
  <2>5. DevInv'
    BY <2>1, <2>4, TuneKeeps DEF Dev
  <2>6. /\ freq_table'["dls"] = freq_table["dls"] \cup {New + (commands - 1)}
        /\ chan'["dls"] = New + (commands - 1)
        /\ freq_table'["phy"] = freq_table["phy"] /\ chan'["phy"] = chan["phy"]
    BY <2>1, <2>3 DEF Tune, DevInv, DevTyped, Dev
  <2>7. freq_table'["dls"] = {Old} \cup New .. New + commands - 1
    BY <1>0, <2>2, <2>6 DEF FreqInv
  <2>8. FreqInv'
    BY <1>0, <2>1, <2>2, <2>6, <2>7 DEF FreqInv
  <2>9. ComInv'
    BY <2>1, <2>2 DEF ComInv
  <2> QED BY <2>1, <2>5, <2>8, <2>9 DEF MacInv, CellInv
<1>11. CASE TunePhy
  <2>1. /\ cc = "phy" /\ cc' = "sync" /\ Tune("phy", New)
        /\ UNCHANGED <<bc_curr, bc_assem, msg_queue, last, mac, sib, need_sync, synced, commands>>
    BY <1>11 DEF TunePhy, cellVars, macVars
  <2>2. mac = "OPEN" /\ freq_table["phy"] = {Old} /\ Channel("phy", New) = New
    BY <1>0, <2>1, PhyChannel DEF ComInv, FreqInv
  <2>3. DevInv'
    BY <2>1, <2>2, <1>0, TuneKeeps DEF Dev
  <2>4. /\ freq_table'["phy"] = {Old, New} /\ chan'["phy"] = New
        /\ freq_table'["dls"] = freq_table["dls"] /\ chan'["dls"] = chan["dls"]
    BY <2>1, <2>2 DEF Tune, DevInv, DevTyped, Dev
  <2>5. FreqInv' /\ ComInv'
    BY <2>1, <2>2, <2>4 DEF FreqInv, ComInv, DlsMoves
  <2> QED BY <2>1, <2>3, <2>5 DEF MacInv, CellInv
<1>12. CASE NeedSync
  <2>1. /\ cc = "sync" /\ cc' = "idle" /\ mac' = "HO2" /\ need_sync' = TRUE
        /\ UNCHANGED <<bc_curr, bc_assem, freq_table, chan, msg_queue, last, sib,
                       synced, commands, owed>> /\ UNCHANGED devVars
    BY <1>12 DEF NeedSync, cellVars, devVars
  <2>2. FreqInv' /\ ComInv'
    BY <2>1 DEF FreqInv, ComInv, DlsMoves
  <2> QED BY <2>1, <2>2, UnmovedDevices DEF MacInv, CellInv
<1>13. CASE UNCHANGED vars
  <2>1. UNCHANGED <<devVars, msg_queue, owed>>
        /\ UNCHANGED <<freq_table, chan, last, mac, sib, need_sync, synced, cc, commands,
                       bc_curr, bc_assem>>
    BY <1>13 DEF vars, cellVars, devVars, macVars, comVars
  <2> QED BY <2>1, UnmovedDevices, UnmovedStation DEF MacInv, CellInv
<1> QED BY <1>1, <1>2, <1>3, <1>4, <1>5, <1>6, <1>7, <1>8, <1>9, <1>10, <1>11, <1>12, <1>13
       DEF Next, CcThread

LEMMA Invariance == Spec => []IInv
  BY InitIInv, StepIInv, PTL DEF Spec

\* Devices, cells and station keep their types.
THEOREM TypeCorrect == Spec => []ReceiverTypeOK
<1>1. IInv => ReceiverTypeOK
  BY DEF IInv, DevInv, DevTyped, CellInv, MacInv, ReceiverTypeOK, Rdr
<1> QED BY <1>1, Invariance, PTL

\* The devices follow the first HO_COM, and every further one moves that of the DLS
\* one channel on (set_new_freq, set_new_dls_frequency), for any number of them.
THEOREM DevicesFollow == Spec => []Followed
<1>1. IInv => Followed
  <2> SUFFICES ASSUME IInv, cc = "idle", commands > 0
               PROVE  mac = "HO2" /\ chan["phy"] = New /\ chan["dls"] = New + commands - 1
    BY DEF Followed
  <2>1. mac = "HO2" /\ commands \in Nat
    BY DEF IInv, ComInv, MacInv
  <2> QED BY <2>1 DEF IInv, FreqInv, DlsMoves
<1> QED BY <1>1, Invariance, PTL

\* After a device was tuned it handles no more stale datagrams than were queued, and
\* one for each of its threads, for any length of the queues and any number of threads
\* that udp_recving_msgs has left behind.
THEOREM FewStale == Spec => []StaleBounded
<1>1. IInv => StaleBounded
  BY StaleFinite DEF IInv, DevInv, Owes, StaleBounded, DevTyped
<1> QED BY <1>1, Invariance, PTL
===============================================================================
