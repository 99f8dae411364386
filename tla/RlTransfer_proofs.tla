-------------------------- MODULE RlTransfer_proofs --------------------------
(* The invariants of RlTransfer for every cell: any number of stations, any   *)
(* lengths of window, bitmap, block and multiframe.                           *)
EXTENDS RlTransfer, TLAPS, FiniteSetTheorems, WellFoundedInduction

-----------------------------------------------------------------------------
(* Least and greatest members of sets of numbers.                             *)

LEMMA LeastExists ==
  ASSUME NEW T, T \subseteq Nat, T # {}
  PROVE  \E x \in T : \A y \in T : x <= y
<1>1. IsWellFoundedOn(OpToRel(<, Nat), Nat)
  BY NatLessThanWellFounded
<1>2. PICK x \in T : \A y \in T : ~ (<<y, x>> \in OpToRel(<, Nat))
  BY <1>1, WFMin
<1>3. \A y \in T : ~ (y < x)
  BY <1>2 DEF OpToRel
<1> QED BY <1>3

-----------------------------------------------------------------------------
(* Sums over a finite set, by the definition of the fold that computes them.  *)
(* Each fact is proved for a smallest set of which it would be false.         *)

\* A nonempty collection of subsets of a finite set has a smallest member.
LEMMA SmallestExists ==
  ASSUME NEW S, IsFiniteSet(S), NEW C, C \subseteq SUBSET S, C # {}
  PROVE  \E T \in C : \A U \in C : U \subseteq T => U = T
<1>1. C \subseteq FiniteSubsetsOf(S)
  BY FS_FiniteSubsetsOfFinite
<1>2. IsWellFoundedOn(StrictSubsetOrdering(S), FiniteSubsetsOf(S))
  BY FS_StrictSubsetOrderingWellFounded
<1>3. PICK T \in C : \A U \in C : ~ (<<U, T>> \in StrictSubsetOrdering(S))
  BY <1>1, <1>2, WFMin
<1>4. ASSUME NEW U \in C, U \subseteq T PROVE U = T
  <2>1. U \in SUBSET S /\ T \in SUBSET S
    OBVIOUS
  <2> QED BY <1>3, <1>4, <2>1 DEF StrictSubsetOrdering
<1> QED BY <1>4

\* A nonempty finite set of numbers has a greatest member: a largest one of
\* the sets of members with nothing above them but its own.
LEMMA FiniteMax ==
  ASSUME NEW S, IsFiniteSet(S)
  PROVE  S \subseteq Nat /\ S # {} => \E x \in S : \A y \in S : y <= x
<1>0. SUFFICES ASSUME S \subseteq Nat, S # {}
               PROVE  \E x \in S : \A y \in S : y <= x
  OBVIOUS
<1> DEFINE Above(x) == {y \in S : x < y}
           C == {Above(x) : x \in S}
<1>1. C # {}
  BY <1>0
<1>2. C \subseteq SUBSET S
  OBVIOUS
<1>3. PICK T \in C : \A U \in C : U \subseteq T => U = T
  <2> HIDE DEF C
  <2> QED BY <1>1, <1>2, SmallestExists
<1>6. PICK x \in S : T = Above(x)
  OBVIOUS
<1>4. ASSUME NEW y \in S, x < y PROVE FALSE
  <2>1. x \in Nat /\ \A z \in S : z \in Nat
    BY <1>0
  <2>2. y \in Above(x) /\ y \notin Above(y)
    BY <1>4, <2>1
  <2>4. Above(y) \subseteq Above(x)
    <3>1. ASSUME NEW z \in Above(y) PROVE z \in Above(x)
      <4>1. z \in S /\ y < z
        OBVIOUS
      <4>2. x < z
        BY <4>1, <1>4, <2>1
      <4> QED BY <4>1, <4>2
    <3> QED BY <3>1
  <2>3. Above(y) \in C
    OBVIOUS
  <2> QED BY <1>3, <1>6, <2>2, <2>3, <2>4
<1>5. \A y \in S : y <= x
  <2>1. x \in Nat /\ \A z \in S : z \in Nat
    BY <1>0
  <2> QED BY <1>4, <2>1
<1> QED BY <1>5

Some(s) == CHOOSE x \in s : TRUE

\* it sums f over every subset of S.
Sums(f, S, it) ==
  it = [s \in SUBSET S |-> IF s = {} THEN 0 ELSE f[Some(s)] + it[s \ {Some(s)}]]

SumOf(f, S) == SumFunctionOnSet(f, S)

LEMMA SumDef ==
  ASSUME NEW f, NEW S
  PROVE  SumOf(f, S) = (CHOOSE it : Sums(f, S, it))[S]
BY DEF SumOf, SumFunctionOnSet, FoldFunctionOnSet, MapThenFoldSet, Sums, Some

LEMMA SomeIn ==
  ASSUME NEW s, s # {}
  PROVE  Some(s) \in s
BY DEF Some

LEMMA SumsAt ==
  ASSUME NEW f, NEW S, NEW it, Sums(f, S, it), NEW s \in SUBSET S
  PROVE  /\ s = {} => it[s] = 0
         /\ s # {} => it[s] = f[Some(s)] + it[s \ {Some(s)}]
<1>1. it[s] = IF s = {} THEN 0 ELSE f[Some(s)] + it[s \ {Some(s)}]
  BY Zenon DEF Sums
<1> QED BY <1>1

LEMMA SumsAgree ==
  ASSUME NEW f, NEW S, NEW T, NEW i, NEW j, Sums(f, S, i), Sums(f, T, j),
         NEW U \in SUBSET (S \cap T), IsFiniteSet(U)
  PROVE  i[U] = j[U]
<1> DEFINE C == {V \in SUBSET U : i[V] # j[V]}
<1>1. SUFFICES ASSUME C # {} PROVE FALSE
  OBVIOUS
<1>2. C \subseteq SUBSET U
  OBVIOUS
<1>3. PICK V \in C : \A W \in C : W \subseteq V => W = V
  <2> HIDE DEF C
  <2> QED BY <1>1, <1>2, SmallestExists
<1>4. V \in SUBSET S /\ V \in SUBSET T
  OBVIOUS
<1>5. V # {}
  BY <1>4, SumsAt
<1>6. Some(V) \in V
  BY <1>5, SomeIn
<1> DEFINE W == V \ {Some(V)}
<1>7. W \subseteq V /\ W # V
  BY <1>6
<1>8. W \notin C
  BY <1>3, <1>7
<1>9. i[W] = j[W]
  BY <1>8, <1>7
<1>10. i[V] = f[Some(V)] + i[W] /\ j[V] = f[Some(V)] + j[W]
  <2> HIDE DEF C
  <2>1. \A s \in SUBSET S : s # {} => i[s] = f[Some(s)] + i[s \ {Some(s)}]
    BY SumsAt
  <2>2. \A s \in SUBSET T : s # {} => j[s] = f[Some(s)] + j[s \ {Some(s)}]
    BY SumsAt
  <2> QED BY <2>1, <2>2, <1>4, <1>5
<1> QED BY <1>9, <1>10

LEMMA SumsExists ==
  ASSUME NEW f, NEW S, IsFiniteSet(S)
  PROVE  \E it : Sums(f, S, it)
<1> DEFINE C == {V \in SUBSET S : ~ \E it : Sums(f, V, it)}
<1>1. SUFFICES ASSUME C # {} PROVE FALSE
  OBVIOUS
<1>2. C \subseteq SUBSET S
  OBVIOUS
<1>3. PICK T \in C : \A W \in C : W \subseteq T => W = T
  <2> HIDE DEF C
  <2> QED BY <1>1, <1>2, SmallestExists
<1> DEFINE by(s) == CHOOSE it : Sums(f, s, it)
           all == [s \in SUBSET T |-> IF s = {} THEN 0
                     ELSE f[Some(s)] + by(s \ {Some(s)})[s \ {Some(s)}]]
<1>4. ASSUME NEW s \in SUBSET T, s # T PROVE Sums(f, s, by(s))
  <2>1. s \notin C
    BY <1>3, <1>4
  <2>2. \E it : Sums(f, s, it)
    BY <2>1
  <2> QED BY <2>2
<1>5. ASSUME NEW s \in SUBSET T, s # T PROVE all[s] = by(s)[s]
  <2>1. all[s] = IF s = {} THEN 0
                 ELSE f[Some(s)] + by(s \ {Some(s)})[s \ {Some(s)}]
    OBVIOUS
  <2>2. CASE s = {}
    <3> HIDE DEF all, by
    <3>1. by(s)[s] = 0
      BY <1>4, <1>5, <2>2, SumsAt
    <3> QED BY <3>1, <2>1, <2>2
  <2>3. CASE s # {}
    <3> DEFINE u == s \ {Some(s)}
    <3> HIDE DEF all, by
    <3>1. Some(s) \in s
      BY <2>3, SomeIn
    <3>2. u \in SUBSET s /\ u \in SUBSET T /\ u # T /\ u \in SUBSET (s \cap u)
      BY <3>1
    <3>3. by(s)[s] = f[Some(s)] + by(s)[u]
      BY <1>4, <1>5, <2>3, SumsAt
    <3>4. IsFiniteSet(u)
      BY <3>2, FS_Subset
    <3>5. by(s)[u] = by(u)[u]
      BY <3>2, <3>4, <1>4, <1>5, SumsAgree
    <3> QED BY <2>1, <2>3, <3>3, <3>5
  <2> QED BY <2>2, <2>3
<1>6. all = [s \in SUBSET T |-> IF s = {} THEN 0
                                ELSE f[Some(s)] + all[s \ {Some(s)}]]
  <2>1. ASSUME NEW s \in SUBSET T, s # {}
        PROVE  all[s \ {Some(s)}] = by(s \ {Some(s)})[s \ {Some(s)}]
    <3> HIDE DEF all, by
    <3>1. Some(s) \in s
      BY <2>1, SomeIn
    <3>2. s \ {Some(s)} \in SUBSET T /\ s \ {Some(s)} # T
      BY <3>1
    <3> QED BY <3>2, <1>5
  <2> HIDE DEF by
  <2> QED BY <2>1
<1>7. Sums(f, T, all)
  BY <1>6, Zenon DEF Sums
<1> HIDE DEF all
<1>8. \E it : Sums(f, T, it)
  BY <1>7
<1> QED BY <1>8, <1>3

LEMMA SumEmpty ==
  ASSUME NEW f
  PROVE  SumOf(f, {}) = 0
<1>1. PICK it : Sums(f, {}, it)
  BY SumsExists, FS_EmptySet
<1>2. Sums(f, {}, CHOOSE i : Sums(f, {}, i))
  BY <1>1
<1>3. \A s \in SUBSET {} : s = {} => (CHOOSE i : Sums(f, {}, i))[s] = 0
  BY <1>2, SumsAt
<1>4. (CHOOSE i : Sums(f, {}, i))[{}] = 0
  BY <1>3
<1> QED BY <1>4, SumDef

LEMMA SumStep ==
  ASSUME NEW f, NEW S, IsFiniteSet(S), S # {}
  PROVE  SumOf(f, S) = f[Some(S)] + SumOf(f, S \ {Some(S)})
<1> DEFINE R == S \ {Some(S)}
           i == CHOOSE it : Sums(f, S, it)
           j == CHOOSE it : Sums(f, R, it)
<1>1. IsFiniteSet(R)
  BY FS_Subset
<1>2. Sums(f, S, i)
  <2>1. \E it : Sums(f, S, it)
    BY SumsExists
  <2> QED BY <2>1
<1>3. Sums(f, R, j)
  <2>1. \E it : Sums(f, R, it)
    BY SumsExists, <1>1
  <2> QED BY <2>1
<1>4. SumOf(f, S) = i[S] /\ SumOf(f, R) = j[R]
  BY SumDef
<1>5. R \in SUBSET (S \cap R)
  OBVIOUS
<1> HIDE DEF i, j
<1>6. i[R] = j[R]
  <2> HIDE DEF R
  <2> QED BY <1>1, <1>2, <1>3, <1>5, SumsAgree
<1>7. \A s \in SUBSET S : s # {} => i[s] = f[Some(s)] + i[s \ {Some(s)}]
  BY <1>2, SumsAt
<1>8. i[S] = f[Some(S)] + i[R]
  BY <1>7
<1> QED BY <1>4, <1>6, <1>8

\* A sum of naturals is a natural.
LEMMA SumNat ==
  ASSUME NEW D, NEW f \in [D -> Nat], NEW S \in SUBSET D, IsFiniteSet(S)
  PROVE  SumOf(f, S) \in Nat
<1> DEFINE C == {V \in SUBSET S : SumOf(f, V) \notin Nat}
<1>1. SUFFICES ASSUME C # {} PROVE FALSE
  OBVIOUS
<1>2. C \subseteq SUBSET S
  OBVIOUS
<1>3. PICK V \in C : \A W \in C : W \subseteq V => W = V
  <2> HIDE DEF C
  <2> QED BY <1>1, <1>2, SmallestExists
<1>4. V # {}
  BY SumEmpty
<1>5. Some(V) \in V /\ IsFiniteSet(V)
  BY <1>4, SomeIn, FS_Subset
<1>6. SumOf(f, V) = f[Some(V)] + SumOf(f, V \ {Some(V)})
  BY <1>4, <1>5, SumStep
<1>7. V \ {Some(V)} \notin C
  BY <1>3, <1>5
<1>8. SumOf(f, V \ {Some(V)}) \in Nat
  BY <1>7
<1>9. f[Some(V)] \in Nat
  BY <1>5
<1>10. SumOf(f, V) \in Nat
  BY <1>6, <1>8, <1>9
<1> QED BY <1>10

\* Any member can be taken out first.
LEMMA SumRemove ==
  ASSUME NEW D, NEW f \in [D -> Nat], NEW S \in SUBSET D, IsFiniteSet(S),
         NEW x \in S
  PROVE  SumOf(f, S) = f[x] + SumOf(f, S \ {x})
<1> DEFINE Splits(V, y) == SumOf(f, V) = f[y] + SumOf(f, V \ {y})
           C == {V \in SUBSET S : \E y \in V : ~ Splits(V, y)}
<1>1. SUFFICES ASSUME C # {} PROVE FALSE
  BY <1>1
<1>2. C \subseteq SUBSET S
  OBVIOUS
<1>3. PICK V \in C : \A W \in C : W \subseteq V => W = V
  <2> HIDE DEF C
  <2> QED BY <1>1, <1>2, SmallestExists
<1>4. PICK y \in V : ~ Splits(V, y)
  OBVIOUS
<1> DEFINE z == Some(V)
<1>5. V # {} /\ z \in V /\ IsFiniteSet(V)
  BY SomeIn, FS_Subset
<1>6. SumOf(f, V) = f[z] + SumOf(f, V \ {z})
  BY <1>5, SumStep
<1> HIDE DEF z
<1>7. z # y
  BY <1>4, <1>6
<1>8. V \ {z} \notin C /\ V \ {y} \notin C
  BY <1>3, <1>5
<1>9. Splits(V \ {z}, y) /\ Splits(V \ {y}, z)
  BY <1>5, <1>7, <1>8
<1>10. (V \ {z}) \ {y} = (V \ {y}) \ {z}
  OBVIOUS
<1>11. f[y] \in Nat /\ f[z] \in Nat
  BY <1>5
<1>12. SumOf(f, (V \ {y}) \ {z}) \in Nat
  <2>1. (V \ {y}) \ {z} \in SUBSET D /\ IsFiniteSet((V \ {y}) \ {z})
    BY <1>5, FS_Subset
  <2> QED BY <2>1, SumNat
<1>13. SumOf(f, V) = f[y] + SumOf(f, V \ {y})
  BY <1>6, <1>9, <1>10, <1>11, <1>12
<1> QED BY <1>4, <1>13

LEMMA SumSingle ==
  ASSUME NEW D, NEW f \in [D -> Nat], NEW x \in D
  PROVE  SumOf(f, {x}) = f[x]
<1>1. {x} \in SUBSET D /\ IsFiniteSet({x}) /\ f[x] \in Nat
  BY FS_Singleton
<1>2. SumOf(f, {x}) = f[x] + SumOf(f, {x} \ {x})
  <2>1. \A y \in {x} : SumOf(f, {x}) = f[y] + SumOf(f, {x} \ {y})
    BY <1>1, SumRemove
  <2> QED BY <2>1
<1>3. {x} \ {x} = {}
  OBVIOUS
<1>4. SumOf(f, {x} \ {x}) = 0
  BY <1>3, SumEmpty
<1> QED BY <1>1, <1>2, <1>4

\* A larger set sums up to no less, and to the same if the rest counts nothing.
LEMMA SumGrow ==
  ASSUME NEW D, NEW f \in [D -> Nat], NEW S \in SUBSET D, IsFiniteSet(S),
         NEW T \in SUBSET S
  PROVE  /\ SumOf(f, T) <= SumOf(f, S)
         /\ (\A x \in S \ T : f[x] = 0) => SumOf(f, T) = SumOf(f, S)
<1> DEFINE Good(V) == /\ SumOf(f, T) <= SumOf(f, V)
                      /\ (\A x \in V \ T : f[x] = 0) => SumOf(f, T) = SumOf(f, V)
           C == {V \in SUBSET S : T \subseteq V /\ ~ Good(V)}
<1>1. SUFFICES ASSUME C # {} PROVE FALSE
  BY <1>1
<1>2. C \subseteq SUBSET S
  OBVIOUS
<1>3. PICK V \in C : \A W \in C : W \subseteq V => W = V
  <2> HIDE DEF C
  <2> QED BY <1>1, <1>2, SmallestExists
<1>4. IsFiniteSet(T) /\ IsFiniteSet(V)
  BY FS_Subset
<1>5. SumOf(f, T) \in Nat /\ SumOf(f, V) \in Nat
  BY <1>4, SumNat
<1>6. V # T
  BY <1>5
<1>7. PICK x \in V \ T : TRUE
  BY <1>6
<1>8. SumOf(f, V) = f[x] + SumOf(f, V \ {x})
  BY <1>4, SumRemove
<1>9. V \ {x} \notin C
  BY <1>3, <1>7
<1>10. Good(V \ {x})
  BY <1>9, <1>7
<1>11. IsFiniteSet(V \ {x})
  BY <1>4, FS_Subset
<1>12. SumOf(f, V \ {x}) \in Nat /\ f[x] \in Nat
  BY <1>11, SumNat
<1>13. SumOf(f, T) <= SumOf(f, V)
  BY <1>5, <1>8, <1>10, <1>12
<1>14. ASSUME \A y \in V \ T : f[y] = 0 PROVE SumOf(f, T) = SumOf(f, V)
  <2>1. f[x] = 0
    BY <1>14, <1>7
  <2>2. \A y \in (V \ {x}) \ T : f[y] = 0
    BY <1>14
  <2> QED BY <2>1, <2>2, <1>5, <1>8, <1>10, <1>12
<1>15. Good(V)
  BY <1>13, <1>14
<1> QED BY <1>15

-----------------------------------------------------------------------------
(* The inductive invariant.                                                   *)

\* The n slots from slot i are within those of the data.
Room(i, n) == COL <= i /\ n > 0 /\ i + n <= SlotMax

RlMsg ==
  {m \in [typ : {"RL_ALLOC"}, as : As, rpso : Nat, nrps : Nat, sz : Nat,
          tick : Nat] : Room(m.rpso, m.nrps)}
AckMsg == [typ : {"ACK"}, as : As, bitmap : SUBSET Nat]
Msg == RlMsg \cup AckMsg
Rec == [start : Nat, rpsos : [Slot -> [as : Nat, n : Nat]]]

GsTypes ==
  /\ phase \in {"begin", "air", "data"}
  /\ armed \in 0 .. 2 /\ late \in 0 .. MaxLate
  /\ assembling \in SUBSET Msg /\ assembled \in Seq(SUBSET Msg)
  /\ delayed \in Seq(Rec) /\ rpso_queue \in Seq(Rec)
  /\ rl_drr \in [As -> Nat]
EnTypes ==
  /\ reassy_queue \in [As -> SUBSET [as : Nat, pid : Nat]]
  /\ iwindow \in [As -> SUBSET [as : Nat, pid : Nat]]
  /\ ack_bitset \in [As -> SUBSET Nat] /\ told \in [As -> SUBSET Nat]
  /\ acking \in [As -> BOOLEAN]
WinTypes ==
  /\ lined \in [As -> Nat] /\ handed \in [As -> Nat] /\ sent \in [As -> Nat]
  /\ acked \in [As -> SUBSET Nat] /\ cos_req_res \in [As -> Nat]
AsTypes ==
  /\ cc_pq \in [As -> SUBSET Msg]
  /\ RPSO \in [As -> Nat] /\ NRPS \in [As -> Nat] /\ frag \in [As -> Nat]
  /\ rl_data_q \in [As -> Seq(SUBSET Nat)]
  /\ ticked \in SUBSET As
SlotTypes == slots \in [Slot -> [as : Nat, sdus : SUBSET Nat]]
LossTypes == lost \in [As -> SUBSET Nat]

Types ==
  GsTypes /\ EnTypes /\ WinTypes /\ AsTypes /\ SlotTypes /\ LossTypes

\* The parameters of a grant name slots of the data, or none.
ParamsFit ==
  \A a \in As : (RPSO[a] = 0 /\ NRPS[a] = 0) \/ Room(RPSO[a], NRPS[a])

\* What is requested is in the window, and what is in the window was handed in.
Window ==
  \A a \in As :
    /\ sent[a] <= lined[a] /\ lined[a] <= handed[a] /\ handed[a] <= Sdus[a]
    /\ cos_req_res[a] + rl_drr[a] <= lined[a]
    /\ Cardinality(InWindow(a)) <= WinSize

\* Record r grants to station a the n slots from slot i.
Grants(r, a, i, n) == i \in Slot /\ n > 0 /\ r.rpsos[i] = [as |-> a, n |-> n]

\* The grants of a record follow each other, one for each station.
WellFormed(r) ==
  /\ r.start \in COL .. SlotMax
  /\ \A i \in Slot : r.rpsos[i].n > 0 =>
       /\ r.rpsos[i].as \in As /\ COL <= i /\ i + r.rpsos[i].n <= r.start
       /\ \A j \in Slot : r.rpsos[j].n > 0 =>
            /\ i < j => i + r.rpsos[i].n <= j
            /\ r.rpsos[i].as = r.rpsos[j].as => i = j

\* A record sleeps for one multiframe and is used up in the next.
Records ==
  /\ Len(rpso_queue) <= 1 /\ Len(delayed) <= 1
  /\ phase = "begin" => rpso_queue = <<>>
  /\ rpso_queue # <<>> => WellFormed(Head(rpso_queue))
  /\ delayed # <<>> => WellFormed(Head(delayed))

\* All this holds however late a packet is closed.
Bounds == Types /\ ParamsFit /\ Window /\ Records

\* Each grant of the messages M is in the record at the head of the queue q.
Backed(M, q) ==
  \A m \in M : m.typ = "RL_ALLOC" =>
    /\ q # <<>> /\ Grants(Head(q), m.as, m.rpso, m.nrps)
    /\ m.sz <= m.nrps * Per
    /\ \A n \in M : n.typ = "RL_ALLOC" /\ n.as = m.as => n = m

\* A packet is closed before the next tick and sent after it.
Phases ==
  /\ armed \in {0, 1} /\ (phase # "begin" => armed = 1)
  /\ Len(assembled) <= 1
  /\ phase = "data" => assembled = <<>>
  /\ phase = "begin" /\ armed = 1 => assembled = <<>>
  /\ armed = 0 => \A m \in assembling : m.typ # "RL_ALLOC"

\* The record of a grant keeps step with it: with the packet that tells it to
\* the station, and with the slots the station fills.
AsInStep(a) ==
  /\ Backed(cc_pq[a], rpso_queue)
  /\ \A m \in cc_pq[a] :
       /\ m.as = a
       /\ m.typ = "RL_ALLOC" =>
            phase = "data" /\ a \notin ticked /\ frag[a] = 0 /\ NRPS[a] = 0
  /\ NRPS[a] = 0 => RPSO[a] = 0
  /\ NRPS[a] > 0 =>
       /\ phase = "data" /\ a \notin ticked /\ rpso_queue # <<>>
       /\ Grants(Head(rpso_queue), a, RPSO[a], NRPS[a])
GsInStep ==
  /\ Backed(assembling, delayed)
  /\ Backed(Closed, IF phase = "begin" THEN delayed ELSE rpso_queue)

InStep == Records /\ GsInStep /\ \A a \in As : AsInStep(a)

\* Slot i belongs to the grant that record r has at slot k.
Within(r, i, k) == k <= i /\ i < k + r.rpsos[k].n

\* Station a has filled grant k of record r.
FilledBy(filled, r, k, a) ==
  /\ r.rpsos[k].as = a /\ r.rpsos[k].n > 0
  /\ \A j \in Slot : Within(r, j, k) => filled[j].as = a

\* A slot with something in it belongs to a grant the station has filled.
Sorted ==
  \A i \in Slot : slots[i] # Empty =>
    /\ phase = "data" /\ rpso_queue # <<>> /\ slots[i].as \in ticked
    /\ slots[i].sdus \subseteq 1 .. sent[slots[i].as]
    /\ \E k \in Slot : /\ Within(Head(rpso_queue), i, k)
                       /\ FilledBy(slots, Head(rpso_queue), k, slots[i].as)

\* What the entity of a has of the SDUs of a.
Sdu(a, P) == {[as |-> a, pid |-> p] : p \in P}
Has(a, P) == Sdu(a, P) \subseteq iwindow[a]

\* What is on its way from a station was sent by it.
Own ==
  \A a \in As :
    /\ \A i \in 1 .. Len(rl_data_q[a]) : rl_data_q[a][i] \subseteq 1 .. sent[a]
    /\ reassy_queue[a] \cup iwindow[a] \subseteq Sdu(a, 1 .. sent[a])

\* What the acknowledgements under way to station a say.
Acks(a) == AcksIn(assembling \cup Closed \cup cc_pq[a], a)

\* Only what has been received is acknowledged, at every stage of the way.
Honest ==
  \A a \in As :
    /\ Has(a, acked[a]) /\ Has(a, ack_bitset[a]) /\ Has(a, told[a])
    /\ Has(a, Acks(a))

\* What is being replaced in ack_bitset has been told.
Told == \A a \in As : told[a] \subseteq acked[a] \cup lost[a] \cup Acks(a)

\* What a missed frame costs is a number.
MissedType == missed \in [As -> Nat]

\* All this holds until a packet is closed late.
OnTime ==
  Phases /\ InStep /\ Sorted /\ Own /\ Honest /\ Told /\ MissedType

Inv == Bounds /\ (late = 0 => OnTime) /\ NothingVanishes /\ Covered

-----------------------------------------------------------------------------
(* What resource_rl_alloc_cb lays out: the grants follow each other.          *)

\* Whole blocks hold what they are for.
LEMMA BlocksHold ==
  ASSUME NEW x \in Nat
  PROVE  /\ Blocks(x) \in Nat
         /\ x <= Blocks(x) * Per
         /\ x > 0 <=> Blocks(x) > 0
<1> DEFINE q == (x + Per - 1) \div Per
<1>1. Per \in Nat /\ Per > 0
  BY RlAssumption
<1>2. q \in Int /\ q * Per <= x + Per - 1 /\ x + Per - 1 < q * Per + Per
  BY <1>1, SMT
<1>3. q >= 0
  BY <1>1, <1>2, SMT
<1>4. x > 0 => q > 0
  BY <1>1, <1>2, SMT
<1>5. q > 0 => x > 0
  BY <1>1, <1>2, SMT
<1>6. x <= q * Per
  <2> DEFINE m == q * Per
  <2>1. m \in Int
    BY <1>1, <1>2
  <2> HIDE DEF q, m
  <2> QED BY <1>1, <1>2, <2>1
<1>7. Blocks(x) = q
  BY DEF Blocks
<1> HIDE DEF q
<1> QED BY <1>2, <1>3, <1>4, <1>5, <1>6, <1>7

LEMMA AllBlocksType ==
  ASSUME NEW g \in [As -> Nat]
  PROVE  /\ AllBlocks(g) \in [As -> Nat]
         /\ \A a \in As : AllBlocks(g)[a] = Blocks(g[a])
BY BlocksHold DEF AllBlocks

LEMMA AsFinite ==
  /\ IsFiniteSet(As) /\ As \subseteq Nat \ {0}
  /\ \A S \in SUBSET As : IsFiniteSet(S)
  /\ \A a \in As : a \in Nat /\ a # 0
BY RlAssumption, FS_Subset

LEMMA Params ==
  /\ COL \in Nat /\ SlotMax \in Nat /\ COL < SlotMax
  /\ Per \in Nat /\ Per > 0
  /\ WinSize \in Nat /\ WinSize > 0
  /\ AckBits \in Nat /\ AckBits > 0 /\ ReadBits \in Nat /\ ReadBits > 0
BY RlAssumption

LEMMA StartType ==
  ASSUME NEW g \in [As -> Nat], NEW a \in As
  PROVE  Start(g, a) \in Nat /\ COL <= Start(g, a)
<1>1. SumOf(AllBlocks(g), {b \in As : b < a}) \in Nat
  BY AllBlocksType, AsFinite, SumNat
<1> QED BY <1>1, RlAssumption DEF Start, Before, SumOf

\* The blocks up to and with those of station a.
LEMMA UpTo ==
  ASSUME NEW g \in [As -> Nat], NEW a \in As
  PROVE  COL + SumOf(AllBlocks(g), {b \in As : b <= a}) =
         Start(g, a) + Blocks(g[a])
<1> DEFINE L == {b \in As : b < a}
           U == {b \in As : b <= a}
<1>1. a \in U /\ U \ {a} = L /\ U \in SUBSET As /\ L \in SUBSET As
  <2>1. \A c \in As : c \in Nat
    BY AsFinite
  <2> QED BY <2>1
<1>2. IsFiniteSet(U) /\ IsFiniteSet(L)
  BY <1>1, AsFinite
<1> HIDE DEF U
<1>3. SumOf(AllBlocks(g), U) = AllBlocks(g)[a] + SumOf(AllBlocks(g), U \ {a})
  BY <1>1, <1>2, AllBlocksType, SumRemove
<1>4. Start(g, a) = COL + SumOf(AllBlocks(g), L)
  BY DEF Start, Before, SumOf
<1>5. SumOf(AllBlocks(g), L) \in Nat
  BY <1>1, <1>2, AllBlocksType, SumNat
<1>6. AllBlocks(g)[a] = Blocks(g[a]) /\ Blocks(g[a]) \in Nat
  BY AllBlocksType, BlocksHold
<1>7. COL + SumOf(AllBlocks(g), U) = Start(g, a) + Blocks(g[a])
  <2>1. SumOf(AllBlocks(g), U) = Blocks(g[a]) + SumOf(AllBlocks(g), L)
    BY <1>1, <1>3, <1>6
  <2> HIDE DEF L
  <2> QED BY <2>1, <1>4, <1>5, <1>6, Params
<1> QED BY <1>7 DEF U

LEMMA StartNext ==
  ASSUME NEW g \in [As -> Nat], NEW a \in As, NEW b \in As, a < b
  PROVE  Start(g, a) + Blocks(g[a]) <= Start(g, b)
<1> DEFINE U == {c \in As : c <= a}
           L == {c \in As : c < b}
<1>1. U \in SUBSET L /\ L \in SUBSET As /\ IsFiniteSet(L) /\ IsFiniteSet(U)
  <2>1. \A c \in As : c \in Nat
    BY AsFinite
  <2>2. U \in SUBSET L /\ L \in SUBSET As /\ U \in SUBSET As
    BY <2>1
  <2> HIDE DEF U, L
  <2> QED BY <2>2, AsFinite
<1>2. Start(g, b) = COL + SumOf(AllBlocks(g), L)
  BY DEF Start, Before, SumOf
<1>3. COL + SumOf(AllBlocks(g), U) = Start(g, a) + Blocks(g[a])
  BY UpTo
<1> HIDE DEF U, L
<1>4. SumOf(AllBlocks(g), U) <= SumOf(AllBlocks(g), L)
  BY <1>1, AllBlocksType, SumGrow
<1>5. SumOf(AllBlocks(g), U) \in Nat /\ SumOf(AllBlocks(g), L) \in Nat
  BY <1>1, AllBlocksType, SumNat
<1> QED BY <1>2, <1>3, <1>4, <1>5, Params

\* Before a grant that finds room, every other one found it.
LEMMA GrantedEnds ==
  ASSUME NEW g \in [As -> Nat], NEW a \in Granted(g)
  PROVE  Start(g, a) + Blocks(g[a]) <= Record(g).start
<1> DEFINE U == {c \in As : c <= a}
           T == {c \in Granted(g) : c <= a}
<1>1. a \in As /\ Granted(g) \in SUBSET As
  BY DEF Granted
<1>2. U \in SUBSET As /\ T \in SUBSET U /\ T \in SUBSET Granted(g)
  BY <1>1
<1>3. IsFiniteSet(U) /\ IsFiniteSet(Granted(g)) /\ IsFiniteSet(T)
  BY <1>1, <1>2, AsFinite
<1>4. ASSUME NEW c \in U \ T PROVE AllBlocks(g)[c] = 0
  <2>1. c \in As /\ c < a /\ c \notin Granted(g)
    BY <1>1, AsFinite
  <2>2. Start(g, c) + Blocks(g[c]) <= Start(g, a)
    BY <1>1, <2>1, StartNext
  <2>3. Start(g, a) <= SlotMax
    <3>1. Start(g, a) + Blocks(g[a]) <= SlotMax
      BY DEF Granted, Fits
    <3> QED BY <3>1, <1>1, StartType, BlocksHold, RlAssumption
  <2>4. Start(g, c) \in Nat /\ Start(g, a) \in Nat /\ Blocks(g[c]) \in Nat
    BY <1>1, <2>1, StartType, BlocksHold
  <2>5. ~ (g[c] > 0)
    BY <2>1, <2>2, <2>3, <2>4, RlAssumption DEF Granted, Fits
  <2> QED BY <2>1, <2>4, <2>5, BlocksHold, AllBlocksType
<1>5. COL + SumOf(AllBlocks(g), U) = Start(g, a) + Blocks(g[a])
  BY <1>1, UpTo
<1>6. Record(g).start = COL + SumOf(AllBlocks(g), Granted(g))
  BY DEF Record, SumOf
<1> HIDE DEF U, T
<1>7. SumOf(AllBlocks(g), T) = SumOf(AllBlocks(g), U)
  BY <1>2, <1>3, <1>4, AllBlocksType, SumGrow
<1>8. SumOf(AllBlocks(g), T) <= SumOf(AllBlocks(g), Granted(g))
  BY <1>1, <1>2, <1>3, AllBlocksType, SumGrow
<1>9. SumOf(AllBlocks(g), T) \in Nat /\ SumOf(AllBlocks(g), Granted(g)) \in Nat
  <2>1. T \in SUBSET As
    BY <1>1, <1>2
  <2> QED BY <1>1, <1>3, <2>1, AllBlocksType, SumNat
<1> QED BY <1>5, <1>6, <1>7, <1>8, <1>9, Params

LEMMA RecordStart ==
  ASSUME NEW g \in [As -> Nat]
  PROVE  Record(g).start \in COL .. SlotMax
<1>1. Granted(g) \in SUBSET As /\ IsFiniteSet(Granted(g))
  BY AsFinite DEF Granted
<1>2. Record(g).start = COL + SumOf(AllBlocks(g), Granted(g))
  BY DEF Record, SumOf
<1>3. SumOf(AllBlocks(g), Granted(g)) \in Nat
  BY <1>1, AllBlocksType, SumNat
<1>4. CASE Granted(g) = {}
  BY <1>2, <1>4, SumEmpty, Params
<1>5. CASE Granted(g) # {}
  <2>1. Granted(g) \subseteq Nat
    BY <1>1, AsFinite
  <2>2. PICK a \in Granted(g) : \A b \in Granted(g) : b <= a
    BY <1>1, <1>5, <2>1, FiniteMax
  <2> DEFINE U == {c \in As : c <= a}
  <2>3. Granted(g) \in SUBSET U /\ U \in SUBSET As /\ IsFiniteSet(U) /\ a \in As
    <3>1. Granted(g) \in SUBSET U /\ U \in SUBSET As /\ a \in As
      BY <1>1, <2>2
    <3> HIDE DEF U
    <3> QED BY <3>1, AsFinite
  <2>4. COL + SumOf(AllBlocks(g), U) = Start(g, a) + Blocks(g[a])
    BY <2>3, UpTo
  <2>5. Start(g, a) + Blocks(g[a]) <= SlotMax
    BY DEF Granted, Fits
  <2> HIDE DEF U
  <2>6. SumOf(AllBlocks(g), Granted(g)) <= SumOf(AllBlocks(g), U)
    BY <2>3, AllBlocksType, SumGrow
  <2>7. SumOf(AllBlocks(g), U) \in Nat
    BY <2>3, AllBlocksType, SumNat
  <2> QED BY <1>2, <1>3, <2>4, <2>5, <2>6, <2>7, Params
<1> QED BY <1>4, <1>5

\* One slot starts one grant.
LEMMA StartsDiffer ==
  ASSUME NEW g \in [As -> Nat], NEW a \in Granted(g), NEW b \in Granted(g), a # b
  PROVE  \/ /\ Start(g, a) + Blocks(g[a]) <= Start(g, b)
            /\ Start(g, a) < Start(g, b)
         \/ /\ Start(g, b) + Blocks(g[b]) <= Start(g, a)
            /\ Start(g, b) < Start(g, a)
<1>1. a \in As /\ b \in As /\ a \in Nat /\ b \in Nat /\ g[a] > 0 /\ g[b] > 0
  BY AsFinite DEF Granted, Fits
<1>2. Blocks(g[a]) \in Nat /\ Blocks(g[a]) > 0
  BY <1>1, BlocksHold
<1>3. Blocks(g[b]) \in Nat /\ Blocks(g[b]) > 0
  BY <1>1, BlocksHold
<1>4. Start(g, a) \in Nat /\ Start(g, b) \in Nat
  BY <1>1, StartType
<1>5. a < b \/ b < a
  BY <1>1
<1>6. CASE a < b
  <2>1. Start(g, a) + Blocks(g[a]) <= Start(g, b)
    BY <1>1, <1>6, StartNext
  <2>2. Start(g, a) < Start(g, b)
    BY <2>1, <1>2, <1>4
  <2> QED BY <2>1, <2>2
<1>7. CASE b < a
  <2>1. Start(g, b) + Blocks(g[b]) <= Start(g, a)
    BY <1>1, <1>7, StartNext
  <2> QED BY <2>1, <1>3, <1>4
<1> QED BY <1>5, <1>6, <1>7

\* The record has at the start of a grant whose it is and how long.
LEMMA RecordAt ==
  ASSUME NEW g \in [As -> Nat], NEW a \in Granted(g)
  PROVE  /\ Start(g, a) \in Slot
         /\ Record(g).rpsos[Start(g, a)] = [as |-> a, n |-> Blocks(g[a])]
<1>1. a \in As /\ g[a] > 0 /\ Start(g, a) + Blocks(g[a]) <= SlotMax
  BY DEF Granted, Fits
<1>2. Blocks(g[a]) \in Nat /\ Blocks(g[a]) > 0
  BY <1>1, BlocksHold
<1>3. Start(g, a) \in Slot
  BY <1>1, <1>2, StartType, Params DEF Slot
<1>4. \A b \in Granted(g) : Start(g, b) = Start(g, a) => b = a
  <2>1. ASSUME NEW b \in Granted(g), Start(g, b) = Start(g, a), b # a
        PROVE  FALSE
    <3>1. Start(g, a) \in Nat
      BY <1>1, StartType
    <3>2. Start(g, a) < Start(g, b) \/ Start(g, b) < Start(g, a)
      BY <2>1, StartsDiffer
    <3> QED BY <2>1, <3>1, <3>2
  <2> QED BY <2>1
<1>5. (CHOOSE b \in Granted(g) : Start(g, b) = Start(g, a)) = a
  BY <1>4
<1>6. Record(g).rpsos[Start(g, a)] =
        [as |-> CHOOSE b \in Granted(g) : Start(g, b) = Start(g, a),
         n |-> Blocks(g[CHOOSE b \in Granted(g) : Start(g, b) = Start(g, a)])]
  BY <1>3 DEF Record
<1> QED BY <1>3, <1>5, <1>6

\* Nothing else is in it.
LEMMA RecordOnly ==
  ASSUME NEW g \in [As -> Nat], NEW i \in Slot, Record(g).rpsos[i].n # 0
  PROVE  \E a \in Granted(g) : Start(g, a) = i
<1>1. SUFFICES ASSUME ~ \E a \in Granted(g) : Start(g, a) = i PROVE FALSE
  OBVIOUS
<1>2. Record(g).rpsos[i] = NoGrant
  BY <1>1 DEF Record
<1> QED BY <1>2 DEF NoGrant

LEMMA RecordWellFormed ==
  ASSUME NEW g \in [As -> Nat]
  PROVE  WellFormed(Record(g)) /\ Record(g) \in Rec
<1> DEFINE r == Record(g)
<1>1. r.start \in COL .. SlotMax
  BY RecordStart
<1>2. ASSUME NEW i \in Slot, r.rpsos[i].n # 0
      PROVE  \E a \in Granted(g) : /\ Start(g, a) = i
                                   /\ r.rpsos[i] = [as |-> a, n |-> Blocks(g[a])]
  BY <1>2, RecordOnly, RecordAt
<1>3. ASSUME NEW i \in Slot PROVE r.rpsos[i] \in [as : Nat, n : Nat]
  <2>1. CASE \E a \in Granted(g) : Start(g, a) = i
    <3>1. PICK a \in Granted(g) : Start(g, a) = i
      BY <2>1
    <3>2. r.rpsos[i] = [as |-> a, n |-> Blocks(g[a])]
      BY <3>1, RecordAt
    <3>3. a \in Nat /\ Blocks(g[a]) \in Nat
      BY AsFinite, BlocksHold DEF Granted
    <3> QED BY <3>2, <3>3
  <2>2. CASE ~ \E a \in Granted(g) : Start(g, a) = i
    <3>1. r.rpsos[i] = NoGrant
      BY <2>2 DEF Record
    <3> QED BY <3>1 DEF NoGrant, NoAs
  <2> QED BY <2>1, <2>2
<1>4. r \in Rec
  <2>1. r = [start |-> r.start, rpsos |-> r.rpsos]
    BY DEF Record
  <2>2. DOMAIN r.rpsos = Slot /\ r.rpsos = [i \in Slot |-> r.rpsos[i]]
    BY DEF Record
  <2>3. r.start \in Nat
    BY <1>1, Params
  <2> HIDE DEF r
  <2>4. r.rpsos \in [Slot -> [as : Nat, n : Nat]]
    BY <1>3, <2>2
  <2> QED BY <2>1, <2>3, <2>4 DEF Rec
<1>5. ASSUME NEW i \in Slot, r.rpsos[i].n > 0
      PROVE  /\ r.rpsos[i].as \in As /\ COL <= i /\ i + r.rpsos[i].n <= r.start
             /\ \A j \in Slot : r.rpsos[j].n > 0 =>
                  /\ i < j => i + r.rpsos[i].n <= j
                  /\ r.rpsos[i].as = r.rpsos[j].as => i = j
  <2>1. r.rpsos[i].n # 0
    BY <1>5
  <2>2. PICK a \in Granted(g) : /\ Start(g, a) = i
                                /\ r.rpsos[i] = [as |-> a, n |-> Blocks(g[a])]
    BY <1>2, <2>1
  <2>3. a \in As
    BY DEF Granted
  <2>4. COL <= i /\ i + Blocks(g[a]) <= r.start
    BY <2>2, <2>3, StartType, GrantedEnds
  <2>5. ASSUME NEW j \in Slot, r.rpsos[j].n > 0
        PROVE  /\ i < j => i + r.rpsos[i].n <= j
               /\ r.rpsos[i].as = r.rpsos[j].as => i = j
    <3>1. r.rpsos[j].n # 0
      BY <2>5
    <3>2. PICK b \in Granted(g) : /\ Start(g, b) = j
                                  /\ r.rpsos[j] = [as |-> b, n |-> Blocks(g[b])]
      BY <1>2, <3>1
    <3>3. i \in Nat /\ j \in Nat
      BY Params DEF Slot
    <3> HIDE DEF r
    <3>4. CASE a = b
      BY <2>2, <3>2, <3>3, <3>4
    <3>5. CASE a # b
      <4>1. \/ i + Blocks(g[a]) <= j /\ i < j
            \/ j + Blocks(g[b]) <= i /\ j < i
        BY <2>2, <3>2, <3>5, StartsDiffer
      <4> QED BY <4>1, <2>2, <3>2, <3>3, <3>5
    <3> QED BY <3>4, <3>5
  <2> HIDE DEF r
  <2> QED BY <2>2, <2>3, <2>4, <2>5
<1>6. \A i \in Slot : r.rpsos[i].n > 0 =>
        /\ r.rpsos[i].as \in As /\ COL <= i /\ i + r.rpsos[i].n <= r.start
        /\ \A j \in Slot : r.rpsos[j].n > 0 =>
             /\ i < j => i + r.rpsos[i].n <= j
             /\ r.rpsos[i].as = r.rpsos[j].as => i = j
  <2> HIDE DEF r
  <2> QED BY <1>5
<1> HIDE DEF r
<1>7. WellFormed(r)
  BY <1>1, <1>6 DEF WellFormed
<1> QED BY <1>4, <1>7 DEF r

\* The messages of the grants are in the record.
LEMMA AllocsBacked ==
  ASSUME NEW g \in [As -> Nat], armed \in Nat
  PROVE  /\ RlAllocs(g) \in SUBSET RlMsg
         /\ Backed(RlAllocs(g), <<Record(g)>>)
<1>1. ASSUME NEW m \in RlAllocs(g)
      PROVE  /\ m \in RlMsg
             /\ Grants(Record(g), m.as, m.rpso, m.nrps)
             /\ m.sz <= m.nrps * Per
             /\ \A n \in RlAllocs(g) : n.as = m.as => n = m
  <2>1. PICK a \in Granted(g) :
          m = [typ |-> "RL_ALLOC", as |-> a, rpso |-> Start(g, a),
               nrps |-> Blocks(g[a]), sz |-> g[a], tick |-> armed]
    BY DEF RlAllocs
  <2>2. a \in As /\ g[a] \in Nat /\ g[a] > 0
    BY DEF Granted, Fits
  <2>3. Blocks(g[a]) \in Nat /\ Blocks(g[a]) > 0 /\ g[a] <= Blocks(g[a]) * Per
    BY <2>2, BlocksHold
  <2>4. m \in RlMsg
    <3>1. Start(g, a) \in Nat /\ Room(Start(g, a), Blocks(g[a]))
      BY <2>2, <2>3, StartType DEF Granted, Fits, Room
    <3>2. Room(m.rpso, m.nrps)
      BY <2>1, <3>1
    <3> QED BY <2>1, <2>2, <2>3, <3>1, <3>2 DEF RlMsg
  <2>5. Grants(Record(g), m.as, m.rpso, m.nrps)
    BY <2>1, <2>3, RecordAt DEF Grants
  <2>6. \A n \in RlAllocs(g) : n.as = m.as => n = m
    BY <2>1 DEF RlAllocs
  <2> QED BY <2>1, <2>3, <2>4, <2>5, <2>6
<1>2. Head(<<Record(g)>>) = Record(g) /\ <<Record(g)>> # <<>>
  OBVIOUS
<1> QED BY <1>1, <1>2 DEF Backed

-----------------------------------------------------------------------------
(* The loop of PHY_DATA_IND over the slots, for any slots and any record.     *)

Stride(r, j) == IF slots[j] = Empty THEN 1 ELSE r.rpsos[j].n

\* at[i]: the loop comes by slot i.
Passes(r, at) ==
  at = [i \in 0 .. r.start |->
          i = 0 \/ \E j \in 0 .. i - 1 : at[j] /\ i = j + Stride(r, j)]

LEMMA LookedDef ==
  ASSUME NEW r
  PROVE  Looked(r) = {i \in 0 .. r.start - 1 :
                        (CHOOSE at : Passes(r, at))[i] /\ slots[i] # Empty}
BY Zenon DEF Looked, Passes, Stride

\* What the loop comes by is the least set that is closed under its steps.
Reaches(r, S) ==
  /\ 0 \in S
  /\ \A j \in S : \A i \in 0 .. r.start : j < i /\ i = j + Stride(r, j) => i \in S

Passed(r) == {i \in 0 .. r.start :
                \A S \in SUBSET (0 .. r.start) : Reaches(r, S) => i \in S}

LEMMA PassedStep ==
  ASSUME NEW r, r.start \in Nat, NEW i \in 0 .. r.start
  PROVE  i \in Passed(r) <=>
           i = 0 \/ \E j \in 0 .. i - 1 : j \in Passed(r) /\ i = j + Stride(r, j)
<1>1. ASSUME i = 0 PROVE i \in Passed(r)
  BY <1>1 DEF Passed, Reaches
<1>2. ASSUME NEW j \in 0 .. i - 1, j \in Passed(r), i = j + Stride(r, j)
      PROVE  i \in Passed(r)
  <2>1. ASSUME NEW S \in SUBSET (0 .. r.start), Reaches(r, S) PROVE i \in S
    <3>1. j \in S
      BY <1>2, <2>1 DEF Passed
    <3>2. j < i
      OBVIOUS
    <3>3. \A k \in 0 .. r.start : j < k /\ k = j + Stride(r, j) => k \in S
      BY <2>1, <3>1, Zenon DEF Reaches
    <3> QED BY <1>2, <3>2, <3>3
  <2> QED BY <2>1 DEF Passed
<1>3. ASSUME i \in Passed(r), i # 0,
             \A j \in 0 .. i - 1 : ~ (j \in Passed(r) /\ i = j + Stride(r, j))
      PROVE  FALSE
  <2> DEFINE R == Passed(r) \ {i}
  <2>1. R \in SUBSET (0 .. r.start)
    BY DEF Passed
  <2>2. 0 \in R
    <3>1. 0 \in Passed(r)
      BY DEF Passed, Reaches
    <3> QED BY <3>1, <1>3
  <2>3. ASSUME NEW j \in R, NEW k \in 0 .. r.start, j < k, k = j + Stride(r, j)
        PROVE  k \in R
    <3>1. k # i
      <4>1. SUFFICES ASSUME k = i PROVE FALSE
        OBVIOUS
      <4>2. j \in 0 .. i - 1
        BY <2>1, <2>3, <4>1
      <4> QED BY <1>3, <2>3, <4>1, <4>2
    <3>2. k \in Passed(r)
      <4>1. ASSUME NEW S \in SUBSET (0 .. r.start), Reaches(r, S) PROVE k \in S
        <5>1. j \in S
          BY <4>1 DEF Passed
        <5> QED BY <2>3, <4>1, <5>1, Zenon DEF Reaches
      <4> QED BY <4>1 DEF Passed
    <3> QED BY <3>1, <3>2
  <2>4. Reaches(r, R)
    <3> HIDE DEF R
    <3> QED BY <2>2, <2>3 DEF Reaches
  <2>5. i \in R
    BY <1>3, <2>1, <2>4, Zenon DEF Passed
  <2> QED BY <2>5
<1> QED BY <1>1, <1>2, <1>3

LEMMA PassesExists ==
  ASSUME NEW r, r.start \in Nat
  PROVE  \E at : Passes(r, at)
<1> DEFINE at == [i \in 0 .. r.start |-> i \in Passed(r)]
<1>1. ASSUME NEW i \in 0 .. r.start
      PROVE  at[i] = (i = 0 \/ \E j \in 0 .. i - 1 : at[j] /\ i = j + Stride(r, j))
  <2>1. \A j \in 0 .. i - 1 : j \in 0 .. r.start
    OBVIOUS
  <2>2. \A j \in 0 .. i - 1 : at[j] = (j \in Passed(r))
    BY <2>1, Zenon
  <2>3. at[i] = (i \in Passed(r))
    BY Zenon
  <2>4. i \in Passed(r) <=>
          i = 0 \/ \E j \in 0 .. i - 1 : j \in Passed(r) /\ i = j + Stride(r, j)
    BY PassedStep
  <2> HIDE DEF at
  <2>5. ASSUME NEW j \in 0 .. i - 1
        PROVE  at[j] /\ i = j + Stride(r, j) <=>
                 j \in Passed(r) /\ i = j + Stride(r, j)
    BY <2>2, Zenon
  <2>6. (i = 0 \/ \E j \in 0 .. i - 1 : at[j] /\ i = j + Stride(r, j)) <=>
        (i = 0 \/ \E j \in 0 .. i - 1 : j \in Passed(r) /\ i = j + Stride(r, j))
    BY <2>5, Zenon
  <2>7. (i \in Passed(r)) =
          (i = 0 \/ \E j \in 0 .. i - 1 : at[j] /\ i = j + Stride(r, j))
    BY <2>4, <2>6, SMT
  <2> QED BY <2>3, <2>7
<1>2. at = [i \in 0 .. r.start |-> at[i]]
  BY Zenon
<1> HIDE DEF at
<1>3. at = [i \in 0 .. r.start |->
              i = 0 \/ \E j \in 0 .. i - 1 : at[j] /\ i = j + Stride(r, j)]
  BY <1>1, <1>2, Zenon
<1> QED BY <1>3, Zenon DEF Passes

LEMMA PassesAt ==
  ASSUME NEW r, NEW at, Passes(r, at), NEW i \in 0 .. r.start
  PROVE  at[i] <=> i = 0 \/ \E j \in 0 .. i - 1 : at[j] /\ i = j + Stride(r, j)
<1>1. at[i] = (i = 0 \/ \E j \in 0 .. i - 1 : at[j] /\ i = j + Stride(r, j))
  BY Zenon DEF Passes
<1> QED BY <1>1, Zenon

\* Each slot with something in it belongs to a grant that has been filled.
SortedBy(r) ==
  \A i \in Slot : slots[i] # Empty =>
    /\ slots[i].as # NoAs
    /\ \E k \in Slot : Within(r, i, k) /\ FilledBy(slots, r, k, slots[i].as)

Length(r, k) == r.rpsos[k].n

\* Where the filled grants start.
Starts(r) == {k \in Slot : /\ Length(r, k) > 0 /\ slots[k] # Empty
                           /\ slots[k].as = r.rpsos[k].as}

LEMMA StartsFacts ==
  ASSUME NEW r \in Rec, WellFormed(r), SortedBy(r)
  PROVE  /\ \A k \in Starts(r) :
              /\ k \in Nat /\ k \in Slot /\ Length(r, k) \in Nat /\ Length(r, k) > 0
              /\ k + Length(r, k) <= r.start
              /\ \A j \in Slot : k <= j /\ j < k + Length(r, k) =>
                   slots[j] # Empty /\ slots[j].as = r.rpsos[k].as
              /\ \A l \in Starts(r) : k < l => k + Length(r, k) <= l
         /\ \A i \in Slot : slots[i] # Empty =>
              \E k \in Starts(r) : /\ k <= i /\ i < k + Length(r, k)
                                   /\ slots[i].as = r.rpsos[k].as
<1>1. \A k \in Slot : k \in Nat /\ Length(r, k) \in Nat
  BY Params DEF Slot, Rec, Length
<1>2. \A j \in Slot : slots[j].as # NoAs => slots[j] # Empty
  BY DEF Empty
<1>3. \A k \in Slot : Length(r, k) > 0 =>
        /\ k + Length(r, k) <= r.start
        /\ \A l \in Slot : Length(r, l) > 0 /\ k < l => k + Length(r, k) <= l
  BY DEF WellFormed, Length
<1>4. ASSUME NEW i \in Slot, slots[i] # Empty
      PROVE  \E k \in Starts(r) :
               /\ k <= i /\ i < k + Length(r, k)
               /\ slots[i].as = r.rpsos[k].as
               /\ \A j \in Slot : k <= j /\ j < k + Length(r, k) =>
                    slots[j] # Empty /\ slots[j].as = r.rpsos[k].as
  <2>1. slots[i].as # NoAs
    BY <1>4 DEF SortedBy
  <2>2. PICK k \in Slot : Within(r, i, k) /\ FilledBy(slots, r, k, slots[i].as)
    BY <1>4 DEF SortedBy
  <2>3. k <= i /\ i < k + Length(r, k)
    BY <2>2 DEF Within, Length
  <2>4. r.rpsos[k].as = slots[i].as /\ Length(r, k) > 0
    BY <2>2 DEF FilledBy, Length
  <2>5. \A j \in Slot : k <= j /\ j < k + Length(r, k) => slots[j].as = slots[i].as
    BY <2>2 DEF FilledBy, Within, Length
  <2>6. \A j \in Slot : k <= j /\ j < k + Length(r, k) =>
          slots[j] # Empty /\ slots[j].as = r.rpsos[k].as
    BY <1>2, <2>1, <2>4, <2>5
  <2>7. k <= k /\ k < k + Length(r, k)
    BY <1>1, <2>4
  <2>8. k \in Starts(r)
    BY <2>4, <2>6, <2>7 DEF Starts
  <2> QED BY <2>3, <2>4, <2>6, <2>8
<1>5. ASSUME NEW k \in Starts(r), NEW j \in Slot, k <= j, j < k + Length(r, k)
      PROVE  slots[j] # Empty /\ slots[j].as = r.rpsos[k].as
  <2>1. k \in Slot /\ Length(r, k) > 0 /\ slots[k] # Empty
    BY DEF Starts
  <2>2. PICK l \in Starts(r) :
               /\ l <= k /\ k < l + Length(r, l)
               /\ slots[k].as = r.rpsos[l].as
               /\ \A i \in Slot : l <= i /\ i < l + Length(r, l) =>
                    slots[i] # Empty /\ slots[i].as = r.rpsos[l].as
    BY <1>4, <2>1
  <2>3. l \in Slot /\ Length(r, l) > 0
    BY DEF Starts
  <2>4. ~ (l < k)
    BY <1>1, <1>3, <2>1, <2>2, <2>3
  <2>5. l = k
    BY <1>1, <2>1, <2>2, <2>3, <2>4
  <2> QED BY <1>5, <2>2, <2>5
<1>6. \A k \in Starts(r) : k \in Slot /\ Length(r, k) > 0
  BY DEF Starts
<1> QED BY <1>1, <1>3, <1>4, <1>5, <1>6

\* The loop looks at the first slot of every filled grant, and at no other
\* slot that holds anything: it never gets out of step with the grants.
LEMMA LoopFinds ==
  ASSUME NEW r \in Rec, WellFormed(r), SortedBy(r)
  PROVE  Looked(r) = Starts(r)
<1> DEFINE at == CHOOSE f : Passes(r, f)
           Inside(i) == \E k \in Starts(r) : k < i /\ i < k + Length(r, k)
<1>1. r.start \in Nat /\ r.start <= SlotMax
  BY Params DEF Rec, WellFormed
<1>2. Passes(r, at)
  BY <1>1, PassesExists
<1>3. Looked(r) = {i \in 0 .. r.start - 1 : at[i] /\ slots[i] # Empty}
  BY LookedDef
<1> HIDE DEF at
<1>4. \A i \in 0 .. r.start :
        at[i] <=> i = 0 \/ \E j \in 0 .. i - 1 : at[j] /\ i = j + Stride(r, j)
  BY <1>2, PassesAt
<1>5. \A i \in 0 .. r.start - 1 : i \in Slot
  BY <1>1, Params DEF Slot
<1>6. \A j \in Slot : /\ slots[j] = Empty => Stride(r, j) = 1
                      /\ slots[j] # Empty => Stride(r, j) = Length(r, j)
  BY DEF Stride, Length
<1>7. \A k \in Starts(r) :
        /\ k \in Nat /\ k \in Slot /\ Length(r, k) \in Nat /\ Length(r, k) > 0
        /\ k + Length(r, k) <= r.start
        /\ \A j \in Slot : k <= j /\ j < k + Length(r, k) => slots[j] # Empty
        /\ \A l \in Starts(r) : k < l => k + Length(r, k) <= l
  BY StartsFacts
<1>8. \A i \in Slot : slots[i] # Empty =>
        \E k \in Starts(r) : k <= i /\ i < k + Length(r, k)
  BY StartsFacts
<1>9. ASSUME NEW i \in 0 .. r.start, at[i], Inside(i),
             \A j \in 0 .. i - 1 : at[j] => ~ Inside(j)
      PROVE  FALSE
  <2>1. PICK k \in Starts(r) : k < i /\ i < k + Length(r, k)
    BY <1>9
  <2>2. i # 0
    BY <1>7, <2>1
  <2>3. PICK j \in 0 .. i - 1 : at[j] /\ i = j + Stride(r, j)
    BY <1>4, <1>9, <2>2
  <2>4. j \in Slot /\ j \in Nat
    BY <1>1, <1>5
  <2>5. CASE slots[j] = Empty
    <3>1. i = j + 1
      BY <1>6, <2>3, <2>4, <2>5
    <3>2. k <= j /\ j < k + Length(r, k)
      BY <1>7, <2>1, <2>4, <3>1
    <3> QED BY <1>7, <2>4, <2>5, <3>2
  <2>6. CASE slots[j] # Empty
    <3>1. PICK l \in Starts(r) : l <= j /\ j < l + Length(r, l)
      BY <1>8, <2>4, <2>6
    <3>2. ~ Inside(j)
      BY <1>9, <2>3
    <3>3. ~ (l < j)
      BY <3>1, <3>2
    <3>4. l = j
      BY <1>7, <2>4, <3>1, <3>3
    <3>5. i = l + Length(r, l)
      BY <1>6, <2>3, <2>4, <2>6, <3>4
    <3>6. ~ (k < l) /\ ~ (l < k) /\ k # l
      BY <1>7, <2>1, <3>5
    <3> QED BY <1>7, <3>6
  <2> QED BY <2>5, <2>6
<1>10. ASSUME NEW i \in 0 .. r.start, at[i] PROVE ~ Inside(i)
  <2> DEFINE B == {j \in 0 .. r.start : at[j] /\ Inside(j)}
  <2>1. SUFFICES ASSUME B # {} PROVE FALSE
    BY <1>10
  <2>2. B \subseteq Nat
    BY <1>1
  <2>3. PICK j \in B : \A l \in B : j <= l
    <3> HIDE DEF B
    <3> QED BY <2>1, <2>2, LeastExists
  <2>4. \A l \in 0 .. j - 1 : l \in 0 .. r.start /\ ~ (j <= l)
    BY <1>1
  <2>5. \A l \in 0 .. j - 1 : at[l] => ~ Inside(l)
    BY <2>3, <2>4
  <2> QED BY <1>9, <2>5
<1>11. ASSUME NEW i \in 0 .. r.start, ~ at[i], ~ Inside(i),
              \A j \in 0 .. i - 1 : at[j] \/ Inside(j)
       PROVE  FALSE
  <2>1. i # 0
    BY <1>4, <1>11
  <2> DEFINE j == i - 1
  <2>2. j \in 0 .. i - 1 /\ j \in Slot /\ i = j + 1 /\ j \in Nat
    BY <1>1, <1>5, <2>1
  <2> HIDE DEF j
  <2>3. CASE slots[j] = Empty
    <3>1. ~ Inside(j)
      BY <1>7, <2>2, <2>3
    <3>2. at[j]
      BY <1>11, <2>2, <3>1
    <3>3. i = j + Stride(r, j)
      BY <1>6, <2>2, <2>3
    <3> QED BY <1>4, <1>11, <2>2, <3>2, <3>3
  <2>4. CASE slots[j] # Empty
    <3>1. PICK k \in Starts(r) : k <= j /\ j < k + Length(r, k)
      BY <1>8, <2>2, <2>4
    <3>2. ~ (k < i /\ i < k + Length(r, k))
      BY <1>11
    <3>3. i = k + Length(r, k) /\ k \in 0 .. i - 1
      BY <1>7, <2>2, <3>1, <3>2
    <3>4. ~ Inside(k)
      BY <1>7
    <3>5. at[k]
      BY <1>11, <3>3, <3>4
    <3>6. slots[k] # Empty /\ k \in Slot
      BY DEF Starts
    <3>7. i = k + Stride(r, k)
      BY <1>6, <3>3, <3>6
    <3> QED BY <1>4, <1>11, <3>3, <3>5, <3>7
  <2> QED BY <2>3, <2>4
<1>12. ASSUME NEW i \in 0 .. r.start, ~ Inside(i) PROVE at[i]
  <2> DEFINE B == {j \in 0 .. r.start : ~ at[j] /\ ~ Inside(j)}
  <2>1. SUFFICES ASSUME B # {} PROVE FALSE
    BY <1>12
  <2>2. B \subseteq Nat
    BY <1>1
  <2>3. PICK j \in B : \A l \in B : j <= l
    <3> HIDE DEF B
    <3> QED BY <2>1, <2>2, LeastExists
  <2>4. \A l \in 0 .. j - 1 : l \in 0 .. r.start /\ ~ (j <= l)
    BY <1>1
  <2>5. \A l \in 0 .. j - 1 : at[l] \/ Inside(l)
    BY <2>3, <2>4
  <2> QED BY <1>11, <2>5
<1>13. ASSUME NEW i \in Looked(r) PROVE i \in Starts(r)
  <2>1. i \in 0 .. r.start - 1 /\ at[i] /\ slots[i] # Empty
    BY <1>3
  <2>2. i \in Slot /\ i \in 0 .. r.start /\ i \in Nat
    BY <1>1, <1>5, <2>1
  <2>3. PICK k \in Starts(r) : k <= i /\ i < k + Length(r, k)
    BY <1>8, <2>1, <2>2
  <2>4. ~ Inside(i)
    BY <1>10, <2>1, <2>2
  <2>5. ~ (k < i)
    BY <2>3, <2>4
  <2>6. k = i
    BY <1>7, <2>2, <2>3, <2>5
  <2> QED BY <2>6
<1>14. ASSUME NEW i \in Starts(r) PROVE i \in Looked(r)
  <2>1. i \in 0 .. r.start - 1 /\ i \in 0 .. r.start
    BY <1>1, <1>7
  <2>2. ~ Inside(i)
    BY <1>7
  <2>3. at[i]
    BY <1>12, <2>1, <2>2
  <2>4. slots[i] # Empty
    BY DEF Starts
  <2> QED BY <1>3, <2>1, <2>3, <2>4
<1> QED BY <1>13, <1>14

\* So the entity of a station gets all that the station has put into the
\* slots, and nothing else.
LEMMA FoundIs ==
  ASSUME NEW r \in Rec, WellFormed(r), SortedBy(r), NEW s \in As
  PROVE  Found(r, s) = Contents({i \in Slot : slots[i].as = s})
<1> DEFINE K == {k \in Looked(r) : r.rpsos[k].as = s}
           J == UNION {i .. i + r.rpsos[i].n - 1 : i \in K}
<1>1. Looked(r) = Starts(r)
  BY LoopFinds
<1>2. s # NoAs
  BY AsFinite DEF NoAs
<1>3. ASSUME NEW i \in Slot, slots[i].as = s PROVE i \in J
  <2>1. slots[i] # Empty
    BY <1>2, <1>3 DEF Empty
  <2>2. PICK k \in Starts(r) : /\ k <= i /\ i < k + Length(r, k)
                               /\ slots[i].as = r.rpsos[k].as
    BY <2>1, StartsFacts
  <2>3. k \in K
    BY <1>1, <1>3, <2>2
  <2>4. k \in Nat /\ Length(r, k) \in Nat /\ i \in Nat
    BY StartsFacts, Params DEF Slot
  <2>5. i \in k .. k + r.rpsos[k].n - 1
    BY <2>2, <2>4 DEF Length
  <2> HIDE DEF K
  <2> QED BY <2>3, <2>5
<1>4. ASSUME NEW j \in J PROVE j \in Slot /\ slots[j].as = s
  <2>1. PICK k \in K : j \in k .. k + r.rpsos[k].n - 1
    <3> HIDE DEF K
    <3> QED OBVIOUS
  <2>2. k \in Starts(r) /\ r.rpsos[k].as = s
    BY <1>1
  <2>3. /\ k \in Nat /\ Length(r, k) \in Nat /\ k + Length(r, k) <= r.start
        /\ \A i \in Slot : k <= i /\ i < k + Length(r, k) =>
             slots[i].as = r.rpsos[k].as
    BY <2>2, StartsFacts
  <2>4. r.start \in Nat /\ r.start <= SlotMax
    BY Params DEF Rec, WellFormed
  <2>5. j \in Nat /\ k <= j /\ j < k + Length(r, k)
    BY <2>1, <2>3 DEF Length
  <2>6. j \in Slot
    BY <2>3, <2>4, <2>5, Params DEF Slot
  <2> QED BY <2>2, <2>3, <2>5, <2>6
<1>5. J = {i \in Slot : slots[i].as = s}
  <2> HIDE DEF J
  <2> QED BY <1>3, <1>4
<1>6. Found(r, s) = Contents(J)
  BY Zenon DEF Found
<1> QED BY <1>5, <1>6, Zenon

LEMMA InContents ==
  ASSUME NEW J, NEW d
  PROVE  d \in Contents(J) <=>
           \E j \in J : \E p \in slots[j].sdus :
             d = [as |-> slots[j].as, pid |-> p]
BY DEF Contents

-----------------------------------------------------------------------------
(* What messages grant.                                                       *)

LEMMA GrantsNone ==
  ASSUME NEW M, NEW a, RlAllocsTo(M, a) = {}
  PROVE  GrantsIn(M, a) = 0
<1> DEFINE f == [m \in RlAllocsTo(M, a) |-> m.sz]
<1>1. GrantsIn(M, a) = SumOf(f, DOMAIN f)
  BY DEF GrantsIn, SumFunction, SumOf
<1>2. DOMAIN f = {}
  OBVIOUS
<1> HIDE DEF f
<1> QED BY <1>1, <1>2, SumEmpty

LEMMA GrantsOne ==
  ASSUME NEW M, NEW a, NEW m, m.sz \in Nat, RlAllocsTo(M, a) = {m}
  PROVE  GrantsIn(M, a) = m.sz
<1> DEFINE f == [x \in RlAllocsTo(M, a) |-> x.sz]
<1>1. GrantsIn(M, a) = SumOf(f, DOMAIN f)
  BY DEF GrantsIn, SumFunction, SumOf
<1>2. DOMAIN f = {m} /\ f[m] = m.sz /\ f \in [{m} -> Nat]
  OBVIOUS
<1> HIDE DEF f
<1>3. SumOf(f, {m}) = f[m]
  BY <1>2, SumSingle
<1> QED BY <1>1, <1>2, <1>3

LEMMA GrantsSame ==
  ASSUME NEW M, NEW N, NEW a, RlAllocsTo(M, a) = RlAllocsTo(N, a)
  PROVE  GrantsIn(M, a) = GrantsIn(N, a)
BY DEF GrantsIn

\* A station has at most one grant in messages that a record backs.
LEMMA GrantsBacked ==
  ASSUME NEW M \in SUBSET Msg, NEW q, Backed(M, q), NEW a
  PROVE  /\ GrantsIn(M, a) \in Nat
         /\ \A m \in M : m.typ = "RL_ALLOC" /\ m.as = a =>
              RlAllocsTo(M, a) = {m} /\ GrantsIn(M, a) = m.sz
<1>1. ASSUME NEW m \in M, m.typ = "RL_ALLOC", m.as = a
      PROVE  /\ RlAllocsTo(M, a) = {m} /\ GrantsIn(M, a) = m.sz /\ m.sz \in Nat
  <2>1. RlAllocsTo(M, a) = {m}
    BY <1>1 DEF RlAllocsTo, Backed
  <2>2. m.sz \in Nat
    BY <1>1 DEF Msg, RlMsg, AckMsg
  <2> QED BY <2>1, <2>2, GrantsOne
<1>2. CASE RlAllocsTo(M, a) = {}
  BY <1>1, <1>2, GrantsNone
<1>3. CASE RlAllocsTo(M, a) # {}
  <2>1. PICK m \in M : m.typ = "RL_ALLOC" /\ m.as = a
    BY <1>3 DEF RlAllocsTo
  <2> QED BY <1>1, <2>1
<1> QED BY <1>1, <1>2, <1>3

-----------------------------------------------------------------------------
(* Types.                                                                     *)

LEMMA SharesType ==
  ASSUME NEW g \in Shares
  PROVE  g \in [As -> Nat] /\ \A a \in As : g[a] <= rl_drr[a]
BY Params DEF Shares

LEMMA AcksType ==
  ASSUME NEW M \in SUBSET Msg, NEW a
  PROVE  AcksIn(M, a) \in SUBSET Nat
<1>1. \A m \in M : m.typ = "ACK" => m.bitmap \in SUBSET Nat
  BY DEF Msg, RlMsg, AckMsg
<1> QED BY <1>1 DEF AcksIn

LEMMA FrameType ==
  ASSUME Types
  PROVE  Frame \in SUBSET Msg /\ Closed \in SUBSET Msg
<1>1. assembled \in Seq(SUBSET Msg)
  BY DEF Types, GsTypes
<1>2. \A i \in 1 .. Len(assembled) : assembled[i] \in SUBSET Msg
  BY <1>1
<1>3. assembled # <<>> => Head(assembled) \in SUBSET Msg
  BY <1>1
<1> QED BY <1>2, <1>3 DEF Frame, Closed

LEMMA GsTypesStep ==
  ASSUME Types, Next
  PROVE  GsTypes'
<1>1. ASSUME LmeTick PROVE GsTypes'
  <2>1. PICK g \in Shares :
          /\ rl_drr' = [a \in As |-> rl_drr[a] - g[a]]
          /\ assembling' = assembling \cup RlAllocs(g)
          /\ rpso_queue' = rpso_queue \o Joining(Record(g))
          /\ delayed' = <<Record(g)>>
    BY <1>1 DEF LmeTick
  <2>2. g \in [As -> Nat] /\ \A a \in As : g[a] <= rl_drr[a]
    BY SharesType
  <2>3. rl_drr' \in [As -> Nat]
    BY <2>1, <2>2 DEF Types, GsTypes
  <2>4. assembling' \in SUBSET Msg
    <3>1. armed \in Nat
      BY DEF Types, GsTypes
    <3> QED BY <2>1, <2>2, <3>1, AllocsBacked DEF Msg, Types, GsTypes
  <2>5. Record(g) \in Rec
    BY <2>2, RecordWellFormed
  <2>6. delayed' \in Seq(Rec)
    BY <2>1, <2>5
  <2>7. rpso_queue' \in Seq(Rec)
    BY <2>1 DEF Types, GsTypes, Joining
  <2>8. armed' \in 0 .. 2
    BY <1>1 DEF LmeTick, Types, GsTypes
  <2>9. late' \in 0 .. MaxLate
    <3>1. MaxLate \in Nat /\ late \in 0 .. MaxLate
      BY RlAssumption DEF Types, GsTypes
    <3>2. late' = late \/ (late < MaxLate /\ late' = late + 1)
      BY <1>1 DEF LmeTick
    <3> QED BY <3>1, <3>2
  <2> QED BY <1>1, <2>3, <2>4, <2>6, <2>7, <2>8, <2>9
          DEF LmeTick, Types, GsTypes
<1>2. ASSUME CcFrame PROVE GsTypes'
  <2>1. assembled' \in Seq(SUBSET Msg)
    BY <1>2 DEF CcFrame, Types, GsTypes
  <2> QED BY <1>2, <2>1 DEF CcFrame, Types, GsTypes
<1>3. ASSUME RlDataUpload PROVE GsTypes'
  <2>1. rpso_queue' \in Seq(Rec)
    <3>1. rpso_queue' = IF rpso_queue = <<>> THEN <<>> ELSE Tail(rpso_queue)
      BY <1>3 DEF RlDataUpload
    <3>2. rpso_queue \in Seq(Rec)
      BY DEF Types, GsTypes
    <3> HIDE DEF Rec
    <3> QED BY <3>1, <3>2
  <2>2. /\ UNCHANGED <<armed, late, assembling, assembled, delayed, rl_drr>>
        /\ phase' = "begin"
    BY <1>3 DEF RlDataUpload
  <2> QED BY <2>1, <2>2 DEF Types, GsTypes
<1>4. ASSUME NEW a \in As, Acquire(a) PROVE GsTypes'
  <2>1. rl_drr' \in [As -> Nat]
    <3>1. \/ rl_drr' = [rl_drr EXCEPT ![a] = rl_drr[a] + cos_req_res[a]]
          \/ rl_drr' = rl_drr
      BY <1>4 DEF Acquire, Requested
    <3>2. rl_drr \in [As -> Nat] /\ cos_req_res[a] \in Nat
      BY DEF Types, GsTypes, WinTypes
    <3> QED BY <3>1, <3>2
  <2> QED BY <1>4, <2>1 DEF Acquire, Types, GsTypes
<1>5. ASSUME NEW a \in As, AckCycle(a) PROVE GsTypes'
  <2>1. [typ |-> "ACK", as |-> a, bitmap |-> Bitmap(ack_bitset[a])] \in AckMsg
    BY DEF Bitmap, AckMsg, Types, EnTypes
  <2>2. assembling' \in SUBSET Msg
    BY <1>5, <2>1 DEF AckCycle, Types, GsTypes, Msg
  <2> QED BY <1>5, <2>2 DEF AckCycle, Types, GsTypes
<1>6. ASSUME NEW a \in As,
             \/ Lineup(a) \/ SetRlParam(a) \/ DlsFrag(a) \/ DataTick(a)
             \/ RecvAck(a) \/ DlsReassy(a) \/ AckFresh(a)
      PROVE  GsTypes'
  <2>1. UNCHANGED gsvars
    BY <1>6 DEF Lineup, SetRlParam, DlsFrag, DataTick, RecvAck, DlsReassy,
                AckFresh
  <2> QED BY <2>1 DEF gsvars, Types, GsTypes
<1>7. ASSUME CloseCc PROVE GsTypes'
  <2>1. assembled' \in Seq(SUBSET Msg) /\ assembling' \in SUBSET Msg
    BY <1>7 DEF CloseCc, Types, GsTypes
  <2>2. armed' \in 0 .. 2
    BY <1>7 DEF CloseCc, Types, GsTypes
  <2> QED BY <1>7, <2>1, <2>2 DEF CloseCc, Types, GsTypes
<1> QED BY <1>1, <1>2, <1>3, <1>4, <1>5, <1>6, <1>7
        DEF Next, StationStep, EntityStep

LEMMA SortedByHead ==
  ASSUME Types, InStep, Sorted, rpso_queue # <<>>
  PROVE  /\ Head(rpso_queue) \in Rec /\ WellFormed(Head(rpso_queue))
         /\ SortedBy(Head(rpso_queue))
<1>1. Head(rpso_queue) \in Rec
  BY DEF Types, GsTypes
<1>2. WellFormed(Head(rpso_queue))
  BY DEF InStep, Records
<1>3. \A a \in ticked : a # NoAs
  BY AsFinite DEF Types, AsTypes, NoAs
<1>4. SortedBy(Head(rpso_queue))
  BY <1>3 DEF Sorted, SortedBy
<1> QED BY <1>1, <1>2, <1>4

\* The loop stays within the slots, whatever they hold.
LEMMA FoundType ==
  ASSUME Types, Records, rpso_queue # <<>>, NEW s
  PROVE  Found(Head(rpso_queue), s) \in SUBSET [as : Nat, pid : Nat]
<1> DEFINE r == Head(rpso_queue)
           K == {k \in Looked(r) : r.rpsos[k].as = s}
           J == UNION {k .. k + r.rpsos[k].n - 1 : k \in K}
<1>1. r \in Rec /\ WellFormed(r)
  BY DEF Types, GsTypes, Records
<1>2. K \subseteq Looked(r)
  OBVIOUS
<1>3. Found(r, s) = Contents(J)
  BY DEF Found
<1>4. Looked(r) \subseteq 0 .. r.start - 1
  BY DEF Looked
<1> HIDE DEF r, K
<1>5. \A k \in K : k \in Slot
  BY <1>1, <1>2, <1>4, Params DEF WellFormed, Slot
<1>6. ASSUME NEW k \in K, NEW j \in k .. k + r.rpsos[k].n - 1 PROVE j \in Slot
  <2>1. k \in Slot /\ r.rpsos[k].n \in Nat /\ k \in Nat
    BY <1>1, <1>5, Params DEF Rec, Slot
  <2>2. r.rpsos[k].n > 0 /\ k <= j /\ j < k + r.rpsos[k].n /\ j \in Int
    BY <2>1
  <2>3. k + r.rpsos[k].n <= r.start /\ r.start \in COL .. SlotMax
    BY <1>1, <2>1, <2>2 DEF WellFormed
  <2> QED BY <2>1, <2>2, <2>3, Params DEF Slot
<1>7. \A j \in J : j \in Slot
  BY <1>6
<1> HIDE DEF J
<1>8. \A j \in Slot : slots[j].as \in Nat /\ slots[j].sdus \subseteq Nat
  BY DEF Types, SlotTypes
<1>9. ASSUME NEW d \in Contents(J) PROVE d \in [as : Nat, pid : Nat]
  <2>1. PICK j \in J : \E p \in slots[j].sdus :
          d = [as |-> slots[j].as, pid |-> p]
    BY InContents
  <2>2. PICK p \in slots[j].sdus : d = [as |-> slots[j].as, pid |-> p]
    BY <2>1
  <2> QED BY <1>7, <1>8, <2>2
<1> QED BY <1>3, <1>9 DEF r

LEMMA EnTypesStep ==
  ASSUME Types, Records, Next
  PROVE  EnTypes'
<1>1. ASSUME RlDataUpload PROVE EnTypes'
  <2>1. reassy_queue' \in [As -> SUBSET [as : Nat, pid : Nat]]
    <3>1. CASE rpso_queue = <<>>
      BY <1>1, <3>1 DEF RlDataUpload, Types, EnTypes
    <3>2. CASE rpso_queue # <<>>
      <4>1. ASSUME NEW s \in As
            PROVE  Found(Head(rpso_queue), s) \in SUBSET [as : Nat, pid : Nat]
        BY <3>2, FoundType
      <4> QED BY <1>1, <3>2, <4>1 DEF RlDataUpload, Types, EnTypes
    <3> QED BY <3>1, <3>2
  <2> QED BY <1>1, <2>1 DEF RlDataUpload, Types, EnTypes
<1>2. ASSUME NEW a \in As, DlsReassy(a) PROVE EnTypes'
  BY <1>2 DEF DlsReassy, Types, EnTypes
<1>3. ASSUME NEW a \in As, AckCycle(a) PROVE EnTypes'
  BY <1>3 DEF AckCycle, Bitmap, Types, EnTypes
<1>4. ASSUME NEW a \in As, AckFresh(a) PROVE EnTypes'
  BY <1>4 DEF AckFresh, Fresh, Types, EnTypes
<1>5. ASSUME NEW a \in As, StationStep(a) PROVE EnTypes'
  <2>1. UNCHANGED envars
    BY <1>5 DEF StationStep, Lineup, Acquire, SetRlParam, DlsFrag, DataTick,
                RecvAck
  <2> QED BY <2>1 DEF envars, Types, EnTypes
<1>6. ASSUME LmeTick \/ CloseCc \/ CcFrame PROVE EnTypes'
  BY <1>6 DEF LmeTick, CloseCc, CcFrame, envars, Types, EnTypes
<1> QED BY <1>1, <1>2, <1>3, <1>4, <1>5, <1>6 DEF Next, EntityStep

\* What dls_frag_func cuts is next in the window.
LEMMA CutIs ==
  ASSUME Types, Window, NEW a \in As, frag[a] > 0
  PROVE  LET n == Cardinality(Cut(a)) IN
         /\ n \in Nat /\ Cut(a) = sent[a] + 1 .. sent[a] + n
         /\ sent[a] + n <= lined[a]
         /\ sent[a] + n = lined[a] \/ n = frag[a] * Per
<1>1. /\ lined[a] \in Nat /\ sent[a] \in Nat /\ sent[a] <= lined[a]
      /\ frag[a] \in Nat
  BY DEF Types, WinTypes, AsTypes, Window
<1> DEFINE b == frag[a] * Per
           m == IF sent[a] + b <= lined[a] THEN sent[a] + b ELSE lined[a]
<1>2. b \in Nat
  BY <1>1, Params
<1>3. Cut(a) = {i \in 1 .. lined[a] : i > sent[a] /\ i <= sent[a] + b}
  BY DEF Cut
<1> HIDE DEF b
<1>4. m \in Nat /\ sent[a] <= m /\ m <= lined[a]
  BY <1>1, <1>2
<1>5. Cut(a) = sent[a] + 1 .. m
  BY <1>1, <1>2, <1>3
<1>6. Cardinality(sent[a] + 1 .. m) = m - sent[a]
  <2> DEFINE l == sent[a] + 1
  <2>1. l \in Int /\ m \in Int /\ (l > m => m = sent[a])
    BY <1>1, <1>4
  <2>2. Cardinality(l .. m) = IF l > m THEN 0 ELSE m - l + 1
    <3> HIDE DEF l, m
    <3> QED BY <2>1, FS_Interval
  <2> HIDE DEF m
  <2> QED BY <1>1, <1>4, <2>1, <2>2
<1>7. m = lined[a] \/ m = sent[a] + b
  OBVIOUS
<1> HIDE DEF m
<1> QED BY <1>1, <1>2, <1>4, <1>5, <1>6, <1>7 DEF b

LEMMA WinTypesStep ==
  ASSUME Types, Window, Next
  PROVE  WinTypes'
<1>1. ASSUME NEW a \in As, Lineup(a) PROVE WinTypes'
  BY <1>1 DEF Lineup, Types, WinTypes
<1>2. ASSUME NEW a \in As, Acquire(a) PROVE WinTypes'
  BY <1>2 DEF Acquire, Types, WinTypes
<1>3. ASSUME NEW a \in As, DlsFrag(a) PROVE WinTypes'
  <2>1. Cardinality(Cut(a)) \in Nat
    BY <1>3, CutIs DEF DlsFrag
  <2> QED BY <1>3, <2>1 DEF DlsFrag, Types, WinTypes
<1>4. ASSUME NEW a \in As, RecvAck(a) PROVE WinTypes'
  <2>1. PICK m \in cc_pq[a] :
          /\ m.typ = "ACK"
          /\ acked' = [acked EXCEPT ![a] = @ \cup Acknowledged(m.bitmap)]
    BY <1>4 DEF RecvAck
  <2>2. m \in Msg
    BY DEF Types, AsTypes
  <2>3. m.bitmap \in SUBSET Nat
    BY <2>1, <2>2 DEF Msg, RlMsg, AckMsg
  <2>4. Acknowledged(m.bitmap) \in SUBSET Nat
    BY <2>3 DEF Acknowledged
  <2> QED BY <1>4, <2>1, <2>4 DEF RecvAck, Types, WinTypes
<1>5. ASSUME NEW a \in As, SetRlParam(a) \/ DataTick(a) \/ EntityStep(a)
      PROVE  WinTypes'
  <2>1. UNCHANGED winvars
    BY <1>5 DEF SetRlParam, DataTick, EntityStep, DlsReassy, AckCycle, AckFresh
  <2> QED BY <2>1 DEF winvars, Types, WinTypes
<1>6. ASSUME LmeTick \/ CloseCc \/ CcFrame \/ RlDataUpload PROVE WinTypes'
  BY <1>6 DEF LmeTick, CloseCc, CcFrame, RlDataUpload, winvars, Types, WinTypes
<1> QED BY <1>1, <1>2, <1>3, <1>4, <1>5, <1>6 DEF Next, StationStep

\* The PDU that generate_data_pkt takes, an empty one if there is none.
Pdu(a) == IF rl_data_q[a] = <<>> THEN {} ELSE Head(rl_data_q[a])

LEMMA TickIs ==
  ASSUME NEW a \in As, DataTick(a)
  PROVE  /\ slots' = Filled(a, Pdu(a))
         /\ lost' = [lost EXCEPT ![a] = @ \cup (Pdu(a) \
              UNION {Block(Pdu(a), i - RPSO[a]) : i \in Occupied(a, Pdu(a))})]
BY DEF DataTick, Pdu

LEMMA PduType ==
  ASSUME Types, NEW a \in As
  PROVE  Pdu(a) \in SUBSET Nat
BY DEF Pdu, Types, AsTypes

\* The slots afterwards: those of the grant hold what fits into them.
LEMMA FilledIs ==
  ASSUME NEW a \in As, NEW i \in Slot
  PROVE  /\ i \in Occupied(a, Pdu(a)) =>
              Filled(a, Pdu(a))[i] =
                [as |-> a, sdus |-> Block(Pdu(a), i - RPSO[a])]
         /\ i \notin Occupied(a, Pdu(a)) => Filled(a, Pdu(a))[i] = slots[i]
BY DEF Filled

LEMMA BlockIn ==
  ASSUME NEW P, NEW k
  PROVE  Block(P, k) \subseteq P
BY DEF Block

LEMMA AsTypesStep ==
  ASSUME Types, Next
  PROVE  AsTypes'
<1>1. ASSUME CcFrame PROVE AsTypes'
  <2>1. PICK deaf \in SUBSET Deaf :
          cc_pq' = [a \in As |-> IF a \in deaf THEN {}
                                 ELSE {m \in Frame : m.as = a}]
    BY <1>1 DEF CcFrame
  <2>2. cc_pq' \in [As -> SUBSET Msg]
    BY <2>1, FrameType
  <2> QED BY <1>1, <2>2 DEF CcFrame, Types, AsTypes
<1>2. ASSUME NEW a \in As, SetRlParam(a) PROVE AsTypes'
  <2>1. PICK m \in cc_pq[a] :
        /\ m.typ = "RL_ALLOC"
        /\ cc_pq' = [cc_pq EXCEPT ![a] = @ \ {m}]
        /\ SetParam(a, m.rpso, m.nrps)
        /\ frag' = [frag EXCEPT ![a] = m.nrps]
    BY <1>2 DEF SetRlParam
  <2>2. m \in Msg
    BY DEF Types, AsTypes
  <2>3. m.rpso \in Nat /\ m.nrps \in Nat
    BY <2>1, <2>2 DEF Msg, RlMsg, AckMsg
  <2>4. cc_pq' \in [As -> SUBSET Msg]
    BY <2>1 DEF Types, AsTypes
  <2> QED BY <1>2, <2>1, <2>3, <2>4 DEF SetRlParam, SetParam, Types, AsTypes
<1>3. ASSUME NEW a \in As, DlsFrag(a) PROVE AsTypes'
  <2>1. Cut(a) \in SUBSET Nat
    BY DEF Cut
  <2>2. rl_data_q[a] \in Seq(SUBSET Nat)
    BY DEF Types, AsTypes
  <2>3. Append(rl_data_q[a], Cut(a)) \in Seq(SUBSET Nat)
    BY <2>1, <2>2
  <2>4. rl_data_q' \in [As -> Seq(SUBSET Nat)]
    BY <1>3, <2>3 DEF DlsFrag, Types, AsTypes
  <2> QED BY <1>3, <2>4 DEF DlsFrag, Types, AsTypes
<1>4. ASSUME NEW a \in As, DataTick(a) PROVE AsTypes'
  <2>1. rl_data_q[a] \in Seq(SUBSET Nat)
    BY DEF Types, AsTypes
  <2>2. rl_data_q[a] # <<>> => Tail(rl_data_q[a]) \in Seq(SUBSET Nat)
    BY <2>1
  <2>3. rl_data_q' \in [As -> Seq(SUBSET Nat)]
    BY <1>4, <2>1, <2>2 DEF DataTick, Types, AsTypes
  <2>4. RPSO' \in [As -> Nat] /\ NRPS' \in [As -> Nat]
    BY <1>4 DEF DataTick, SetParam, Types, AsTypes
  <2> QED BY <1>4, <2>3, <2>4 DEF DataTick, Types, AsTypes
<1>5. ASSUME NEW a \in As, RecvAck(a) PROVE AsTypes'
  BY <1>5 DEF RecvAck, Types, AsTypes
<1>6. ASSUME NEW a \in As, Lineup(a) \/ Acquire(a) \/ EntityStep(a)
      PROVE  AsTypes'
  <2>1. UNCHANGED asvars
    BY <1>6 DEF Lineup, Acquire, EntityStep, DlsReassy, AckCycle, AckFresh
  <2> QED BY <2>1 DEF asvars, Types, AsTypes
<1>7. ASSUME LmeTick \/ CloseCc \/ RlDataUpload PROVE AsTypes'
  BY <1>7 DEF LmeTick, CloseCc, RlDataUpload, asvars, Types, AsTypes
<1> QED BY <1>1, <1>2, <1>3, <1>4, <1>5, <1>6, <1>7 DEF Next, StationStep

\* The slots change at a station's tick and when they are taken apart.
LEMMA SlotsStay ==
  ASSUME Next, ~ RlDataUpload, \A a \in As : ~ DataTick(a)
  PROVE  UNCHANGED slots
<1>1. ASSUME NEW a \in As, StationStep(a) PROVE UNCHANGED slots
  BY <1>1 DEF StationStep, Lineup, Acquire, SetRlParam, DlsFrag, RecvAck
<1>2. ASSUME NEW a \in As, EntityStep(a) PROVE UNCHANGED slots
  BY <1>2 DEF EntityStep, DlsReassy, AckCycle, AckFresh
<1>3. ASSUME LmeTick \/ CloseCc \/ CcFrame PROVE UNCHANGED slots
  BY <1>3 DEF LmeTick, CloseCc, CcFrame
<1> QED BY <1>1, <1>2, <1>3 DEF Next

LEMMA SlotTypesStep ==
  ASSUME Types, Next
  PROVE  SlotTypes'
<1>1. ASSUME RlDataUpload PROVE SlotTypes'
  BY <1>1 DEF RlDataUpload, Empty, NoAs, SlotTypes
<1>2. ASSUME NEW a \in As, DataTick(a) PROVE SlotTypes'
  <2>1. slots' = Filled(a, Pdu(a))
    BY <1>2, TickIs
  <2>2. ASSUME NEW i \in Slot
        PROVE  Filled(a, Pdu(a))[i] \in [as : Nat, sdus : SUBSET Nat]
    <3>1. a \in Nat
      BY AsFinite
    <3>2. Block(Pdu(a), i - RPSO[a]) \in SUBSET Nat
      BY BlockIn, PduType
    <3>3. slots[i] \in [as : Nat, sdus : SUBSET Nat]
      BY DEF Types, SlotTypes
    <3>4. \/ Filled(a, Pdu(a))[i] =
               [as |-> a, sdus |-> Block(Pdu(a), i - RPSO[a])]
          \/ Filled(a, Pdu(a))[i] = slots[i]
      BY FilledIs
    <3> QED BY <3>1, <3>2, <3>3, <3>4
  <2>3. Filled(a, Pdu(a)) = [i \in Slot |-> Filled(a, Pdu(a))[i]]
    BY DEF Filled
  <2> QED BY <2>1, <2>2, <2>3 DEF SlotTypes
<1>3. ASSUME UNCHANGED slots PROVE SlotTypes'
  BY <1>3 DEF Types, SlotTypes
<1> QED BY <1>1, <1>2, <1>3, SlotsStay

LEMMA LossTypesStep ==
  ASSUME Types, Next
  PROVE  LossTypes'
<1>1. ASSUME LmeTick \/ CloseCc \/ RlDataUpload PROVE LossTypes'
  BY <1>1 DEF LmeTick, CloseCc, RlDataUpload, Types, LossTypes
<1>2. ASSUME CcFrame PROVE LossTypes'
  <2>1. PICK deaf \in SUBSET Deaf :
        lost' = [a \in As |-> IF a \in deaf
             THEN lost[a] \cup AcksIn(Frame, a) ELSE lost[a]]
    BY <1>2 DEF CcFrame
  <2>2. \A a \in As : AcksIn(Frame, a) \in SUBSET Nat
    BY FrameType, AcksType
  <2> QED BY <2>1, <2>2 DEF Types, LossTypes
<1>3. ASSUME NEW a \in As, DataTick(a) PROVE LossTypes'
  BY <1>3, TickIs, PduType DEF Types, LossTypes
<1>4. ASSUME NEW a \in As, AckFresh(a) PROVE LossTypes'
  BY <1>4 DEF AckFresh, Types, LossTypes, EnTypes
<1>5. ASSUME NEW a \in As, RecvAck(a) PROVE LossTypes'
  <2>1. PICK m \in cc_pq[a] :
          /\ m.typ = "ACK"
          /\ lost' = [lost EXCEPT ![a] = @ \cup
                       (m.bitmap \ Acknowledged(m.bitmap))]
    BY <1>5 DEF RecvAck
  <2>2. m \in Msg
    BY DEF Types, AsTypes
  <2>3. m.bitmap \in SUBSET Nat
    BY <2>1, <2>2 DEF Msg, RlMsg, AckMsg
  <2> QED BY <2>1, <2>3 DEF Types, LossTypes
<1>6. ASSUME NEW a \in As,
             \/ Lineup(a) \/ Acquire(a) \/ SetRlParam(a) \/ DlsFrag(a)
             \/ DlsReassy(a) \/ AckCycle(a)
      PROVE  LossTypes'
  <2>1. lost' = lost
    BY <1>6 DEF Lineup, Acquire, SetRlParam, DlsFrag, DlsReassy, AckCycle
  <2> QED BY <2>1 DEF Types, LossTypes
<1> QED BY <1>1, <1>2, <1>3, <1>4, <1>5, <1>6
        DEF Next, StationStep, EntityStep

LEMMA TypesStep ==
  ASSUME Types, Window, Records, Next
  PROVE  Types'
BY GsTypesStep, EnTypesStep, WinTypesStep, AsTypesStep, SlotTypesStep,
   LossTypesStep DEF Types

LEMMA ParamsFitStep ==
  ASSUME Types, ParamsFit, Next
  PROVE  ParamsFit'
<1>1. ASSUME NEW a \in As, SetRlParam(a) PROVE ParamsFit'
  <2>1. PICK m \in cc_pq[a] :
          /\ m.typ = "RL_ALLOC"
          /\ RPSO' = [RPSO EXCEPT ![a] = m.rpso]
          /\ NRPS' = [NRPS EXCEPT ![a] = m.nrps]
    BY <1>1 DEF SetRlParam, SetParam
  <2>2. m \in Msg
    BY DEF Types, AsTypes
  <2>3. Room(m.rpso, m.nrps)
    BY <2>1, <2>2 DEF Msg, RlMsg, AckMsg
  <2>4. ASSUME NEW b \in As
        PROVE  (RPSO'[b] = 0 /\ NRPS'[b] = 0) \/ Room(RPSO'[b], NRPS'[b])
    <3>1. CASE b = a
      <4>1. RPSO'[b] = m.rpso /\ NRPS'[b] = m.nrps
        BY <2>1, <3>1 DEF Types, AsTypes
      <4> QED BY <2>3, <4>1
    <3>2. CASE b # a
      <4>1. RPSO'[b] = RPSO[b] /\ NRPS'[b] = NRPS[b]
        BY <2>1, <3>2 DEF Types, AsTypes
      <4> QED BY <4>1 DEF ParamsFit
    <3> QED BY <3>1, <3>2
  <2> QED BY <2>4 DEF ParamsFit, Room
<1>2. ASSUME NEW a \in As, DataTick(a) PROVE ParamsFit'
  <2>1. /\ RPSO' = [RPSO EXCEPT ![a] = 0] /\ NRPS' = [NRPS EXCEPT ![a] = 0]
    BY <1>2 DEF DataTick, SetParam
  <2> QED BY <2>1 DEF ParamsFit, Room, Types, AsTypes
<1>3. ASSUME UNCHANGED <<RPSO, NRPS>> PROVE ParamsFit'
  BY <1>3 DEF ParamsFit, Room
<1>4. ASSUME NEW a \in As,
             \/ Lineup(a) \/ Acquire(a) \/ DlsFrag(a) \/ RecvAck(a)
             \/ EntityStep(a)
      PROVE  UNCHANGED <<RPSO, NRPS>>
  BY <1>4 DEF Lineup, Acquire, DlsFrag, RecvAck, EntityStep, DlsReassy,
              AckCycle, AckFresh, asvars
<1>5. ASSUME LmeTick \/ CloseCc \/ CcFrame \/ RlDataUpload
      PROVE  UNCHANGED <<RPSO, NRPS>>
  BY <1>5 DEF LmeTick, CloseCc, CcFrame, RlDataUpload, asvars
<1> QED BY <1>1, <1>2, <1>3, <1>4, <1>5 DEF Next, StationStep

-----------------------------------------------------------------------------
(* The window, the phases of the multiframe.                                  *)

LEMMA InWindowFinite ==
  ASSUME Types, NEW a \in As
  PROVE  IsFiniteSet(InWindow(a)) /\ Cardinality(InWindow(a)) \in Nat
<1>1. lined[a] \in Nat
  BY DEF Types, WinTypes
<1>2. IsFiniteSet(1 .. lined[a])
  BY <1>1, FS_Interval
<1>3. InWindow(a) \subseteq 1 .. lined[a]
  BY DEF InWindow
<1>4. IsFiniteSet(InWindow(a))
  BY <1>2, <1>3, FS_Subset
<1> QED BY <1>4, FS_CardinalityType

LEMMA WindowStep ==
  ASSUME Types, Types', Window, Next
  PROVE  Window'
<1> DEFINE W(a) == /\ sent[a] <= lined[a] /\ lined[a] <= handed[a]
                   /\ handed[a] <= Sdus[a]
                   /\ cos_req_res[a] + rl_drr[a] <= lined[a]
<1>1. Sdus \in [As -> Nat]
  BY RlAssumption
<1>2. \A a \in As :
        /\ sent[a] \in Nat /\ lined[a] \in Nat /\ handed[a] \in Nat
        /\ cos_req_res[a] \in Nat /\ rl_drr[a] \in Nat
  BY DEF Types, WinTypes, GsTypes
<1>3. \A a \in As : W(a)
  BY DEF Window
<1>4. \A a \in As : Cardinality(InWindow(a)) <= WinSize
  BY DEF Window
<1>5. ASSUME NEW a \in As, Lineup(a) PROVE Window'
  <2>1. ASSUME NEW b \in As PROVE W(b)'
    <3>1. CASE b = a
      BY <1>1, <1>2, <1>3, <1>5, <3>1
         DEF Lineup, Waiting, Types, WinTypes, gsvars
    <3>2. CASE b # a
      BY <1>3, <1>5, <3>2 DEF Lineup, Types, WinTypes, gsvars
    <3> QED BY <3>1, <3>2
  <2>2. ASSUME NEW b \in As PROVE Cardinality(InWindow(b)') <= WinSize
    <3>1. CASE lined'[b] = lined[b]
      <4>1. InWindow(b)' = InWindow(b)
        BY <1>5, <3>1 DEF Lineup, InWindow
      <4> QED BY <1>4, <4>1
    <3>2. CASE lined'[b] # lined[b]
      <4>1. /\ b = a /\ lined'[b] = lined[b] + 1
            /\ Cardinality(InWindow(b)) < WinSize
        BY <1>5, <3>2 DEF Lineup, Types, WinTypes
      <4>2. acked' = acked
        BY <1>5 DEF Lineup
      <4> DEFINE x == lined[b] + 1
      <4>3. InWindow(b)' \subseteq InWindow(b) \cup {x}
        BY <1>2, <4>1, <4>2 DEF InWindow
      <4>4. IsFiniteSet(InWindow(b)) /\ Cardinality(InWindow(b)) \in Nat
        BY InWindowFinite
      <4>5. IsFiniteSet(InWindow(b) \cup {x})
        BY <4>4, FS_AddElement
      <4>6. Cardinality(InWindow(b) \cup {x}) <= Cardinality(InWindow(b)) + 1
        <5>1. Cardinality(InWindow(b) \cup {x}) =
                IF x \in InWindow(b) THEN Cardinality(InWindow(b))
                                     ELSE Cardinality(InWindow(b)) + 1
          BY <4>4, FS_AddElement
        <5> HIDE DEF x
        <5> QED BY <5>1, <4>4
      <4>7. /\ IsFiniteSet(InWindow(b)')
            /\ Cardinality(InWindow(b)') <= Cardinality(InWindow(b) \cup {x})
        BY <4>3, <4>5, FS_Subset
      <4>9. Cardinality(InWindow(b)') \in Nat
        BY <4>7, FS_CardinalityType
      <4>8. Cardinality(InWindow(b) \cup {x}) \in Nat
        BY <4>5, FS_CardinalityType
      <4> HIDE DEF x
      <4> QED BY <4>1, <4>4, <4>6, <4>7, <4>8, <4>9, Params
    <3> QED BY <3>1, <3>2
  <2> QED BY <2>1, <2>2 DEF Window
<1>6. ASSUME acked' = acked, lined' = lined, \A b \in As : W(b)'
      PROVE  Window'
  BY <1>4, <1>6 DEF Window, InWindow
<1>7. ASSUME NEW a \in As, Acquire(a) PROVE Window'
  <2>1. ASSUME NEW b \in As PROVE W(b)'
    <3>1. /\ UNCHANGED <<lined, handed, sent>>
          /\ cos_req_res' = [cos_req_res EXCEPT ![a] = 0]
          /\ \/ rl_drr' = [rl_drr EXCEPT ![a] = rl_drr[a] + cos_req_res[a]]
             \/ rl_drr' = rl_drr
      BY <1>7 DEF Acquire, Requested
    <3>2. rl_drr \in [As -> Nat] /\ cos_req_res \in [As -> Nat]
      BY DEF Types, GsTypes, WinTypes
    <3>3. \/ cos_req_res'[b] + rl_drr'[b] = cos_req_res[b] + rl_drr[b]
          \/ cos_req_res'[b] + rl_drr'[b] = rl_drr[b]
      BY <3>1, <3>2
    <3> QED BY <1>2, <1>3, <3>1, <3>2, <3>3
  <2> QED BY <1>6, <1>7, <2>1 DEF Acquire
<1>8. ASSUME NEW a \in As, DlsFrag(a) PROVE Window'
  <2> DEFINE n == Cardinality(Cut(a))
  <2>1. n \in Nat /\ sent[a] + n <= lined[a]
    BY <1>8, CutIs DEF DlsFrag
  <2>2. sent' = [sent EXCEPT ![a] = @ + n]
    BY <1>8 DEF DlsFrag
  <2> HIDE DEF n
  <2>3. ASSUME NEW b \in As PROVE W(b)'
    BY <1>2, <1>3, <1>8, <2>1, <2>2 DEF DlsFrag, Types, WinTypes, gsvars
  <2> QED BY <1>6, <1>8, <2>3 DEF DlsFrag
<1>9. ASSUME NEW a \in As, RecvAck(a) PROVE Window'
  <2>1. UNCHANGED <<sent, lined, handed, cos_req_res, rl_drr>>
    BY <1>9 DEF RecvAck, gsvars
  <2>2. ASSUME NEW b \in As PROVE Cardinality(InWindow(b)') <= WinSize
    <3>1. acked[b] \subseteq acked'[b]
      BY <1>9 DEF RecvAck, Types, WinTypes
    <3>2. InWindow(b)' \subseteq InWindow(b)
      BY <2>1, <3>1 DEF InWindow
    <3>3. IsFiniteSet(InWindow(b)) /\ Cardinality(InWindow(b)) \in Nat
      BY InWindowFinite
    <3>4. /\ IsFiniteSet(InWindow(b)')
          /\ Cardinality(InWindow(b)') <= Cardinality(InWindow(b))
      BY <3>2, <3>3, FS_Subset
    <3>5. Cardinality(InWindow(b)') \in Nat
      BY <3>4, FS_CardinalityType
    <3> QED BY <1>4, <3>3, <3>4, <3>5, Params
  <2> QED BY <1>3, <2>1, <2>2 DEF Window
<1>10. ASSUME LmeTick PROVE Window'
  <2>1. PICK g \in Shares : rl_drr' = [a \in As |-> rl_drr[a] - g[a]]
    BY <1>10 DEF LmeTick
  <2>2. \A a \in As : g[a] \in Nat /\ rl_drr'[a] = rl_drr[a] - g[a]
    BY <2>1, SharesType
  <2>3. UNCHANGED winvars
    BY <1>10 DEF LmeTick
  <2>4. ASSUME NEW b \in As PROVE W(b)'
    BY <1>2, <1>3, <2>2, <2>3 DEF winvars
  <2> QED BY <1>6, <2>3, <2>4 DEF winvars
<1>11. ASSUME UNCHANGED <<winvars, rl_drr>> PROVE Window'
  BY <1>3, <1>6, <1>11 DEF winvars
<1>12. ASSUME NEW a \in As, SetRlParam(a) \/ DataTick(a) \/ EntityStep(a)
       PROVE  UNCHANGED <<winvars, rl_drr>>
  BY <1>12 DEF SetRlParam, DataTick, EntityStep, DlsReassy, AckCycle, AckFresh,
               gsvars
<1>13. ASSUME CloseCc \/ CcFrame \/ RlDataUpload
       PROVE  UNCHANGED <<winvars, rl_drr>>
  BY <1>13 DEF CloseCc, CcFrame, RlDataUpload
<1> QED BY <1>5, <1>7, <1>8, <1>9, <1>10, <1>11, <1>12, <1>13
        DEF Next, StationStep

LEMMA RecordsStep ==
  ASSUME Types, Records, Next
  PROVE  Records'
<1>1. ASSUME LmeTick PROVE Records'
  <2>1. PICK g \in Shares :
          rpso_queue' = rpso_queue \o delayed /\ delayed' = <<Record(g)>>
    BY <1>1 DEF LmeTick, Joining
  <2>2. rpso_queue = <<>> /\ delayed \in Seq(Rec) /\ Len(delayed) <= 1
    BY <1>1 DEF LmeTick, Records, Types, GsTypes
  <2>3. rpso_queue' = delayed
    BY <2>1, <2>2
  <2>4. WellFormed(Record(g))
    BY SharesType, RecordWellFormed
  <2>5. /\ Len(delayed') <= 1 /\ Head(delayed') = Record(g)
        /\ phase' = "air"
    BY <1>1, <2>1 DEF LmeTick
  <2> QED BY <2>2, <2>3, <2>4, <2>5 DEF Records, WellFormed
<1>2. ASSUME CcFrame PROVE Records'
  BY <1>2 DEF CcFrame, Records, WellFormed
<1>3. ASSUME RlDataUpload PROVE Records'
  <2>1. rpso_queue \in Seq(Rec) /\ Len(rpso_queue) <= 1
    BY DEF Types, GsTypes, Records
  <2>2. rpso_queue # <<>> => Tail(rpso_queue) = <<>>
    BY <2>1
  <2>3. rpso_queue' = <<>>
    BY <1>3, <2>2 DEF RlDataUpload
  <2> QED BY <1>3, <2>3 DEF RlDataUpload, Records, WellFormed
<1>4. ASSUME NEW a \in As, StationStep(a) \/ EntityStep(a)
      PROVE  UNCHANGED <<phase, delayed, rpso_queue>>
  BY <1>4 DEF StationStep, EntityStep, Lineup, Acquire, SetRlParam, DlsFrag,
              DataTick, RecvAck, DlsReassy, AckCycle, AckFresh, gsvars
<1>5. ASSUME CloseCc PROVE UNCHANGED <<phase, delayed, rpso_queue>>
  BY <1>5 DEF CloseCc
<1> QED BY <1>1, <1>2, <1>3, <1>4, <1>5 DEF Next, Records, WellFormed

\* A step after which no timer has been late comes from a state in which none
\* was, and is no tick with a packet still open.
LEMMA LateStays ==
  ASSUME Types, Next, late' = 0
  PROVE  late = 0 /\ (LmeTick => armed = 0)
<1>1. late \in Nat
  BY RlAssumption DEF Types, GsTypes
<1>2. ASSUME LmeTick PROVE late = 0 /\ armed = 0
  <2>1. (armed = 0 /\ late = 0 /\ late' = late) \/ late' = late + 1
    BY <1>2 DEF LmeTick
  <2> QED BY <1>1, <2>1
<1>3. ASSUME CloseCc \/ CcFrame \/ RlDataUpload PROVE late' = late
  BY <1>3 DEF CloseCc, CcFrame, RlDataUpload
<1>4. ASSUME NEW a \in As, StationStep(a) \/ EntityStep(a) PROVE late' = late
  BY <1>4 DEF StationStep, EntityStep, Lineup, Acquire, SetRlParam, DlsFrag,
              DataTick, RecvAck, DlsReassy, AckCycle, AckFresh, gsvars
<1>5. ~ LmeTick => late' = late
  BY <1>3, <1>4 DEF Next
<1> QED BY <1>2, <1>5

LEMMA OnlyOne ==
  ASSUME NEW S, NEW q \in Seq(S), Len(q) <= 1, q # <<>>
  PROVE  Len(q) = 1 /\ Head(q) = q[1]
<1>1. Len(q) \in Nat /\ Head(q) = q[1]
  OBVIOUS
<1>2. Len(q) # 0
  OBVIOUS
<1> QED BY <1>1, <1>2

\* With one packet at most, it is the one that is sent.
LEMMA ClosedIs ==
  ASSUME Types, Phases
  PROVE  /\ Closed = Frame
         /\ assembled = <<>> => Closed = {}
<1>1. assembled \in Seq(SUBSET Msg) /\ Len(assembled) <= 1
  BY DEF Types, GsTypes, Phases
<1>2. CASE assembled = <<>>
  <2>1. 1 .. Len(assembled) = {}
    BY <1>2
  <2>2. {assembled[i] : i \in 1 .. Len(assembled)} = {}
    BY <2>1
  <2>3. Closed = {}
    BY <2>2 DEF Closed
  <2> QED BY <1>2, <2>3 DEF Frame
<1>3. CASE assembled # <<>>
  <2>1. Len(assembled) = 1 /\ Head(assembled) = assembled[1]
    BY <1>1, <1>3, OnlyOne
  <2>2. {assembled[i] : i \in 1 .. Len(assembled)} = {assembled[1]}
    BY <2>1
  <2> QED BY <1>3, <2>1, <2>2 DEF Closed, Frame
<1> QED BY <1>2, <1>3

LEMMA ClosedSame ==
  ASSUME UNCHANGED assembled
  PROVE  UNCHANGED Closed
BY DEF Closed

\* What the steps that close and send a packet make of the closed packets.
LEMMA ClosedStep ==
  ASSUME Types, Phases, Next
  PROVE  /\ CloseCc => /\ Closed = {} /\ Closed' = assembling
                       /\ assembling' = {}
         /\ CcFrame => Closed' = {} /\ assembled' = <<>>
<1>1. ASSUME CloseCc
      PROVE  Closed = {} /\ Closed' = assembling /\ assembling' = {}
  <2>1. armed > 0 /\ (armed = 2 \/ phase = "begin")
    BY <1>1 DEF CloseCc
  <2>2. assembled = <<>>
    BY <2>1 DEF Phases
  <2>3. assembled' = <<assembling>> /\ assembling' = {}
    BY <1>1, <2>2 DEF CloseCc
  <2>4. Closed' = UNION {<<assembling>>[i] : i \in 1 .. Len(<<assembling>>)}
    BY <2>3 DEF Closed
  <2>5. {<<assembling>>[i] : i \in 1 .. Len(<<assembling>>)} = {assembling}
    OBVIOUS
  <2>6. Closed' = assembling
    BY <2>4, <2>5
  <2> QED BY <2>2, <2>3, <2>6, ClosedIs
<1>2. ASSUME CcFrame PROVE Closed' = {} /\ assembled' = <<>>
  <2>1. assembled \in Seq(SUBSET Msg) /\ Len(assembled) <= 1
    BY DEF Types, GsTypes, Phases
  <2>2. assembled' = <<>>
    BY <1>2, <2>1 DEF CcFrame
  <2>3. 1 .. Len(assembled') = {}
    BY <2>2
  <2> QED BY <2>2, <2>3 DEF Closed
<1> QED BY <1>1, <1>2

LEMMA PhasesStep ==
  ASSUME Types, Phases, Next, late' = 0
  PROVE  Phases'
<1>1. ASSUME LmeTick PROVE Phases'
  <2>1. armed = 0
    BY <1>1, LateStays
  <2>2. armed' = 1 /\ phase' = "air" /\ assembled' = assembled
    BY <1>1, <2>1 DEF LmeTick
  <2> QED BY <2>2 DEF Phases
<1>2. ASSUME CloseCc PROVE Phases'
  <2>1. armed = 1 /\ phase = "begin" /\ assembled = <<>>
    BY <1>2 DEF CloseCc, Phases
  <2>2. armed' = 0 /\ phase' = "begin" /\ assembling' = {}
    BY <1>2, <2>1 DEF CloseCc
  <2>3. Len(assembled') = 1
    BY <1>2, <2>1 DEF CloseCc
  <2> QED BY <2>2, <2>3 DEF Phases
<1>3. ASSUME CcFrame PROVE Phases'
  <2>1. assembled' = <<>>
    BY <1>3, ClosedStep
  <2>2. armed' = 1 /\ phase' = "data"
    BY <1>3 DEF CcFrame, Phases
  <2> QED BY <2>1, <2>2 DEF Phases
<1>4. ASSUME RlDataUpload PROVE Phases'
  <2>1. assembled' = <<>> /\ armed' = 1 /\ phase' = "begin"
    BY <1>4 DEF RlDataUpload, Phases
  <2> QED BY <2>1 DEF Phases
<1>5. ASSUME NEW a \in As, AckCycle(a) PROVE Phases'
  <2>1. UNCHANGED <<phase, armed, assembled>>
    BY <1>5 DEF AckCycle
  <2> DEFINE m == [typ |-> "ACK", as |-> a, bitmap |-> Bitmap(ack_bitset[a])]
  <2>2. m.typ # "RL_ALLOC"
    OBVIOUS
  <2>3. assembling' = assembling \/ assembling' = assembling \cup {m}
    BY <1>5 DEF AckCycle
  <2> HIDE DEF m
  <2> QED BY <2>1, <2>2, <2>3 DEF Phases
<1>6. ASSUME NEW a \in As, StationStep(a) \/ DlsReassy(a) \/ AckFresh(a)
      PROVE  Phases'
  <2>1. UNCHANGED <<phase, armed, assembling, assembled>>
    BY <1>6 DEF StationStep, Lineup, Acquire, SetRlParam, DlsFrag, DataTick,
                RecvAck, DlsReassy, AckFresh, gsvars
  <2> QED BY <2>1 DEF Phases
<1> QED BY <1>1, <1>2, <1>3, <1>4, <1>5, <1>6 DEF Next, EntityStep

-----------------------------------------------------------------------------
(* The records keep step with the grants.                                     *)

LEMMA BackedSubset ==
  ASSUME NEW M, NEW q, Backed(M, q), NEW N \in SUBSET M
  PROVE  Backed(N, q)
BY DEF Backed

LEMMA BackedNone ==
  ASSUME NEW M, NEW q, \A m \in M : m.typ # "RL_ALLOC"
  PROVE  Backed(M, q)
BY DEF Backed

LEMMA BackedMore ==
  ASSUME NEW M, NEW q, Backed(M, q), NEW m, m.typ # "RL_ALLOC"
  PROVE  Backed(M \cup {m}, q)
BY DEF Backed

\* Grants join a packet that has none yet.
LEMMA BackedJoin ==
  ASSUME NEW M, NEW q, Backed(M, q), NEW N, \A m \in N : m.typ # "RL_ALLOC"
  PROVE  Backed(N \cup M, q)
BY DEF Backed

LEMMA QuietAs ==
  ASSUME InStep, Types, NEW a \in As, phase # "data" \/ a \in ticked
  PROVE  /\ \A m \in cc_pq[a] : m.typ # "RL_ALLOC"
         /\ NRPS[a] = 0 /\ RPSO[a] = 0
<1>1. NRPS[a] \in Nat
  BY DEF Types, AsTypes
<1> QED BY <1>1 DEF InStep, AsInStep

LEMMA GsInStepStep ==
  ASSUME Types, Phases, InStep, Next, late' = 0
  PROVE  GsInStep'
<1>1. ASSUME LmeTick PROVE GsInStep'
  <2>1. PICK g \in Shares :
          /\ assembling' = assembling \cup RlAllocs(g)
          /\ rpso_queue' = rpso_queue \o delayed
          /\ delayed' = <<Record(g)>>
    BY <1>1 DEF LmeTick, Joining
  <2>2. rpso_queue = <<>> /\ delayed \in Seq(Rec)
    BY <1>1 DEF LmeTick, InStep, Records, Types, GsTypes
  <2>3. rpso_queue' = delayed
    BY <2>1, <2>2
  <2>4. phase = "begin" /\ phase' = "air" /\ armed = 0
    BY <1>1, LateStays DEF LmeTick
  <2>5. Closed' = Closed
    BY <1>1, ClosedSame DEF LmeTick
  <2>6. Backed(RlAllocs(g), <<Record(g)>>)
    BY <2>4, SharesType, AllocsBacked
  <2>7. Backed(assembling', delayed')
    BY <2>1, <2>4, <2>6, BackedJoin DEF Phases
  <2>8. Backed(Closed', rpso_queue')
    BY <2>3, <2>4, <2>5 DEF InStep, GsInStep
  <2> QED BY <2>4, <2>7, <2>8 DEF GsInStep, Backed, Grants
<1>2. ASSUME CcFrame PROVE GsInStep'
  <2>1. Closed' = {} /\ assembling' = assembling /\ delayed' = delayed
    BY <1>2, ClosedStep DEF CcFrame
  <2>2. Backed({}, delayed') /\ Backed({}, rpso_queue')
    BY BackedNone
  <2> QED BY <2>1, <2>2 DEF InStep, GsInStep, Backed, Grants
<1>3. ASSUME RlDataUpload PROVE GsInStep'
  <2>1. assembled = <<>> /\ assembled' = assembled
    BY <1>3 DEF RlDataUpload, Phases
  <2>2. Closed' = {} /\ assembling' = assembling /\ delayed' = delayed
    BY <1>3, <2>1, ClosedIs DEF RlDataUpload, Closed
  <2>3. Backed({}, delayed') /\ Backed({}, rpso_queue')
    BY BackedNone
  <2> QED BY <2>2, <2>3 DEF InStep, GsInStep, Backed, Grants
<1>4. ASSUME NEW a \in As, AckCycle(a) PROVE GsInStep'
  <2> DEFINE m == [typ |-> "ACK", as |-> a, bitmap |-> Bitmap(ack_bitset[a])]
  <2>1. /\ UNCHANGED <<phase, assembled, delayed, rpso_queue>>
        /\ assembling' = assembling \/ assembling' = assembling \cup {m}
    BY <1>4 DEF AckCycle
  <2>2. m.typ # "RL_ALLOC"
    OBVIOUS
  <2> HIDE DEF m
  <2>3. Backed(assembling \cup {m}, delayed)
    BY <2>2, BackedMore DEF InStep, GsInStep
  <2>4. Backed(assembling', delayed)
    BY <2>1, <2>3 DEF InStep, GsInStep
  <2>5. Closed' = Closed
    BY <2>1 DEF Closed
  <2> QED BY <2>1, <2>4, <2>5 DEF InStep, GsInStep, Backed, Grants
<1>5. ASSUME NEW a \in As,
             StationStep(a) \/ DlsReassy(a) \/ AckFresh(a)
      PROVE  GsInStep'
  <2>1. UNCHANGED <<phase, assembling, assembled, delayed, rpso_queue>>
    BY <1>5 DEF StationStep, Lineup, Acquire, SetRlParam, DlsFrag, DataTick,
                RecvAck, DlsReassy, AckFresh, gsvars
  <2>2. Closed' = Closed
    BY <2>1 DEF Closed
  <2> QED BY <2>1, <2>2 DEF InStep, GsInStep, Backed, Grants
<1>6. ASSUME CloseCc PROVE GsInStep'
  <2>1. Closed' = assembling /\ assembling' = {}
    BY <1>6, ClosedStep
  <2>2. phase' = "begin" /\ delayed' = delayed
    BY <1>6 DEF CloseCc, Phases
  <2>3. Backed({}, delayed')
    BY BackedNone
  <2>4. Backed(Closed', delayed')
    BY <2>1, <2>2 DEF InStep, GsInStep
  <2> QED BY <2>1, <2>2, <2>3, <2>4 DEF GsInStep, Backed, Grants
<1> QED BY <1>1, <1>2, <1>3, <1>4, <1>5, <1>6 DEF Next, EntityStep

LEMMA AsInStepStep ==
  ASSUME Types, Phases, InStep, Next, NEW b \in As
  PROVE  AsInStep(b)'
<1>1. AsInStep(b)
  BY DEF InStep
<1>2. ASSUME UNCHANGED <<phase, rpso_queue, ticked, cc_pq, RPSO, NRPS, frag>>
      PROVE  AsInStep(b)'
  BY <1>1, <1>2 DEF AsInStep, Backed, Grants
<1>3. ASSUME UNCHANGED <<phase, rpso_queue>>,
             cc_pq'[b] = cc_pq[b], frag'[b] = frag[b],
             RPSO'[b] = RPSO[b], NRPS'[b] = NRPS[b],
             b \in ticked' => b \in ticked
      PROVE  AsInStep(b)'
  BY <1>1, <1>3 DEF AsInStep, Backed, Grants
\* The station has no grant left, and none in its parameters.
<1>4. ASSUME \A m \in cc_pq'[b] : m.typ # "RL_ALLOC" /\ m.as = b,
             NRPS'[b] = 0, RPSO'[b] = 0
      PROVE  AsInStep(b)'
  BY <1>4 DEF AsInStep, Backed
<1>5. \A m \in cc_pq[b] : m.as = b
  BY <1>1 DEF AsInStep
<1>6. ASSUME LmeTick PROVE AsInStep(b)'
  <2>1. \A m \in cc_pq[b] : m.typ # "RL_ALLOC"
    BY <1>6, QuietAs DEF LmeTick
  <2>2. NRPS[b] = 0 /\ RPSO[b] = 0
    BY <1>6, QuietAs DEF LmeTick
  <2>3. UNCHANGED <<cc_pq, NRPS, RPSO>>
    BY <1>6 DEF LmeTick, asvars
  <2> QED BY <1>4, <1>5, <2>1, <2>2, <2>3
<1>7. ASSUME CcFrame PROVE AsInStep(b)'
  <2>1. NRPS[b] = 0 /\ RPSO[b] = 0 /\ frag[b] = 0
    BY <1>7, QuietAs DEF CcFrame
  <2>2. UNCHANGED <<NRPS, RPSO, frag, rpso_queue>> /\ phase' = "data"
        /\ ticked' = {}
    BY <1>7 DEF CcFrame
  <2>3. cc_pq'[b] \subseteq {m \in Frame : m.as = b}
    BY <1>7 DEF CcFrame
  <2>6. Backed(Frame, rpso_queue)
    BY <1>7, ClosedIs DEF CcFrame, InStep, GsInStep
  <2>4. Backed(cc_pq'[b], rpso_queue)
    BY <2>3, <2>6, BackedSubset
  <2>5. \A m \in cc_pq'[b] : m.as = b
    BY <2>3
  <2> QED BY <2>1, <2>2, <2>4, <2>5 DEF AsInStep, Backed, Grants
<1>8. ASSUME RlDataUpload PROVE AsInStep(b)'
  <2>1. b \in ticked
    BY <1>8 DEF RlDataUpload
  <2>2. \A m \in cc_pq[b] : m.typ # "RL_ALLOC"
    BY <2>1, QuietAs
  <2>3. NRPS[b] = 0 /\ RPSO[b] = 0
    BY <2>1, QuietAs
  <2>4. UNCHANGED <<cc_pq, NRPS, RPSO>>
    BY <1>8 DEF RlDataUpload, asvars
  <2> QED BY <1>4, <1>5, <2>2, <2>3, <2>4
<1>9. ASSUME NEW a \in As, SetRlParam(a) PROVE AsInStep(b)'
  <2>1. PICK m \in cc_pq[a] :
          /\ m.typ = "RL_ALLOC" /\ cc_pq' = [cc_pq EXCEPT ![a] = @ \ {m}]
          /\ RPSO' = [RPSO EXCEPT ![a] = m.rpso]
          /\ NRPS' = [NRPS EXCEPT ![a] = m.nrps]
          /\ frag' = [frag EXCEPT ![a] = m.nrps]
    BY <1>9 DEF SetRlParam, SetParam
  <2>2. UNCHANGED <<phase, rpso_queue, ticked>>
    BY <1>9 DEF SetRlParam, gsvars
  <2>3. CASE a # b
    BY <1>3, <2>1, <2>2, <2>3 DEF Types, AsTypes
  <2>4. CASE a = b
    <3>1. /\ m.as = b /\ phase = "data" /\ b \notin ticked
          /\ rpso_queue # <<>>
          /\ Grants(Head(rpso_queue), b, m.rpso, m.nrps)
          /\ \A n \in cc_pq[b] : n.typ = "RL_ALLOC" => n = m
      BY <1>1, <2>1, <2>4 DEF AsInStep, Backed
    <3>2. m.nrps > 0 /\ m.nrps \in Nat
      <4>1. m \in Msg
        BY DEF Types, AsTypes
      <4> QED BY <2>1, <3>1, <4>1 DEF Grants, Msg, RlMsg, AckMsg
    <3>3. cc_pq'[b] = cc_pq[b] \ {m} /\ RPSO'[b] = m.rpso /\ NRPS'[b] = m.nrps
      BY <2>1, <2>4 DEF Types, AsTypes
    <3>4. \A n \in cc_pq'[b] : n.typ # "RL_ALLOC" /\ n.as = b
      BY <1>5, <3>1, <3>3
    <3> QED BY <2>2, <3>1, <3>2, <3>3, <3>4 DEF AsInStep, Backed, Grants
  <2> QED BY <2>3, <2>4
<1>10. ASSUME NEW a \in As, DlsFrag(a) PROVE AsInStep(b)'
  <2>1. UNCHANGED <<phase, rpso_queue, ticked, cc_pq, RPSO, NRPS>>
    BY <1>10 DEF DlsFrag, gsvars
  <2>2. frag'[b] = frag[b] \/ frag'[b] = 0
    BY <1>10 DEF DlsFrag, Types, AsTypes
  <2> QED BY <1>1, <2>1, <2>2 DEF AsInStep, Backed, Grants
<1>11. ASSUME NEW a \in As, DataTick(a) PROVE AsInStep(b)'
  <2>1. UNCHANGED <<phase, rpso_queue, cc_pq, frag>>
    BY <1>11 DEF DataTick, gsvars
  <2>2. /\ ticked' = ticked \cup {a}
        /\ RPSO' = [RPSO EXCEPT ![a] = 0] /\ NRPS' = [NRPS EXCEPT ![a] = 0]
    BY <1>11 DEF DataTick, SetParam
  <2>3. CASE a # b
    BY <1>3, <2>1, <2>2, <2>3 DEF Types, AsTypes
  <2>4. CASE a = b
    <3>1. NRPS'[b] = 0 /\ RPSO'[b] = 0
      BY <2>2, <2>4 DEF Types, AsTypes
    <3>2. \A m \in cc_pq[b] : m.typ # "RL_ALLOC"
      BY <1>1, <1>11, <2>4 DEF DataTick, AsInStep
    <3> QED BY <1>4, <1>5, <2>1, <3>1, <3>2
  <2> QED BY <2>3, <2>4
<1>12. ASSUME NEW a \in As, RecvAck(a) PROVE AsInStep(b)'
  <2>1. UNCHANGED <<phase, rpso_queue, ticked, RPSO, NRPS, frag>>
    BY <1>12 DEF RecvAck, gsvars
  <2>2. cc_pq'[b] \subseteq cc_pq[b]
    BY <1>12 DEF RecvAck, Types, AsTypes
  <2>3. Backed(cc_pq'[b], rpso_queue)
    BY <1>1, <2>2, BackedSubset DEF AsInStep
  <2> QED BY <1>1, <2>1, <2>2, <2>3 DEF AsInStep, Backed, Grants
<1>13. ASSUME NEW a \in As, Lineup(a) \/ Acquire(a) \/ EntityStep(a)
       PROVE  AsInStep(b)'
  <2>1. UNCHANGED <<phase, rpso_queue, asvars>>
    BY <1>13 DEF Lineup, Acquire, EntityStep, DlsReassy, AckCycle, AckFresh,
                 gsvars
  <2> QED BY <1>2, <2>1 DEF asvars
<1>14. ASSUME CloseCc PROVE AsInStep(b)'
  BY <1>2, <1>14 DEF CloseCc, asvars
<1> QED BY <1>14, <1>6, <1>7, <1>8, <1>9, <1>10, <1>11, <1>12, <1>13
        DEF Next, StationStep

LEMMA InStepStep ==
  ASSUME Types, Phases, InStep, Next, late' = 0
  PROVE  InStep'
BY RecordsStep, GsInStepStep, AsInStepStep DEF InStep

-----------------------------------------------------------------------------
(* The slots.                                                                 *)

\* The slots a station fills are those of its grant in the record.
LEMMA OccupiedIs ==
  ASSUME Types, InStep, NEW a \in As, NEW i \in Occupied(a, Pdu(a))
  PROVE  /\ i \in Slot /\ RPSO[a] <= i /\ i < RPSO[a] + NRPS[a]
         /\ NRPS[a] > 0 /\ rpso_queue # <<>>
         /\ Grants(Head(rpso_queue), a, RPSO[a], NRPS[a])
<1>1. RPSO[a] \in Nat /\ NRPS[a] \in Nat
  BY DEF Types, AsTypes
<1>2. i \in RPSO[a] .. RPSO[a] + NRPS[a] - 1
  BY DEF Occupied
<1>3. RPSO[a] <= i /\ i < RPSO[a] + NRPS[a] /\ NRPS[a] > 0 /\ i \in Nat
  BY <1>1, <1>2
<1>4. rpso_queue # <<>> /\ Grants(Head(rpso_queue), a, RPSO[a], NRPS[a])
  BY <1>3 DEF InStep, AsInStep
<1> DEFINE r == Head(rpso_queue)
<1>5. /\ RPSO[a] \in Slot /\ r.rpsos[RPSO[a]].n = NRPS[a]
  BY <1>4 DEF Grants
<1>6. WellFormed(r)
  BY <1>4 DEF InStep, Records
<1> HIDE DEF r
<1>7. RPSO[a] + NRPS[a] <= r.start /\ r.start \in Nat /\ r.start <= SlotMax
  BY <1>3, <1>5, <1>6, Params DEF WellFormed
<1>8. i \in Slot
  BY <1>1, <1>3, <1>7, Params DEF Slot
<1> QED BY <1>3, <1>4, <1>8

LEMMA SlotEmptyIs ==
  ASSUME Types, NEW i \in Slot, NEW a \in As, slots[i].as = a
  PROVE  slots[i] # Empty
BY AsFinite DEF Empty, NoAs

\* The PDU a station is about to put into the slots has been sent by it.
LEMMA PduSent ==
  ASSUME Types, Own, NEW a \in As
  PROVE  Pdu(a) \subseteq 1 .. sent[a]
<1>1. CASE rl_data_q[a] = <<>>
  BY <1>1 DEF Pdu
<1>2. CASE rl_data_q[a] # <<>>
  <2>1. rl_data_q[a] \in Seq(SUBSET Nat)
    BY DEF Types, AsTypes
  <2>2. 1 \in 1 .. Len(rl_data_q[a]) /\ Head(rl_data_q[a]) = rl_data_q[a][1]
    BY <1>2, <2>1
  <2>3. rl_data_q[a][1] \subseteq 1 .. sent[a]
    BY <2>2 DEF Own
  <2> QED BY <1>2, <2>2, <2>3 DEF Pdu
<1> QED BY <1>1, <1>2

LEMMA SortedTick ==
  ASSUME Types, InStep, Sorted, Own, NEW a \in As, DataTick(a)
  PROVE  Sorted'
<1> DEFINE r == Head(rpso_queue)
           O == Occupied(a, Pdu(a))
<1>1. /\ UNCHANGED <<phase, rpso_queue, sent>> /\ ticked' = ticked \cup {a}
      /\ phase = "data" /\ a \notin ticked
  BY DEF DataTick, gsvars, winvars
<1>2. ASSUME NEW i \in Slot
      PROVE  /\ i \in O => /\ slots'[i].as = a
                           /\ slots'[i].sdus = Block(Pdu(a), i - RPSO[a])
             /\ i \notin O => slots'[i] = slots[i]
  <2>1. slots' = Filled(a, Pdu(a))
    BY TickIs
  <2>2. /\ i \in O => slots'[i] = [as |-> a, sdus |-> Block(Pdu(a), i - RPSO[a])]
        /\ i \notin O => slots'[i] = slots[i]
    BY <2>1, FilledIs
  <2> HIDE DEF O
  <2> QED BY <2>2
<1>3. ASSUME NEW i \in O
      PROVE
        /\ i \in Slot /\ RPSO[a] <= i /\ i < RPSO[a] + NRPS[a]
        /\ NRPS[a] > 0 /\ rpso_queue # <<>>
        /\ RPSO[a] \in Slot /\ r.rpsos[RPSO[a]].as = a
        /\ r.rpsos[RPSO[a]].n = NRPS[a]
  <2>1. /\ i \in Slot /\ RPSO[a] <= i /\ i < RPSO[a] + NRPS[a]
        /\ NRPS[a] > 0 /\ rpso_queue # <<>>
        /\ Grants(r, a, RPSO[a], NRPS[a])
    BY OccupiedIs
  <2> HIDE DEF r, O
  <2> QED BY <2>1 DEF Grants
<1>4. O # {} => \A j \in Slot : RPSO[a] <= j /\ j < RPSO[a] + NRPS[a] => j \in O
  BY Params DEF Occupied, Slot, Types, AsTypes
<1>5. \A k \in Slot : k \in Nat
  BY Params DEF Slot
<1>6. rpso_queue # <<>> => r \in Rec /\ WellFormed(r)
  BY DEF InStep, Records, Types, GsTypes
<1> HIDE DEF r, O
<1>7. ASSUME NEW i \in Slot, i \in O
      PROVE  /\ slots'[i].as = a /\ slots'[i].sdus \subseteq 1 .. sent[a]
             /\ rpso_queue # <<>>
             /\ \E k \in Slot : Within(r, i, k) /\ FilledBy(slots', r, k, a)
  <2>1. slots'[i].as = a /\ slots'[i].sdus = Block(Pdu(a), i - RPSO[a])
    BY <1>2, <1>7
  <2>2. slots'[i].sdus \subseteq 1 .. sent[a]
    BY <2>1, BlockIn, PduSent
  <2>3. Within(r, i, RPSO[a])
    BY <1>3, <1>7 DEF Within
  <2>4. \A j \in Slot : Within(r, j, RPSO[a]) => j \in O
    BY <1>3, <1>4, <1>7 DEF Within
  <2>5. \A j \in Slot : j \in O => slots'[j].as = a
    BY <1>2
  <2>6. r' = r
    BY <1>1 DEF r
  <2>7. FilledBy(slots', r, RPSO[a], a)
    BY <1>1, <1>3, <1>7, <2>4, <2>5, <2>6 DEF FilledBy
  <2> QED BY <1>3, <1>7, <2>1, <2>2, <2>3, <2>7
<1>8. ASSUME NEW i \in Slot, i \notin O, slots'[i] # Empty
      PROVE  /\ slots'[i] = slots[i] /\ slots[i].as \in ticked
             /\ slots[i].sdus \subseteq 1 .. sent[slots[i].as]
             /\ rpso_queue # <<>>
             /\ \E k \in Slot : Within(r, i, k) /\ FilledBy(slots', r, k, slots[i].as)
  <2>1. slots'[i] = slots[i]
    BY <1>2, <1>8
  <2>2. /\ rpso_queue # <<>> /\ slots[i].as \in ticked
        /\ slots[i].sdus \subseteq 1 .. sent[slots[i].as]
    BY <1>8, <2>1 DEF Sorted
  <2>3. PICK k \in Slot : Within(r, i, k) /\ FilledBy(slots, r, k, slots[i].as)
    BY <1>8, <2>1 DEF Sorted, r
  <2>4. ASSUME NEW j \in Slot, Within(r, j, k) PROVE slots'[j].as = slots[i].as
    <3>1. slots[j].as = slots[i].as
      BY <2>3, <2>4 DEF FilledBy
    <3>2. j \notin O
      <4>1. SUFFICES ASSUME j \in O PROVE FALSE
        OBVIOUS
      <4>2. RPSO[a] # k
        BY <1>1, <1>3, <2>2, <2>3, <4>1 DEF FilledBy
      <4>3. /\ r.rpsos[RPSO[a]].n > 0 /\ r.rpsos[k].n > 0
            /\ RPSO[a] \in Slot
        BY <1>3, <2>3, <4>1 DEF FilledBy
      <4>4. /\ RPSO[a] < k => RPSO[a] + r.rpsos[RPSO[a]].n <= k
            /\ k < RPSO[a] => k + r.rpsos[k].n <= RPSO[a]
        BY <1>6, <2>2, <4>3 DEF WellFormed
      <4>5. /\ RPSO[a] <= j /\ j < RPSO[a] + r.rpsos[RPSO[a]].n
            /\ k <= j /\ j < k + r.rpsos[k].n
        BY <1>3, <2>4, <4>1 DEF Within
      <4>6. r.rpsos[RPSO[a]].n \in Nat /\ r.rpsos[k].n \in Nat
        BY <1>6, <2>2, <4>3 DEF Rec
      <4> QED BY <1>5, <4>2, <4>3, <4>4, <4>5, <4>6
    <3> QED BY <1>2, <3>1, <3>2
  <2>5. r' = r
    BY <1>1 DEF r
  <2>6. \E l \in Slot : Within(r, i, l) /\ FilledBy(slots', r, l, slots[i].as)
    <3>1. /\ r.rpsos[k].as = slots[i].as /\ r.rpsos[k].n > 0
      BY <2>3 DEF FilledBy
    <3>2. /\ r.rpsos[k].as = slots'[i].as /\ r.rpsos[k].n > 0
          /\ \A j \in Slot : Within(r, j, k) => slots'[j].as = slots'[i].as
      BY <3>1, <2>1, <2>4
    <3>3. FilledBy(slots', r, k, slots[i].as)
      BY <2>1, <3>2 DEF FilledBy
    <3> QED BY <2>3, <3>3
  <2> QED BY <2>1, <2>2, <2>6
<1>9. ASSUME NEW i \in Slot, slots'[i] # Empty
      PROVE  /\ phase' = "data" /\ rpso_queue' # <<>> /\ slots'[i].as \in ticked'
             /\ slots'[i].sdus \subseteq 1 .. sent'[slots'[i].as]
             /\ \E k \in Slot : /\ Within(r, i, k)
                                /\ FilledBy(slots', r, k, slots'[i].as)
  <2>1. CASE i \in O
    BY <1>1, <1>7, <2>1
  <2>2. CASE i \notin O
    BY <1>1, <1>8, <1>9, <2>2
  <2> QED BY <2>1, <2>2
<1>10. Head(rpso_queue') = r
  BY <1>1 DEF r
<1> QED BY <1>9, <1>10 DEF Sorted, Within, FilledBy

LEMMA SortedStep ==
  ASSUME Types, Types', InStep, Sorted, Own, Window, Next
  PROVE  Sorted'
<1>1. ASSUME UNCHANGED <<slots, phase, rpso_queue, ticked>>,
             \A a \in As : sent[a] <= sent'[a]
      PROVE  Sorted'
  <2>1. ASSUME NEW a \in As PROVE 1 .. sent[a] \subseteq 1 .. sent'[a]
    <3>1. sent[a] \in Nat /\ sent'[a] \in Nat
      BY DEF Types, WinTypes
    <3> QED BY <1>1, <3>1
  <2>2. ticked \subseteq As
    BY DEF Types, AsTypes
  <2> QED BY <1>1, <2>1, <2>2 DEF Sorted, Within, FilledBy
<1>2. ASSUME \A i \in Slot : slots'[i] = Empty PROVE Sorted'
  BY <1>2 DEF Sorted, Empty, NoAs
<1>3. ASSUME RlDataUpload PROVE Sorted'
  BY <1>2, <1>3 DEF RlDataUpload
<1>4. ASSUME LmeTick \/ CcFrame PROVE Sorted'
  <2>1. phase # "data" /\ slots' = slots
    BY <1>4 DEF LmeTick, CcFrame
  <2>2. \A i \in Slot : slots[i] = Empty
    BY <2>1 DEF Sorted
  <2> QED BY <1>2, <2>1, <2>2
<1>5. ASSUME UNCHANGED <<slots, phase, rpso_queue, ticked, sent>> PROVE Sorted'
  BY <1>1, <1>5 DEF Types, WinTypes
<1>6. ASSUME NEW a \in As, DlsFrag(a) PROVE Sorted'
  <2>1. Cardinality(Cut(a)) \in Nat
    BY <1>6, CutIs DEF DlsFrag
  <2>2. \A b \in As : sent[b] <= sent'[b]
    BY <1>6, <2>1 DEF DlsFrag, Types, WinTypes
  <2> QED BY <1>1, <1>6, <2>2 DEF DlsFrag, gsvars
<1>7. ASSUME NEW a \in As, DataTick(a) PROVE Sorted'
  BY <1>7, SortedTick
<1>8. ASSUME NEW a \in As,
             Lineup(a) \/ Acquire(a) \/ SetRlParam(a) \/ RecvAck(a)
      PROVE  UNCHANGED <<slots, phase, rpso_queue, ticked, sent>>
  BY <1>8 DEF Lineup, Acquire, SetRlParam, RecvAck, gsvars, winvars, asvars
<1>9. ASSUME NEW a \in As, EntityStep(a)
      PROVE  UNCHANGED <<slots, phase, rpso_queue, ticked, sent>>
  BY <1>9 DEF EntityStep, DlsReassy, AckCycle, AckFresh, gsvars, winvars, asvars
<1>10. ASSUME CloseCc PROVE UNCHANGED <<slots, phase, rpso_queue, ticked, sent>>
  BY <1>10 DEF CloseCc, winvars, asvars
<1> QED BY <1>10, <1>3, <1>4, <1>5, <1>6, <1>7, <1>8, <1>9 DEF Next, StationStep

-----------------------------------------------------------------------------
(* What grows: what is sent, received, acknowledged and lost.                 *)

LEMMA SentGrows ==
  ASSUME Types, Window, Next, NEW a \in As
  PROVE  1 .. sent[a] \subseteq 1 .. sent'[a] /\ sent'[a] \in Nat
<1>1. sent \in [As -> Nat]
  BY DEF Types, WinTypes
<1>2. ASSUME NEW b \in As, DlsFrag(b) PROVE sent[a] <= sent'[a] /\ sent'[a] \in Nat
  <2>1. Cardinality(Cut(b)) \in Nat
    BY <1>2, CutIs DEF DlsFrag
  <2> QED BY <1>1, <1>2, <2>1 DEF DlsFrag
<1>3. ASSUME NEW b \in As, ~ DlsFrag(b), StationStep(b) PROVE sent' = sent
  BY <1>3 DEF StationStep, Lineup, Acquire, SetRlParam, DataTick, RecvAck,
              winvars
<1>4. ASSUME NEW b \in As, EntityStep(b) PROVE sent' = sent
  BY <1>4 DEF EntityStep, DlsReassy, AckCycle, AckFresh, winvars
<1>5. ASSUME LmeTick \/ CloseCc \/ CcFrame \/ RlDataUpload PROVE sent' = sent
  BY <1>5 DEF LmeTick, CloseCc, CcFrame, RlDataUpload, winvars
<1>6. sent[a] <= sent'[a] /\ sent'[a] \in Nat
  BY <1>1, <1>2, <1>3, <1>4, <1>5 DEF Next
<1> QED BY <1>1, <1>6

LEMMA IwindowGrows ==
  ASSUME Types, Next, NEW a \in As
  PROVE  iwindow[a] \subseteq iwindow'[a]
<1>1. ASSUME NEW b \in As, DlsReassy(b) PROVE iwindow[a] \subseteq iwindow'[a]
  BY <1>1 DEF DlsReassy, Types, EnTypes
<1>2. ASSUME NEW b \in As, AckCycle(b) \/ AckFresh(b) PROVE iwindow' = iwindow
  BY <1>2 DEF AckCycle, AckFresh
<1>3. ASSUME NEW b \in As, StationStep(b) PROVE iwindow' = iwindow
  BY <1>3 DEF StationStep, Lineup, Acquire, SetRlParam, DlsFrag, DataTick,
              RecvAck, envars
<1>4. ASSUME LmeTick \/ CloseCc \/ CcFrame \/ RlDataUpload PROVE iwindow' = iwindow
  BY <1>4 DEF LmeTick, CloseCc, CcFrame, RlDataUpload, envars
<1> QED BY <1>1, <1>2, <1>3, <1>4 DEF Next, EntityStep

LEMMA AckedGrows ==
  ASSUME Types, Next, NEW a \in As
  PROVE  acked[a] \subseteq acked'[a] /\ lost[a] \subseteq lost'[a]
<1>1. ASSUME NEW b \in As, RecvAck(b)
      PROVE  acked[a] \subseteq acked'[a] /\ lost[a] \subseteq lost'[a]
  BY <1>1 DEF RecvAck, Types, WinTypes, LossTypes
<1>2. ASSUME NEW b \in As, ~ RecvAck(b), StationStep(b)
      PROVE  acked[a] \subseteq acked'[a] /\ lost[a] \subseteq lost'[a]
  <2>1. acked' = acked
    BY <1>2 DEF StationStep, Lineup, Acquire, SetRlParam, DlsFrag, DataTick,
                winvars
  <2>2. lost' = lost \/ DataTick(b)
    BY <1>2 DEF StationStep, Lineup, Acquire, SetRlParam, DlsFrag
  <2>3. DataTick(b) => lost[a] \subseteq lost'[a]
    BY DEF DataTick, Types, LossTypes
  <2> QED BY <2>1, <2>2, <2>3
<1>3. ASSUME NEW b \in As, EntityStep(b)
      PROVE  acked[a] \subseteq acked'[a] /\ lost[a] \subseteq lost'[a]
  BY <1>3 DEF EntityStep, DlsReassy, AckCycle, AckFresh, winvars, Types, LossTypes
<1>4. ASSUME LmeTick \/ CloseCc \/ RlDataUpload \/ CcFrame
      PROVE  acked[a] \subseteq acked'[a] /\ lost[a] \subseteq lost'[a]
  BY <1>4 DEF LmeTick, CloseCc, RlDataUpload, CcFrame, winvars, Types, LossTypes
<1> QED BY <1>1, <1>2, <1>3, <1>4 DEF Next

-----------------------------------------------------------------------------
(* What is on its way is the station's own.                                   *)

LEMMA InSdu ==
  ASSUME NEW a, NEW P, NEW d
  PROVE  d \in Sdu(a, P) <=> \E p \in P : d = [as |-> a, pid |-> p]
BY DEF Sdu

\* The entity of a gets SDUs that were in the slots with the SAC of a.
LEMMA FoundIn ==
  ASSUME Types, InStep, Sorted, rpso_queue # <<>>, NEW a \in As, NEW d
  PROVE  d \in Found(Head(rpso_queue), a) <=>
           \E i \in Slot : \E p \in slots[i].sdus :
             slots[i].as = a /\ d = [as |-> a, pid |-> p]
<1>1. Found(Head(rpso_queue), a) = Contents({i \in Slot : slots[i].as = a})
  BY SortedByHead, FoundIs
<1> QED BY <1>1, InContents

LEMMA OwnStep ==
  ASSUME Types, Window, InStep, Sorted, Own, Next
  PROVE  Own'
<1> DEFINE Q(a) == \A i \in 1 .. Len(rl_data_q[a]) :
                     rl_data_q[a][i] \subseteq 1 .. sent[a]
           E(a) == reassy_queue[a] \cup iwindow[a] \subseteq Sdu(a, 1 .. sent[a])
<1>1. ASSUME NEW a \in As PROVE Q(a) /\ E(a)
  BY DEF Own
<1>2. ASSUME NEW a \in As
      PROVE  /\ 1 .. sent[a] \subseteq 1 .. sent'[a]
             /\ Sdu(a, 1 .. sent[a]) \subseteq Sdu(a, 1 .. sent'[a])
  BY SentGrows DEF Sdu
<1>3. ASSUME NEW a \in As, rl_data_q'[a] = rl_data_q[a] PROVE Q(a)'
  BY <1>1, <1>2, <1>3
<1>4. ASSUME NEW a \in As,
             reassy_queue'[a] \cup iwindow'[a] = reassy_queue[a] \cup iwindow[a]
      PROVE  E(a)'
  BY <1>1, <1>2, <1>4
<1>5. ASSUME NEW a \in As, DlsFrag(a), NEW b \in As PROVE Q(b)'
  <2>1. CASE b # a
    BY <1>3, <1>5, <2>1 DEF DlsFrag, Types, AsTypes
  <2>2. CASE b = a
    <3> DEFINE n == Cardinality(Cut(a))
    <3>1. n \in Nat /\ Cut(a) = sent[a] + 1 .. sent[a] + n
      BY <1>5, CutIs DEF DlsFrag
    <3>2. sent[a] \in Nat /\ sent'[a] = sent[a] + n
      BY <1>5 DEF DlsFrag, Types, WinTypes
    <3> HIDE DEF n
    <3>3. Cut(a) \subseteq 1 .. sent'[a]
      BY <3>1, <3>2
    <3>4. rl_data_q[a] \in Seq(SUBSET Nat)
      BY DEF Types, AsTypes
    <3>5. rl_data_q'[a] = Append(rl_data_q[a], Cut(a))
      BY <1>5 DEF DlsFrag, Types, AsTypes
    <3>6. ASSUME NEW i \in 1 .. Len(rl_data_q'[a])
          PROVE  \/ i \in 1 .. Len(rl_data_q[a])
                    /\ rl_data_q'[a][i] = rl_data_q[a][i]
                 \/ rl_data_q'[a][i] = Cut(a)
      BY <3>4, <3>5
    <3> QED BY <1>1, <1>2, <2>2, <3>3, <3>6
  <2> QED BY <2>1, <2>2
<1>6. ASSUME NEW a \in As, DataTick(a), NEW b \in As PROVE Q(b)'
  <2>1. CASE b # a
    BY <1>3, <1>6, <2>1 DEF DataTick, Types, AsTypes
  <2>2. CASE b = a
    <3>1. rl_data_q[a] \in Seq(SUBSET Nat)
      BY DEF Types, AsTypes
    <3>2. rl_data_q'[a] = IF rl_data_q[a] = <<>> THEN rl_data_q[a]
                          ELSE Tail(rl_data_q[a])
      BY <1>6 DEF DataTick, Types, AsTypes
    <3>3. CASE rl_data_q[a] = <<>>
      BY <1>3, <2>2, <3>2, <3>3
    <3>4. CASE rl_data_q[a] # <<>>
      <4>1. rl_data_q'[a] = Tail(rl_data_q[a])
        BY <3>2, <3>4
      <4>2. ASSUME NEW i \in 1 .. Len(rl_data_q'[a])
            PROVE  /\ i + 1 \in 1 .. Len(rl_data_q[a])
                   /\ rl_data_q'[a][i] = rl_data_q[a][i + 1]
        BY <3>1, <3>4, <4>1
      <4> QED BY <1>1, <1>2, <2>2, <4>2
    <3> QED BY <3>3, <3>4
  <2> QED BY <2>1, <2>2
<1>7. ASSUME NEW a \in As, StationStep(a), ~ DlsFrag(a), ~ DataTick(a)
      PROVE  rl_data_q' = rl_data_q
  BY <1>7 DEF StationStep, Lineup, Acquire, SetRlParam, RecvAck, asvars
<1>8. ASSUME NEW a \in As, StationStep(a)
      PROVE  UNCHANGED <<reassy_queue, iwindow>>
  BY <1>8 DEF StationStep, Lineup, Acquire, SetRlParam, DlsFrag, DataTick,
              RecvAck, envars
<1>9. ASSUME NEW a \in As, StationStep(a) PROVE Own'
  BY <1>3, <1>4, <1>5, <1>6, <1>7, <1>8, <1>9 DEF Own
<1>10. ASSUME NEW a \in As, DlsReassy(a) PROVE Own'
  <2>1. rl_data_q' = rl_data_q
    BY <1>10 DEF DlsReassy, asvars
  <2>2. ASSUME NEW b \in As
        PROVE reassy_queue'[b] \cup iwindow'[b] = reassy_queue[b] \cup iwindow[b]
    BY <1>10 DEF DlsReassy, Types, EnTypes
  <2> QED BY <1>3, <1>4, <2>1, <2>2 DEF Own
<1>11. ASSUME NEW a \in As, AckCycle(a) \/ AckFresh(a) PROVE Own'
  <2>1. UNCHANGED <<rl_data_q, reassy_queue, iwindow>>
    BY <1>11 DEF AckCycle, AckFresh, asvars
  <2> QED BY <1>3, <1>4, <2>1 DEF Own
<1>12. ASSUME LmeTick \/ CloseCc \/ CcFrame PROVE Own'
  <2>1. UNCHANGED <<rl_data_q, reassy_queue, iwindow>>
    BY <1>12 DEF LmeTick, CloseCc, CcFrame, asvars, envars
  <2> QED BY <1>3, <1>4, <2>1 DEF Own
<1>13. ASSUME RlDataUpload PROVE Own'
  <2>1. UNCHANGED <<rl_data_q, iwindow, sent>>
    BY <1>13 DEF RlDataUpload, asvars, winvars
  <2>2. CASE rpso_queue = <<>>
    BY <1>3, <1>4, <1>13, <2>1, <2>2 DEF RlDataUpload, Own
  <2>3. CASE rpso_queue # <<>>
    <3>1. ASSUME NEW b \in As PROVE E(b)'
      <4>1. reassy_queue'[b] = reassy_queue[b] \cup Found(Head(rpso_queue), b)
        BY <1>13, <2>3 DEF RlDataUpload
      <4>2. ASSUME NEW d \in Found(Head(rpso_queue), b)
            PROVE  d \in Sdu(b, 1 .. sent[b])
        <5>0. PICK i \in Slot : \E p \in slots[i].sdus :
                slots[i].as = b /\ d = [as |-> b, pid |-> p]
          BY <2>3, FoundIn
        <5>1. PICK p \in slots[i].sdus :
                slots[i].as = b /\ d = [as |-> b, pid |-> p]
          BY <5>0
        <5>2. p \in 1 .. sent[b]
          BY <5>1, SlotEmptyIs DEF Sorted
        <5> QED BY <5>1, <5>2, InSdu
      <4> QED BY <1>1, <2>1, <4>1, <4>2
    <3> QED BY <1>3, <2>1, <3>1 DEF Own
  <2> QED BY <2>2, <2>3
<1> QED BY <1>9, <1>10, <1>11, <1>12, <1>13 DEF Next, EntityStep

-----------------------------------------------------------------------------
(* Acknowledgements.                                                          *)

LEMMA InAcks ==
  ASSUME NEW M, NEW a, NEW p
  PROVE  p \in AcksIn(M, a) <=>
           \E m \in M : m.typ = "ACK" /\ m.as = a /\ p \in m.bitmap
BY DEF AcksIn

LEMMA AckIs ==
  ASSUME Types, InStep, NEW a \in As, NEW m \in cc_pq[a], m.typ = "ACK"
  PROVE  m.bitmap \subseteq Acks(a)
<1>1. m.as = a
  BY DEF InStep, AsInStep
<1> QED BY <1>1, InAcks DEF Acks

LEMMA NoAcksGranted ==
  ASSUME NEW g, NEW m \in RlAllocs(g)
  PROVE  m.typ = "RL_ALLOC"
BY DEF RlAllocs

\* Nothing is acknowledged but what ack_bitset says.
LEMMA AcksBelow ==
  ASSUME Types, Phases, Next, NEW a \in As
  PROVE  Acks(a)' \subseteq Acks(a) \cup ack_bitset[a]
<1>1. ASSUME NEW N, NEW M, \A m \in N : m.typ = "ACK" => m \in M
      PROVE  AcksIn(N, a) \subseteq AcksIn(M, a)
  BY <1>1, InAcks
<1>2. ASSUME assembling' \subseteq assembling, Closed' \subseteq Closed,
             cc_pq'[a] \subseteq cc_pq[a]
      PROVE  Acks(a)' \subseteq Acks(a)
  <2>1. AcksIn(assembling' \cup Closed' \cup cc_pq'[a], a)
          \subseteq AcksIn(assembling \cup Closed \cup cc_pq[a], a)
    BY <1>1, <1>2
  <2> QED BY <2>1 DEF Acks
<1>3. ASSUME LmeTick PROVE Acks(a)' \subseteq Acks(a)
  <2>1. PICK g \in Shares : assembling' = assembling \cup RlAllocs(g)
    BY <1>3 DEF LmeTick
  <2>2. cc_pq' = cc_pq /\ Closed' = Closed
    BY <1>3, ClosedSame DEF LmeTick, asvars
  <2>3. \A m \in assembling' \cup Closed' \cup cc_pq'[a] : m.typ = "ACK" =>
          m \in assembling \cup Closed \cup cc_pq[a]
    BY <2>1, <2>2, NoAcksGranted
  <2>4. AcksIn(assembling' \cup Closed' \cup cc_pq'[a], a)
          \subseteq AcksIn(assembling \cup Closed \cup cc_pq[a], a)
    BY <1>1, <2>3
  <2> QED BY <2>4 DEF Acks
<1>4. ASSUME CcFrame PROVE Acks(a)' \subseteq Acks(a)
  <2>1. assembling' = assembling /\ Closed' = {}
    BY <1>4, ClosedStep DEF CcFrame
  <2>2. cc_pq'[a] \subseteq Closed
    BY <1>4, ClosedIs DEF CcFrame
  <2>3. AcksIn(assembling' \cup Closed' \cup cc_pq'[a], a)
          \subseteq AcksIn(assembling \cup Closed \cup cc_pq[a], a)
    BY <1>1, <2>1, <2>2
  <2> QED BY <2>3 DEF Acks
<1>5. ASSUME RlDataUpload PROVE Acks(a)' \subseteq Acks(a)
  BY <1>2, <1>5, ClosedSame DEF RlDataUpload, asvars
<1>6. ASSUME NEW b \in As, StationStep(b) PROVE Acks(a)' \subseteq Acks(a)
  <2>1. UNCHANGED <<assembling, Closed>>
    BY <1>6, ClosedSame DEF StationStep, Lineup, Acquire, SetRlParam, DlsFrag,
                DataTick, RecvAck, gsvars
  <2>2. ASSUME SetRlParam(b) \/ RecvAck(b) PROVE cc_pq'[a] \subseteq cc_pq[a]
    BY <2>2 DEF SetRlParam, RecvAck, Types, AsTypes
  <2>3. ASSUME Lineup(b) \/ Acquire(b) \/ DlsFrag(b) \/ DataTick(b)
        PROVE  cc_pq' = cc_pq
    BY <2>3 DEF Lineup, Acquire, DlsFrag, DataTick, asvars
  <2> QED BY <1>2, <1>6, <2>1, <2>2, <2>3 DEF StationStep
<1>7. ASSUME NEW b \in As, DlsReassy(b) \/ AckFresh(b)
      PROVE  Acks(a)' \subseteq Acks(a)
  BY <1>2, <1>7, ClosedSame DEF DlsReassy, AckFresh, gsvars, asvars
<1>8. ASSUME NEW b \in As, AckCycle(b)
      PROVE  Acks(a)' \subseteq Acks(a) \cup ack_bitset[a]
  <2> DEFINE n == [typ |-> "ACK", as |-> b, bitmap |-> Bitmap(ack_bitset[b])]
  <2>1. /\ Closed' = Closed /\ cc_pq' = cc_pq
        /\ assembling' \subseteq assembling \cup {n}
    BY <1>8, ClosedSame DEF AckCycle, asvars
  <2>2. n.as = b /\ n.bitmap \subseteq ack_bitset[b]
    BY DEF Bitmap
  <2> HIDE DEF n
  <2>3. ASSUME NEW p \in Acks(a)' PROVE p \in Acks(a) \cup ack_bitset[a]
    <3>1. p \in AcksIn(assembling' \cup Closed' \cup cc_pq'[a], a)
      BY DEF Acks
    <3>2. PICK m \in assembling' \cup Closed' \cup cc_pq'[a] :
            m.typ = "ACK" /\ m.as = a /\ p \in m.bitmap
      BY <3>1, InAcks
    <3>3. CASE m = n
      BY <2>2, <3>2, <3>3
    <3>4. CASE m # n
      <4>1. m \in assembling \cup Closed \cup cc_pq[a]
        BY <2>1, <3>4
      <4> QED BY <3>2, <4>1, InAcks DEF Acks
    <3> QED BY <3>3, <3>4
  <2> QED BY <2>3
<1>9. ASSUME CloseCc PROVE Acks(a)' \subseteq Acks(a)
  <2>1. Closed' = assembling /\ assembling' = {} /\ cc_pq' = cc_pq
    BY <1>9, ClosedStep DEF CloseCc, asvars
  <2>2. AcksIn(assembling' \cup Closed' \cup cc_pq'[a], a)
          \subseteq AcksIn(assembling \cup Closed \cup cc_pq[a], a)
    BY <1>1, <2>1
  <2> QED BY <2>2 DEF Acks
<1> QED BY <1>3, <1>4, <1>5, <1>6, <1>7, <1>8, <1>9 DEF Next, EntityStep

\* An acknowledgement under way stays so until it is taken note of or lost.
LEMMA AcksAbove ==
  ASSUME Types, Phases, InStep, Next, NEW a \in As
  PROVE  Acks(a) \subseteq Acks(a)' \cup acked'[a] \cup lost'[a]
<1>1. ASSUME NEW N, NEW M, \A m \in N : m.typ = "ACK" => m \in M
      PROVE  AcksIn(N, a) \subseteq AcksIn(M, a)
  BY <1>1, InAcks
<1>2. ASSUME \A m \in assembling \cup Closed \cup cc_pq[a] : m.typ = "ACK" =>
               m \in assembling' \cup Closed' \cup cc_pq'[a]
      PROVE  Acks(a) \subseteq Acks(a)'
  <2>1. AcksIn(assembling \cup Closed \cup cc_pq[a], a)
          \subseteq AcksIn(assembling' \cup Closed' \cup cc_pq'[a], a)
    BY <1>1, <1>2
  <2> QED BY <2>1 DEF Acks
<1>3. ASSUME LmeTick PROVE Acks(a) \subseteq Acks(a)'
  <2>1. /\ assembling \subseteq assembling' /\ cc_pq' = cc_pq
        /\ Closed' = Closed
    BY <1>3, ClosedSame DEF LmeTick, asvars
  <2> QED BY <1>2, <2>1
<1>4. ASSUME CcFrame PROVE Acks(a) \subseteq Acks(a)' \cup lost'[a]
  <2>1. assembling' = assembling /\ cc_pq[a] = {}
    BY <1>4 DEF CcFrame
  <2>2. PICK deaf \in SUBSET Deaf :
        /\ cc_pq' = [b \in As |-> IF b \in deaf THEN {}
             ELSE {m \in Closed : m.as = b}]
        /\ lost' = [b \in As |-> IF b \in deaf
             THEN lost[b] \cup AcksIn(Closed, b) ELSE lost[b]]
    BY <1>4, ClosedIs DEF CcFrame
  <2>3. ASSUME NEW p \in Acks(a) PROVE p \in Acks(a)' \cup lost'[a]
    <3>1. PICK m \in assembling \cup Closed \cup cc_pq[a] :
            m.typ = "ACK" /\ m.as = a /\ p \in m.bitmap
      BY InAcks DEF Acks
    <3>2. CASE m \in assembling
      BY <2>1, <3>1, <3>2, InAcks DEF Acks
    <3>3. CASE m \in Closed /\ a \in deaf
      <4>1. p \in AcksIn(Closed, a)
        BY <3>1, <3>3, InAcks
      <4> QED BY <2>2, <3>3, <4>1
    <3>4. CASE m \in Closed /\ a \notin deaf
      <4>1. m \in cc_pq'[a]
        BY <2>2, <3>1, <3>4
      <4> QED BY <3>1, <4>1, InAcks DEF Acks
    <3> QED BY <2>1, <3>2, <3>3, <3>4
  <2> QED BY <2>3
<1>5. ASSUME RlDataUpload PROVE Acks(a) \subseteq Acks(a)'
  BY <1>2, <1>5, ClosedSame DEF RlDataUpload, asvars
<1>6. ASSUME NEW b \in As,
             \/ Lineup(b) \/ Acquire(b) \/ DlsFrag(b) \/ DataTick(b)
             \/ DlsReassy(b) \/ AckFresh(b)
      PROVE  Acks(a) \subseteq Acks(a)'
  <2>1. UNCHANGED <<assembling, Closed, cc_pq>>
    BY <1>6, ClosedSame DEF Lineup, Acquire, DlsFrag, DataTick, DlsReassy, AckFresh,
                gsvars, asvars
  <2> QED BY <1>2, <2>1
<1>7. ASSUME NEW b \in As, SetRlParam(b) PROVE Acks(a) \subseteq Acks(a)'
  <2>1. PICK m \in cc_pq[b] : /\ m.typ = "RL_ALLOC"
                              /\ cc_pq' = [cc_pq EXCEPT ![b] = @ \ {m}]
    BY <1>7 DEF SetRlParam
  <2>2. UNCHANGED <<assembling, Closed>>
    BY <1>7, ClosedSame DEF SetRlParam, gsvars
  <2>3. \A n \in cc_pq[a] : n.typ = "ACK" => n \in cc_pq'[a]
    BY <2>1 DEF Types, AsTypes
  <2> QED BY <1>2, <2>2, <2>3
<1>8. ASSUME NEW b \in As, AckCycle(b) PROVE Acks(a) \subseteq Acks(a)'
  <2>1. /\ Closed' = Closed /\ cc_pq' = cc_pq
        /\ assembling \subseteq assembling'
    BY <1>8, ClosedSame DEF AckCycle, asvars
  <2> QED BY <1>2, <2>1
<1>9. ASSUME NEW b \in As, RecvAck(b)
      PROVE  Acks(a) \subseteq Acks(a)' \cup acked'[a] \cup lost'[a]
  <2>1. PICK m \in cc_pq[b] :
          /\ m.typ = "ACK" /\ cc_pq' = [cc_pq EXCEPT ![b] = @ \ {m}]
          /\ acked' = [acked EXCEPT ![b] = @ \cup Acknowledged(m.bitmap)]
          /\ lost' = [lost EXCEPT ![b] = @ \cup
                        (m.bitmap \ Acknowledged(m.bitmap))]
    BY <1>9 DEF RecvAck
  <2>2. UNCHANGED <<assembling, Closed>>
    BY <1>9, ClosedSame DEF RecvAck, gsvars
  <2>3. ASSUME NEW p \in Acks(a)
        PROVE  p \in Acks(a)' \cup acked'[a] \cup lost'[a]
    <3>1. PICK n \in assembling \cup Closed \cup cc_pq[a] :
            n.typ = "ACK" /\ n.as = a /\ p \in n.bitmap
      BY InAcks DEF Acks
    <3>2. CASE n \in assembling' \cup Closed' \cup cc_pq'[a]
      BY <3>1, <3>2, InAcks DEF Acks
    <3>3. CASE n \notin assembling' \cup Closed' \cup cc_pq'[a]
      <4>1. a = b /\ n = m
        BY <2>1, <2>2, <3>1, <3>3 DEF Types, AsTypes
      <4>2. p \in Acknowledged(m.bitmap) \/ p \in m.bitmap \ Acknowledged(m.bitmap)
        BY <3>1, <4>1
      <4>3. /\ acked'[a] = acked[a] \cup Acknowledged(m.bitmap)
            /\ lost'[a] = lost[a] \cup (m.bitmap \ Acknowledged(m.bitmap))
        BY <2>1, <4>1 DEF Types, WinTypes, LossTypes
      <4> QED BY <4>2, <4>3
    <3> QED BY <3>2, <3>3
  <2> QED BY <2>3
<1>10. ASSUME CloseCc PROVE Acks(a) \subseteq Acks(a)'
  <2>1. Closed = {} /\ Closed' = assembling /\ cc_pq' = cc_pq
    BY <1>10, ClosedStep DEF CloseCc, asvars
  <2> QED BY <1>2, <2>1
<1> QED BY <1>10, <1>3, <1>4, <1>5, <1>6, <1>7, <1>8, <1>9
        DEF Next, StationStep, EntityStep

LEMMA HonestStep ==
  ASSUME Types, Phases, InStep, Own, Honest, Next
  PROVE  Honest'
<1>1. ASSUME NEW a \in As, NEW P, NEW Q, Has(a, P), Q \subseteq P
      PROVE  Sdu(a, Q) \subseteq iwindow'[a]
  BY <1>1, IwindowGrows DEF Has, Sdu
<1>2. ASSUME NEW a \in As PROVE Has(a, Acks(a))'
  <2>1. Has(a, Acks(a) \cup ack_bitset[a])
    BY DEF Honest, Has, Sdu
  <2>2. Sdu(a, Acks(a)') \subseteq iwindow'[a]
    BY <1>1, <2>1, AcksBelow
  <2> QED BY <2>2 DEF Has, Sdu
<1>3. ASSUME NEW a \in As PROVE Has(a, acked[a])'
  <2>1. acked'[a] \subseteq acked[a] \cup Acks(a)
    <3>1. ASSUME NEW b \in As, RecvAck(b)
          PROVE  acked'[a] \subseteq acked[a] \cup Acks(a)
      <4>1. PICK m \in cc_pq[b] :
              /\ m.typ = "ACK"
              /\ acked' = [acked EXCEPT ![b] = @ \cup Acknowledged(m.bitmap)]
        BY <3>1 DEF RecvAck
      <4>2. Acknowledged(m.bitmap) \subseteq m.bitmap
        BY DEF Acknowledged
      <4>3. m.bitmap \subseteq Acks(b)
        BY <4>1, AckIs
      <4> QED BY <4>1, <4>2, <4>3 DEF Types, WinTypes
    <3>2. ASSUME NEW b \in As, ~ RecvAck(b), StationStep(b) PROVE acked' = acked
      BY <3>2 DEF StationStep, Lineup, Acquire, SetRlParam, DlsFrag, DataTick,
                  winvars
    <3>3. ASSUME NEW b \in As, EntityStep(b) PROVE acked' = acked
      BY <3>3 DEF EntityStep, DlsReassy, AckCycle, AckFresh, winvars
    <3>4. ASSUME LmeTick \/ CloseCc \/ CcFrame \/ RlDataUpload PROVE acked' = acked
      BY <3>4 DEF LmeTick, CloseCc, CcFrame, RlDataUpload, winvars
    <3> QED BY <3>1, <3>2, <3>3, <3>4 DEF Next
  <2>2. Has(a, acked[a] \cup Acks(a))
    BY DEF Honest, Has, Sdu
  <2>3. Sdu(a, acked'[a]) \subseteq iwindow'[a]
    BY <1>1, <2>1, <2>2
  <2> QED BY <2>3 DEF Has, Sdu
<1>4. ASSUME NEW a \in As PROVE Has(a, ack_bitset[a])' /\ Has(a, told[a])'
  <2>1. Has(a, ack_bitset[a]) /\ Has(a, told[a])
    BY DEF Honest
  <2>2. ASSUME ack_bitset'[a] \subseteq ack_bitset[a],
               told'[a] \subseteq told[a] \cup ack_bitset[a]
        PROVE  Has(a, ack_bitset[a])' /\ Has(a, told[a])'
    <3>1. Has(a, told[a] \cup ack_bitset[a])
      BY <2>1 DEF Has, Sdu
    <3>2. Sdu(a, ack_bitset'[a]) \subseteq iwindow'[a]
      BY <1>1, <2>1, <2>2
    <3>3. Sdu(a, told'[a]) \subseteq iwindow'[a]
      BY <1>1, <2>2, <3>1
    <3> QED BY <3>2, <3>3 DEF Has, Sdu
  <2>3. ASSUME NEW b \in As, DlsReassy(b)
        PROVE  Has(a, ack_bitset[a])' /\ Has(a, told[a])'
    <3>1. PICK d \in reassy_queue[b] :
            /\ iwindow' = [iwindow EXCEPT ![b] = @ \cup {d}]
            /\ ack_bitset' = [ack_bitset EXCEPT ![b] = @ \cup {d.pid}]
      BY <2>3 DEF DlsReassy
    <3>2. told' = told
      BY <2>3 DEF DlsReassy
    <3>3. CASE a # b
      BY <2>2, <3>1, <3>2, <3>3 DEF Types, EnTypes
    <3>4. CASE a = b
      <4>1. d \in Sdu(a, 1 .. sent[a])
        BY <3>4 DEF Own
      <4>2. d = [as |-> a, pid |-> d.pid]
        BY <4>1 DEF Sdu
      <4>3. d \in iwindow'[a] /\ ack_bitset'[a] = ack_bitset[a] \cup {d.pid}
        BY <3>1, <3>4 DEF Types, EnTypes
      <4>4. Sdu(a, ack_bitset[a]) \subseteq iwindow'[a]
        BY <1>1, <2>1
      <4>5. Sdu(a, ack_bitset'[a]) \subseteq iwindow'[a]
        BY <4>2, <4>3, <4>4 DEF Sdu
      <4>6. Sdu(a, told'[a]) \subseteq iwindow'[a]
        BY <1>1, <2>1, <3>2
      <4> QED BY <4>5, <4>6 DEF Has, Sdu
    <3> QED BY <3>3, <3>4
  <2>4. ASSUME NEW b \in As, AckCycle(b)
        PROVE  Has(a, ack_bitset[a])' /\ Has(a, told[a])'
    <3>1. /\ ack_bitset' = ack_bitset
          /\ told' = [told EXCEPT ![b] = Bitmap(ack_bitset[b])]
      BY <2>4 DEF AckCycle
    <3>2. Bitmap(ack_bitset[b]) \subseteq ack_bitset[b]
      BY DEF Bitmap
    <3> QED BY <2>2, <3>1, <3>2 DEF Types, EnTypes
  <2>5. ASSUME NEW b \in As, AckFresh(b)
        PROVE  Has(a, ack_bitset[a])' /\ Has(a, told[a])'
    <3>1. /\ ack_bitset' = [ack_bitset EXCEPT ![b] = {}]
          /\ told' = [told EXCEPT ![b] = {}]
      BY <2>5 DEF AckFresh, Fresh
    <3> QED BY <2>2, <3>1 DEF Types, EnTypes
  <2>6. ASSUME UNCHANGED <<ack_bitset, told>>
        PROVE  Has(a, ack_bitset[a])' /\ Has(a, told[a])'
    BY <2>2, <2>6
  <2>7. ASSUME NEW b \in As, StationStep(b) PROVE UNCHANGED <<ack_bitset, told>>
    BY <2>7 DEF StationStep, Lineup, Acquire, SetRlParam, DlsFrag, DataTick,
                RecvAck, envars
  <2>8. ASSUME LmeTick \/ CloseCc \/ CcFrame \/ RlDataUpload
        PROVE  UNCHANGED <<ack_bitset, told>>
    BY <2>8 DEF LmeTick, CloseCc, CcFrame, RlDataUpload, envars
  <2> QED BY <2>3, <2>4, <2>5, <2>6, <2>7, <2>8 DEF Next, EntityStep
<1> QED BY <1>2, <1>3, <1>4 DEF Honest

LEMMA ToldStep ==
  ASSUME Types, Phases, InStep, Told, Next
  PROVE  Told'
<1>1. ASSUME NEW a \in As, told'[a] \subseteq told[a]
      PROVE  told'[a] \subseteq acked'[a] \cup lost'[a] \cup Acks(a)'
  <2>1. told[a] \subseteq acked[a] \cup lost[a] \cup Acks(a)
    BY DEF Told
  <2> QED BY <1>1, <2>1, AckedGrows, AcksAbove
<1>2. ASSUME NEW b \in As, AckCycle(b), NEW a \in As
      PROVE  told'[a] \subseteq acked'[a] \cup lost'[a] \cup Acks(a)'
  <2>1. CASE a # b
    BY <1>1, <1>2, <2>1 DEF AckCycle, Types, EnTypes
  <2>2. CASE a = b
    <3>1. told'[a] = Bitmap(ack_bitset[a])
      BY <1>2, <2>2 DEF AckCycle, Types, EnTypes
    <3>2. CASE ack_bitset[a] = {}
      BY <3>1, <3>2 DEF Bitmap
    <3>3. CASE ack_bitset[a] # {}
      <4> DEFINE n == [typ |-> "ACK", as |-> a, bitmap |-> Bitmap(ack_bitset[a])]
      <4>1. n \in assembling'
        BY <1>2, <2>2, <3>3 DEF AckCycle
      <4>2. n.typ = "ACK" /\ n.as = a /\ n.bitmap = told'[a]
        BY <3>1
      <4> HIDE DEF n
      <4>3. told'[a] \subseteq Acks(a)'
        BY <4>1, <4>2, InAcks DEF Acks
      <4> QED BY <4>3
    <3> QED BY <3>2, <3>3
  <2> QED BY <2>1, <2>2
<1>3. ASSUME NEW b \in As, AckFresh(b), NEW a \in As PROVE told'[a] \subseteq told[a]
  BY <1>3 DEF AckFresh, Types, EnTypes
<1>4. ASSUME NEW b \in As, StationStep(b) \/ DlsReassy(b) PROVE told' = told
  BY <1>4 DEF StationStep, Lineup, Acquire, SetRlParam, DlsFrag, DataTick,
              RecvAck, DlsReassy, envars
<1>5. ASSUME LmeTick \/ CloseCc \/ CcFrame \/ RlDataUpload PROVE told' = told
  BY <1>5 DEF LmeTick, CloseCc, CcFrame, RlDataUpload, envars
<1>6. ASSUME NEW a \in As
      PROVE  told'[a] \subseteq acked'[a] \cup lost'[a] \cup Acks(a)'
  BY <1>1, <1>2, <1>3, <1>4, <1>5 DEF Next, EntityStep
<1> QED BY <1>6 DEF Told

-----------------------------------------------------------------------------
(* Nothing vanishes: each stage of the way hands on to the next.              *)

Queued(a) == UNION {rl_data_q[a][i] : i \in 1 .. Len(rl_data_q[a])}
InSlots(a) == UNION {slots[i].sdus : i \in {j \in Slot : slots[j].as = a}}
Arrived(a) == {d.pid : d \in reassy_queue[a]}

LEMMA UnderWayIs ==
  ASSUME NEW a
  PROVE  /\ UnderWay(a) = Queued(a) \cup InSlots(a) \cup Arrived(a)
                            \cup ack_bitset[a] \cup Acks(a)
         /\ UnderWay(a)' = Queued(a)' \cup InSlots(a)' \cup Arrived(a)'
                            \cup ack_bitset'[a] \cup Acks(a)'
<1>1. UnderWay(a) = Queued(a) \cup InSlots(a) \cup Arrived(a)
                      \cup ack_bitset[a] \cup Acks(a)
  BY DEF UnderWay, Queued, InSlots, Arrived, Acks
<1>2. UnderWay(a)' = Queued(a)' \cup InSlots(a)' \cup Arrived(a)'
                       \cup ack_bitset'[a] \cup Acks(a)'
  BY DEF UnderWay, Queued, InSlots, Arrived, Acks
<1> QED BY <1>1, <1>2

\* dls_frag_func cuts what is sent, in order, into the PDUs.
LEMMA SentQueued ==
  ASSUME Types, Window, Next, NEW a \in As
  PROVE  1 .. sent'[a] \subseteq 1 .. sent[a] \cup Queued(a)'
<1>1. ASSUME NEW b \in As, DlsFrag(b)
      PROVE  1 .. sent'[a] \subseteq 1 .. sent[a] \cup Queued(a)'
  <2>1. CASE a # b
    BY <1>1, <2>1 DEF DlsFrag, Types, WinTypes
  <2>2. CASE a = b
    <3> DEFINE n == Cardinality(Cut(a))
    <3>1. n \in Nat /\ Cut(a) = sent[a] + 1 .. sent[a] + n
      BY <1>1, <2>2, CutIs DEF DlsFrag
    <3>2. sent[a] \in Nat /\ sent'[a] = sent[a] + n
      BY <1>1, <2>2 DEF DlsFrag, Types, WinTypes
    <3> HIDE DEF n
    <3>3. 1 .. sent'[a] \subseteq 1 .. sent[a] \cup Cut(a)
      BY <3>1, <3>2
    <3>4. rl_data_q[a] \in Seq(SUBSET Nat)
      BY DEF Types, AsTypes
    <3>5. rl_data_q'[a] = Append(rl_data_q[a], Cut(a))
      BY <1>1, <2>2 DEF DlsFrag, Types, AsTypes
    <3>6. /\ Len(rl_data_q'[a]) \in 1 .. Len(rl_data_q'[a])
          /\ rl_data_q'[a][Len(rl_data_q'[a])] = Cut(a)
      BY <3>4, <3>5
    <3>7. Cut(a) \subseteq Queued(a)'
      BY <3>6 DEF Queued
    <3> QED BY <3>3, <3>7
  <2> QED BY <2>1, <2>2
<1>2. ASSUME NEW b \in As, ~ DlsFrag(b), StationStep(b) PROVE sent' = sent
  BY <1>2 DEF StationStep, Lineup, Acquire, SetRlParam, DataTick, RecvAck,
              winvars
<1>3. ASSUME NEW b \in As, EntityStep(b) PROVE sent' = sent
  BY <1>3 DEF EntityStep, DlsReassy, AckCycle, AckFresh, winvars
<1>4. ASSUME LmeTick \/ CloseCc \/ CcFrame \/ RlDataUpload PROVE sent' = sent
  BY <1>4 DEF LmeTick, CloseCc, CcFrame, RlDataUpload, winvars
<1> QED BY <1>1, <1>2, <1>3, <1>4 DEF Next

\* From the queue of PDUs into the slots.
LEMMA QueuedGoes ==
  ASSUME Types, InStep, Next, NEW a \in As
  PROVE  Queued(a) \subseteq Queued(a)' \cup InSlots(a)' \cup lost'[a]
<1>1. rl_data_q[a] \in Seq(SUBSET Nat)
  BY DEF Types, AsTypes
<1>2. ASSUME rl_data_q'[a] = rl_data_q[a] PROVE Queued(a) \subseteq Queued(a)'
  BY <1>2, Zenon DEF Queued
<1>3. ASSUME NEW b \in As, DlsFrag(b) PROVE Queued(a) \subseteq Queued(a)'
  <2>1. CASE a # b
    <3>1. rl_data_q'[a] = rl_data_q[a]
      BY <1>3, <2>1 DEF DlsFrag, Types, AsTypes
    <3> QED BY <1>2, <3>1
  <2>2. CASE a = b
    <3>1. rl_data_q'[a] = Append(rl_data_q[a], Cut(a))
      BY <1>3, <2>2 DEF DlsFrag, Types, AsTypes
    <3>2. ASSUME NEW i \in 1 .. Len(rl_data_q[a])
          PROVE  /\ i \in 1 .. Len(rl_data_q'[a])
                 /\ rl_data_q'[a][i] = rl_data_q[a][i]
      BY <1>1, <3>1
    <3> QED BY <3>2 DEF Queued
  <2> QED BY <2>1, <2>2
<1>4. ASSUME NEW b \in As, DataTick(b)
      PROVE  Queued(a) \subseteq Queued(a)' \cup InSlots(a)' \cup lost'[a]
  <2>1. CASE a # b
    <3>1. rl_data_q'[a] = rl_data_q[a]
      BY <1>4, <2>1 DEF DataTick, Types, AsTypes
    <3> QED BY <1>2, <3>1
  <2>2. CASE a = b
    <3>1. ASSUME NEW i \in 1 .. Len(rl_data_q[a])
          PROVE  rl_data_q[a][i] \subseteq Queued(a)' \cup Pdu(a)
      <4>1. rl_data_q[a] # <<>>
        BY <1>1
      <4>2. rl_data_q'[a] = Tail(rl_data_q[a])
        BY <1>4, <2>2, <4>1 DEF DataTick, Types, AsTypes
      <4>3. CASE i = 1
        BY <1>1, <4>1, <4>3 DEF Pdu
      <4>4. CASE i # 1
        <5>1. /\ i - 1 \in 1 .. Len(rl_data_q'[a])
              /\ rl_data_q'[a][i - 1] = rl_data_q[a][i]
          BY <1>1, <4>1, <4>2, <4>4
        <5> QED BY <5>1 DEF Queued
      <4> QED BY <4>3, <4>4
    <3>2. ASSUME NEW p \in Pdu(a) PROVE p \in InSlots(a)' \cup lost'[a]
      <4> DEFINE O == Occupied(a, Pdu(a))
      <4>1. CASE \E i \in O : p \in Block(Pdu(a), i - RPSO[a])
        <5>1. PICK i \in O : p \in Block(Pdu(a), i - RPSO[a])
          BY <4>1
        <5>2. i \in Slot
          BY OccupiedIs
        <5>3. slots'[i] = [as |-> a, sdus |-> Block(Pdu(a), i - RPSO[a])]
          <6>1. slots' = Filled(a, Pdu(a))
            BY <1>4, <2>2, TickIs
          <6> QED BY <5>2, <6>1, FilledIs
        <5>4. slots'[i].as = a /\ p \in slots'[i].sdus
          BY <5>1, <5>3
        <5>5. p \in InSlots(a)'
          <6>1. i \in {j \in Slot : slots'[j].as = a}
            BY <5>2, <5>4
          <6>2. p \in UNION {slots'[j].sdus : j \in {k \in Slot : slots'[k].as = a}}
            BY <5>4, <6>1
          <6> QED BY <6>2, Zenon DEF InSlots
        <5> QED BY <5>5
      <4>2. CASE ~ \E i \in O : p \in Block(Pdu(a), i - RPSO[a])
        <5>1. p \in Pdu(a) \ UNION {Block(Pdu(a), i - RPSO[a]) : i \in O}
          <6> HIDE DEF O
          <6> QED BY <4>2
        <5>2. lost'[a] = lost[a] \cup
                (Pdu(a) \ UNION {Block(Pdu(a), i - RPSO[a]) : i \in O})
          <6>1. lost' = [lost EXCEPT ![a] = @ \cup
                  (Pdu(a) \ UNION {Block(Pdu(a), i - RPSO[a]) : i \in O})]
            BY <1>4, <2>2, TickIs
          <6> HIDE DEF O
          <6> QED BY <6>1 DEF Types, LossTypes
        <5> QED BY <5>1, <5>2
      <4> QED BY <4>1, <4>2
    <3>3. Queued(a) \subseteq Queued(a)' \cup Pdu(a)
      BY <3>1 DEF Queued
    <3> QED BY <3>2, <3>3
  <2> QED BY <2>1, <2>2
<1>5. ASSUME NEW b \in As, StationStep(b), ~ DlsFrag(b), ~ DataTick(b)
      PROVE  rl_data_q' = rl_data_q
  BY <1>5 DEF StationStep, Lineup, Acquire, SetRlParam, RecvAck, asvars
<1>6. ASSUME NEW b \in As, EntityStep(b) PROVE rl_data_q' = rl_data_q
  BY <1>6 DEF EntityStep, DlsReassy, AckCycle, AckFresh, asvars
<1>7. ASSUME LmeTick \/ CloseCc \/ CcFrame \/ RlDataUpload PROVE rl_data_q' = rl_data_q
  BY <1>7 DEF LmeTick, CloseCc, CcFrame, RlDataUpload, asvars
<1> QED BY <1>2, <1>3, <1>4, <1>5, <1>6, <1>7 DEF Next

\* From the slots to the entity.
LEMMA InSlotsGoes ==
  ASSUME Types, InStep, Sorted, Next, NEW a \in As
  PROVE  InSlots(a) \subseteq InSlots(a)' \cup Arrived(a)'
<1>1. ASSUME NEW p \in InSlots(a)
      PROVE  \E i \in Slot : slots[i].as = a /\ p \in slots[i].sdus
  BY DEF InSlots
<1>2. ASSUME \A i \in Slot : slots[i].as = a => slots'[i] = slots[i]
      PROVE  InSlots(a) \subseteq InSlots(a)'
  <2>1. ASSUME NEW p \in InSlots(a) PROVE p \in InSlots(a)'
    <3>1. PICK i \in Slot : slots[i].as = a /\ p \in slots[i].sdus
      BY <1>1
    <3>2. slots'[i].as = a /\ p \in slots'[i].sdus
      BY <1>2, <3>1
    <3>3. p \in UNION {slots'[j].sdus : j \in {k \in Slot : slots'[k].as = a}}
      BY <3>2
    <3> QED BY <3>3, Zenon DEF InSlots
  <2> QED BY <2>1
<1>3. ASSUME RlDataUpload PROVE InSlots(a) \subseteq Arrived(a)'
  <2>1. ASSUME NEW p \in InSlots(a) PROVE p \in Arrived(a)'
    <3>1. PICK i \in Slot : slots[i].as = a /\ p \in slots[i].sdus
      BY <1>1
    <3>2. rpso_queue # <<>>
      BY <3>1, SlotEmptyIs DEF Sorted
    <3> DEFINE d == [as |-> a, pid |-> p]
    <3>3. d \in Found(Head(rpso_queue), a)
      BY <3>1, <3>2, FoundIn
    <3>4. reassy_queue'[a] = reassy_queue[a] \cup Found(Head(rpso_queue), a)
      BY <1>3, <3>2 DEF RlDataUpload
    <3>5. d.pid = p
      OBVIOUS
    <3> HIDE DEF d
    <3>6. d \in reassy_queue'[a]
      BY <3>3, <3>4
    <3> QED BY <3>5, <3>6 DEF Arrived
  <2> QED BY <2>1
<1>4. ASSUME NEW b \in As, DataTick(b) PROVE InSlots(a) \subseteq InSlots(a)'
  <2>1. ASSUME NEW i \in Slot, slots[i].as = a PROVE slots'[i] = slots[i]
    <3>1. slots' = Filled(b, Pdu(b))
      BY <1>4, TickIs
    <3>2. a \in ticked /\ b \notin ticked
      BY <1>4, <2>1, SlotEmptyIs DEF Sorted, DataTick
    <3>3. i \notin Occupied(b, Pdu(b))
      <4>1. SUFFICES ASSUME i \in Occupied(b, Pdu(b)) PROVE FALSE
        OBVIOUS
      <4> DEFINE r == Head(rpso_queue)
      <4>2. /\ RPSO[b] <= i /\ i < RPSO[b] + NRPS[b] /\ NRPS[b] > 0
            /\ rpso_queue # <<>> /\ Grants(r, b, RPSO[b], NRPS[b])
        BY <4>1, OccupiedIs
      <4>3. PICK k \in Slot : Within(r, i, k) /\ FilledBy(slots, r, k, a)
        BY <2>1, SlotEmptyIs DEF Sorted
      <4>4. WellFormed(r) /\ r \in Rec
        BY <4>2 DEF InStep, Records, Types, GsTypes
      <4> HIDE DEF r
      <4>5. /\ RPSO[b] \in Slot /\ r.rpsos[RPSO[b]].as = b
            /\ r.rpsos[RPSO[b]].n = NRPS[b]
        BY <4>2 DEF Grants
      <4>6. r.rpsos[k].as = a /\ r.rpsos[k].n > 0
        BY <4>3 DEF FilledBy
      <4>7. k <= i /\ i < k + r.rpsos[k].n
        BY <4>3 DEF Within
      <4>8. RPSO[b] # k
        BY <3>2, <4>5, <4>6
      <4>9. /\ RPSO[b] < k => RPSO[b] + NRPS[b] <= k
            /\ k < RPSO[b] => k + r.rpsos[k].n <= RPSO[b]
        BY <4>2, <4>4, <4>5, <4>6 DEF WellFormed
      <4>10. /\ RPSO[b] \in Nat /\ NRPS[b] \in Nat /\ k \in Nat /\ i \in Nat
             /\ r.rpsos[k].n \in Nat
        BY <4>4, Params DEF Types, AsTypes, Slot, Rec
      <4> QED BY <4>2, <4>7, <4>8, <4>9, <4>10
    <3> QED BY <3>1, <3>3, FilledIs
  <2> QED BY <1>2, <2>1
<1>5. ASSUME UNCHANGED slots PROVE InSlots(a) \subseteq InSlots(a)'
  BY <1>2, <1>5
<1> QED BY <1>3, <1>4, <1>5, SlotsStay

\* From the queue of the entity into its bitset.
LEMMA ArrivedGoes ==
  ASSUME Types, InStep, Sorted, Next, NEW a \in As
  PROVE  Arrived(a) \subseteq Arrived(a)' \cup ack_bitset'[a]
<1>1. ASSUME reassy_queue[a] \subseteq reassy_queue'[a]
      PROVE  Arrived(a) \subseteq Arrived(a)'
  BY <1>1 DEF Arrived
<1>2. ASSUME NEW b \in As, DlsReassy(b)
      PROVE  Arrived(a) \subseteq Arrived(a)' \cup ack_bitset'[a]
  <2>1. PICK d \in reassy_queue[b] :
          /\ reassy_queue' = [reassy_queue EXCEPT ![b] = @ \ {d}]
          /\ ack_bitset' = [ack_bitset EXCEPT ![b] = @ \cup {d.pid}]
    BY <1>2 DEF DlsReassy
  <2>2. ASSUME NEW e \in reassy_queue[a]
        PROVE  e \in reassy_queue'[a] \/ e.pid \in ack_bitset'[a]
    BY <2>1 DEF Types, EnTypes
  <2> QED BY <2>2 DEF Arrived
<1>3. ASSUME RlDataUpload PROVE reassy_queue[a] \subseteq reassy_queue'[a]
  BY <1>3 DEF RlDataUpload
<1>4. ASSUME NEW b \in As, AckCycle(b) \/ AckFresh(b)
      PROVE  reassy_queue' = reassy_queue
  BY <1>4 DEF AckCycle, AckFresh
<1>5. ASSUME NEW b \in As, StationStep(b) PROVE reassy_queue' = reassy_queue
  BY <1>5 DEF StationStep, Lineup, Acquire, SetRlParam, DlsFrag, DataTick,
              RecvAck, envars
<1>6. ASSUME LmeTick \/ CloseCc \/ CcFrame PROVE reassy_queue' = reassy_queue
  BY <1>6 DEF LmeTick, CloseCc, CcFrame, envars
<1> QED BY <1>1, <1>2, <1>3, <1>4, <1>5, <1>6 DEF Next, EntityStep

\* From the bitset into an acknowledgement.
LEMMA BitsetGoes ==
  ASSUME Types, Phases, InStep, Told, Next, NEW a \in As
  PROVE  ack_bitset[a] \subseteq
           ack_bitset'[a] \cup acked'[a] \cup lost'[a] \cup Acks(a)'
<1>1. ASSUME NEW b \in As, AckFresh(b)
      PROVE  ack_bitset[a] \subseteq
               ack_bitset'[a] \cup acked'[a] \cup lost'[a] \cup Acks(a)'
  <2>1. CASE a # b
    BY <1>1, <2>1 DEF AckFresh, Types, EnTypes
  <2>2. CASE a = b
    <3>1. ack_bitset[a] \ told[a] \subseteq lost'[a]
      BY <1>1, <2>2 DEF AckFresh, Types, LossTypes
    <3>2. told[a] \subseteq acked[a] \cup lost[a] \cup Acks(a)
      BY DEF Told
    <3> QED BY <3>1, <3>2, AckedGrows, AcksAbove
  <2> QED BY <2>1, <2>2
<1>2. ASSUME NEW b \in As, DlsReassy(b) PROVE ack_bitset[a] \subseteq ack_bitset'[a]
  BY <1>2 DEF DlsReassy, Types, EnTypes
<1>3. ASSUME NEW b \in As, AckCycle(b) \/ StationStep(b)
      PROVE  ack_bitset' = ack_bitset
  BY <1>3 DEF AckCycle, StationStep, Lineup, Acquire, SetRlParam, DlsFrag,
              DataTick, RecvAck, envars
<1>4. ASSUME LmeTick \/ CloseCc \/ CcFrame \/ RlDataUpload PROVE ack_bitset' = ack_bitset
  BY <1>4 DEF LmeTick, CloseCc, CcFrame, RlDataUpload, envars
<1> QED BY <1>1, <1>2, <1>3, <1>4 DEF Next, EntityStep

LEMMA NothingVanishesStep ==
  ASSUME Types, Window, Phases, InStep, Sorted, Told, NothingVanishes, late = 0,
         Next
  PROVE  NothingVanishes'
<1>1. ASSUME NEW a \in As
      PROVE  1 .. sent'[a] \subseteq acked'[a] \cup lost'[a] \cup UnderWay(a)'
  <2>1. 1 .. sent[a] \subseteq acked[a] \cup lost[a] \cup UnderWay(a)
    BY DEF NothingVanishes
  <2>2. 1 .. sent'[a] \subseteq 1 .. sent[a] \cup Queued(a)'
    BY SentQueued
  <2>3. Queued(a) \subseteq Queued(a)' \cup InSlots(a)' \cup lost'[a]
    BY QueuedGoes
  <2>4. InSlots(a) \subseteq InSlots(a)' \cup Arrived(a)'
    BY InSlotsGoes
  <2>5. Arrived(a) \subseteq Arrived(a)' \cup ack_bitset'[a]
    BY ArrivedGoes
  <2>6. ack_bitset[a] \subseteq
          ack_bitset'[a] \cup acked'[a] \cup lost'[a] \cup Acks(a)'
    BY BitsetGoes
  <2>7. Acks(a) \subseteq Acks(a)' \cup acked'[a] \cup lost'[a]
    BY AcksAbove
  <2>8. acked[a] \subseteq acked'[a] /\ lost[a] \subseteq lost'[a]
    BY AckedGrows
  <2>9. UnderWay(a) \subseteq UnderWay(a)' \cup acked'[a] \cup lost'[a]
    BY <2>3, <2>4, <2>5, <2>6, <2>7, UnderWayIs
  <2>10. Queued(a)' \subseteq UnderWay(a)'
    BY UnderWayIs
  <2> QED BY <2>1, <2>2, <2>8, <2>9, <2>10
<1> QED BY <1>1 DEF NothingVanishes

-----------------------------------------------------------------------------
(* Whatever waits in a window has been asked for.                             *)

LEMMA GrantsOfIs ==
  ASSUME Types, InStep, NEW a \in As
  PROVE  /\ GrantsIn(assembling, a) \in Nat /\ GrantsIn(Closed, a) \in Nat
         /\ GrantsIn(cc_pq[a], a) \in Nat /\ frag[a] \in Nat
         /\ frag[a] * Per \in Nat
<1>1. /\ assembling \in SUBSET Msg /\ Closed \in SUBSET Msg
      /\ cc_pq[a] \in SUBSET Msg /\ frag[a] \in Nat
  BY FrameType DEF Types, GsTypes, AsTypes
<1>2. /\ Backed(assembling, delayed) /\ Backed(cc_pq[a], rpso_queue)
      /\ Backed(Closed, IF phase = "begin" THEN delayed ELSE rpso_queue)
  BY DEF InStep, GsInStep, AsInStep
<1>3. frag[a] * Per \in Nat
  BY <1>1, Params
<1> QED BY <1>1, <1>2, <1>3, GrantsBacked

\* The messages of resource_rl_alloc_cb grant what finds room.
LEMMA GrantsInAllocs ==
  ASSUME NEW g \in [As -> Nat], NEW a \in As
  PROVE  GrantsIn(RlAllocs(g), a) = IF a \in Granted(g) THEN g[a] ELSE 0
<1>1. CASE a \in Granted(g)
  <2> DEFINE m == [typ |-> "RL_ALLOC", as |-> a, rpso |-> Start(g, a),
                   nrps |-> Blocks(g[a]), sz |-> g[a], tick |-> armed]
  <2>1. m.sz = g[a] /\ m.sz \in Nat
    OBVIOUS
  <2>2. RlAllocsTo(RlAllocs(g), a) = {m}
    BY <1>1 DEF RlAllocsTo, RlAllocs
  <2> HIDE DEF m
  <2> QED BY <1>1, <2>1, <2>2, GrantsOne
<1>2. CASE a \notin Granted(g)
  <2>1. RlAllocsTo(RlAllocs(g), a) = {}
    BY <1>2 DEF RlAllocsTo, RlAllocs
  <2> QED BY <1>2, <2>1, GrantsNone
<1> QED BY <1>1, <1>2

LEMMA MissedStep ==
  ASSUME Types, Phases, InStep, MissedType, Next
  PROVE  MissedType'
<1>1. ASSUME LmeTick PROVE MissedType'
  <2>1. PICK g \in Shares :
          missed' = [a \in As |->
            missed[a] + (IF a \in Granted(g) THEN 0 ELSE g[a])]
    BY <1>1 DEF LmeTick
  <2>2. g \in [As -> Nat]
    BY SharesType
  <2> QED BY <2>1, <2>2 DEF MissedType
<1>2. ASSUME CcFrame PROVE MissedType'
  <2>1. PICK deaf \in SUBSET Deaf :
          missed' = [a \in As |-> IF a \in deaf
            THEN missed[a] + GrantsIn(Frame, a) ELSE missed[a]]
    BY <1>2 DEF CcFrame
  <2>2. \A a \in As : GrantsIn(Frame, a) \in Nat
    BY GrantsOfIs, ClosedIs
  <2> QED BY <2>1, <2>2 DEF MissedType
<1>3. ASSUME NEW a \in As, Acquire(a) PROVE MissedType'
  BY <1>3 DEF Acquire, MissedType, Types, WinTypes
<1>4. ASSUME NEW a \in As, StationStep(a), ~ Acquire(a) PROVE missed' = missed
  BY <1>4 DEF StationStep, Lineup, SetRlParam, DlsFrag, DataTick, RecvAck
<1>5. ASSUME NEW a \in As, EntityStep(a) PROVE missed' = missed
  BY <1>5 DEF EntityStep, DlsReassy, AckCycle, AckFresh
<1>6. ASSUME CloseCc \/ RlDataUpload PROVE missed' = missed
  BY <1>6 DEF CloseCc, RlDataUpload
<1> QED BY <1>1, <1>2, <1>3, <1>4, <1>5, <1>6 DEF Next, MissedType

LEMMA CoveredStep ==
  ASSUME Types, Window, Phases, InStep, MissedType, Covered, late' = 0, Next
  PROVE  Covered'
<1> DEFINE W(a) == lined[a] - sent[a]
           C(a) == W(a) <= cos_req_res[a] + rl_drr[a] + GrantsOf(a) + missed[a]
<1>1. ASSUME NEW a \in As
      PROVE  /\ lined[a] \in Nat /\ sent[a] \in Nat /\ sent[a] <= lined[a]
             /\ cos_req_res[a] \in Nat /\ rl_drr[a] \in Nat /\ missed[a] \in Nat
  BY DEF Types, WinTypes, GsTypes, MissedType, Window
<1>2. ASSUME NEW a \in As
      PROVE  /\ GrantsOf(a) = GrantsIn(assembling, a) + GrantsIn(Closed, a)
                               + GrantsIn(cc_pq[a], a) + frag[a] * Per
             /\ GrantsOf(a) \in Nat
  BY GrantsOfIs DEF GrantsOf
<1>3. ASSUME NEW a \in As PROVE C(a)
  <2>1. sent[a] < lined[a] => C(a)
    BY LateStays DEF Covered
  <2> QED BY <1>1, <1>2, <2>1
<1>4. ASSUME NEW a \in As,
             GrantsIn(assembling', a) = GrantsIn(assembling, a),
             GrantsIn(Closed', a) = GrantsIn(Closed, a),
             GrantsIn(cc_pq'[a], a) = GrantsIn(cc_pq[a], a),
             frag'[a] = frag[a]
      PROVE  GrantsOf(a)' = GrantsOf(a)
  BY <1>4 DEF GrantsOf
<1>5. ASSUME NEW a \in As, UNCHANGED <<lined[a], sent[a], cos_req_res[a],
                                       rl_drr[a], missed[a]>>,
             GrantsOf(a)' = GrantsOf(a)
      PROVE  C(a)'
  BY <1>3, <1>5
<1>6. ASSUME NEW b \in As, Lineup(b), NEW a \in As PROVE C(a)'
  <2>1. GrantsOf(a)' = GrantsOf(a)
    BY <1>4, <1>6, ClosedSame DEF Lineup, gsvars, asvars
  <2>2. rl_drr' = rl_drr /\ missed' = missed /\ sent' = sent
    BY <1>6 DEF Lineup, gsvars
  <2>3. \/ lined'[a] = lined[a] /\ cos_req_res'[a] = cos_req_res[a]
        \/ lined'[a] = lined[a] + 1 /\ cos_req_res'[a] = cos_req_res[a] + 1
    BY <1>6 DEF Lineup, Types, WinTypes
  <2> QED BY <1>1, <1>2, <1>3, <2>1, <2>2, <2>3
<1>7. ASSUME NEW b \in As, Acquire(b), NEW a \in As PROVE C(a)'
  <2>1. GrantsOf(a)' = GrantsOf(a)
    BY <1>4, <1>7, ClosedSame DEF Acquire, asvars
  <2>2. lined' = lined /\ sent' = sent
    BY <1>7 DEF Acquire
  <2>3. \/ /\ cos_req_res'[a] = cos_req_res[a] /\ rl_drr'[a] = rl_drr[a]
           /\ missed'[a] = missed[a]
        \/ /\ cos_req_res'[a] = 0 /\ missed'[a] = missed[a]
           /\ rl_drr'[a] = rl_drr[a] + cos_req_res[a]
        \/ /\ cos_req_res'[a] = 0 /\ rl_drr'[a] = rl_drr[a]
           /\ missed'[a] = missed[a] + cos_req_res[a]
    BY <1>7 DEF Acquire, Requested, Types, WinTypes, GsTypes, MissedType
  <2> QED BY <1>1, <1>2, <1>3, <2>1, <2>2, <2>3
<1>8. ASSUME LmeTick, NEW a \in As PROVE C(a)'
  <2>1. PICK g \in Shares :
          /\ rl_drr' = [b \in As |-> rl_drr[b] - g[b]]
          /\ assembling' = assembling \cup RlAllocs(g)
          /\ missed' = [b \in As |->
               missed[b] + (IF b \in Granted(g) THEN 0 ELSE g[b])]
    BY <1>8 DEF LmeTick
  <2>2. g \in [As -> Nat] /\ g[a] \in Nat
    BY SharesType
  <2>3. UNCHANGED <<lined, sent, cos_req_res, cc_pq, frag, Closed>>
    BY <1>8, ClosedSame DEF LmeTick, winvars, asvars
  <2>4. /\ RlAllocsTo(assembling, a) = {}
        /\ RlAllocsTo(assembling', a) = RlAllocsTo(RlAllocs(g), a)
    BY <1>8, <2>1, LateStays DEF Phases, RlAllocsTo
  <2>11. /\ GrantsIn(assembling, a) = 0
         /\ GrantsIn(assembling', a) = GrantsIn(RlAllocs(g), a)
    BY <2>4, GrantsNone, GrantsSame
  <2>5. GrantsOf(a)' = GrantsIn(RlAllocs(g), a) + GrantsIn(Closed, a)
                        + GrantsIn(cc_pq[a], a) + frag[a] * Per
    BY <2>3, <2>11 DEF GrantsOf
  <2>6. /\ rl_drr'[a] = rl_drr[a] - g[a]
        /\ missed'[a] = missed[a] + (IF a \in Granted(g) THEN 0 ELSE g[a])
    BY <2>1
  <2>7. GrantsIn(RlAllocs(g), a) = IF a \in Granted(g) THEN g[a] ELSE 0
    BY <2>2, GrantsInAllocs
  <2>8. GrantsOf(a)' + missed'[a] = GrantsOf(a) + missed[a] + g[a]
    <3> DEFINE x == GrantsIn(Closed, a)
               y == GrantsIn(cc_pq[a], a)
               z == frag[a] * Per
    <3>1. x \in Nat /\ y \in Nat /\ z \in Nat
      BY GrantsOfIs
    <3>2. /\ GrantsOf(a) = 0 + x + y + z
          /\ GrantsOf(a)' = GrantsIn(RlAllocs(g), a) + x + y + z
      BY <1>2, <2>5, <2>11
    <3> HIDE DEF x, y, z
    <3> QED BY <1>1, <2>2, <2>6, <2>7, <3>1, <3>2
  <2>9. GrantsOf(a)' \in Nat /\ missed'[a] \in Nat
    <3>1. GrantsIn(RlAllocs(g), a) \in Nat
      BY <2>2, <2>7
    <3> QED BY <1>1, <2>2, <2>5, <2>6, <3>1, GrantsOfIs
  <2>10. W(a)' = W(a) /\ cos_req_res'[a] = cos_req_res[a]
    BY <2>3
  <2> QED BY <1>1, <1>2, <1>3, <2>2, <2>6, <2>8, <2>9, <2>10
<1>9. ASSUME CcFrame, NEW a \in As PROVE C(a)'
  <2>1. PICK deaf \in SUBSET Deaf :
        /\ cc_pq' = [b \in As |-> IF b \in deaf THEN {}
             ELSE {m \in Closed : m.as = b}]
        /\ missed' = [b \in As |-> IF b \in deaf
             THEN missed[b] + GrantsIn(Closed, b) ELSE missed[b]]
    BY <1>9, ClosedIs DEF CcFrame
  <2>2. UNCHANGED <<lined, sent, cos_req_res, rl_drr, frag, assembling>>
    BY <1>9 DEF CcFrame, winvars
  <2>3. cc_pq[a] = {} /\ Closed' = {}
    BY <1>9, ClosedStep DEF CcFrame
  <2>4. GrantsIn(cc_pq[a], a) = 0 /\ GrantsIn(Closed', a) = 0
    BY <2>3, GrantsNone DEF RlAllocsTo
  <2>5. GrantsIn(cc_pq'[a], a) = IF a \in deaf THEN 0 ELSE GrantsIn(Closed, a)
    <3>1. CASE a \in deaf
      BY <2>1, <3>1, GrantsNone DEF RlAllocsTo
    <3>2. CASE a \notin deaf
      <4>1. cc_pq'[a] = {m \in Closed : m.as = a}
        BY <2>1, <3>2
      <4>2. RlAllocsTo(cc_pq'[a], a) = RlAllocsTo(Closed, a)
        BY <4>1 DEF RlAllocsTo
      <4> QED BY <3>2, <4>2, GrantsSame
    <3> QED BY <3>1, <3>2
  <2>6. missed'[a] = IF a \in deaf THEN missed[a] + GrantsIn(Closed, a)
                     ELSE missed[a]
    BY <2>1
  <2>7. GrantsOf(a)' + missed'[a] = GrantsOf(a) + missed[a]
    <3> DEFINE x == GrantsIn(assembling, a)
               y == GrantsIn(Closed, a)
               z == frag[a] * Per
    <3>1. x \in Nat /\ y \in Nat /\ z \in Nat
      BY GrantsOfIs
    <3>2. /\ GrantsOf(a) = x + y + 0 + z
          /\ GrantsOf(a)' = x + 0 + GrantsIn(cc_pq'[a], a) + z
      BY <1>2, <2>2, <2>4 DEF GrantsOf
    <3> HIDE DEF x, z
    <3> QED BY <1>1, <2>5, <2>6, <3>1, <3>2
  <2>8. GrantsOf(a)' \in Nat /\ missed'[a] \in Nat
    <3>1. GrantsIn(cc_pq'[a], a) \in Nat
      BY <2>5, GrantsOfIs
    <3>2. GrantsOf(a)' = GrantsIn(assembling, a) + 0 + GrantsIn(cc_pq'[a], a)
                          + frag[a] * Per
      BY <2>2, <2>4 DEF GrantsOf
    <3> QED BY <1>1, <2>6, <3>1, <3>2, GrantsOfIs
  <2> QED BY <1>1, <1>2, <1>3, <2>2, <2>7, <2>8
<1>10. ASSUME NEW b \in As, SetRlParam(b), NEW a \in As PROVE C(a)'
  <2>1. PICK m \in cc_pq[b] :
        /\ m.typ = "RL_ALLOC"
        /\ cc_pq' = [cc_pq EXCEPT ![b] = @ \ {m}]
        /\ frag' = [frag EXCEPT ![b] = m.nrps]
    BY <1>10 DEF SetRlParam
  <2>2. UNCHANGED <<lined, sent, cos_req_res, rl_drr, missed, assembling,
                    Closed>>
    BY <1>10, ClosedSame DEF SetRlParam, gsvars, winvars
  <2>3. CASE a # b
    <3>1. cc_pq'[a] = cc_pq[a] /\ frag'[a] = frag[a]
      BY <2>1, <2>3 DEF Types, AsTypes
    <3> QED BY <1>4, <1>5, <2>2, <3>1
  <2>4. CASE a = b
    <3>1. /\ cc_pq'[a] = cc_pq[a] \ {m} /\ frag'[a] = m.nrps /\ frag[a] = 0
      BY <1>10, <2>1, <2>4 DEF SetRlParam, Types, AsTypes
    <3>2. /\ m \in cc_pq[a] /\ m.as = a /\ cc_pq[a] \in SUBSET Msg
          /\ Backed(cc_pq[a], rpso_queue)
      BY <2>1, <2>4 DEF InStep, AsInStep, Types, AsTypes
    <3>3. RlAllocsTo(cc_pq[a], a) = {m} /\ GrantsIn(cc_pq[a], a) = m.sz
      BY <2>1, <3>2, GrantsBacked
    <3>4. RlAllocsTo(cc_pq'[a], a) = {}
      BY <3>1, <3>3 DEF RlAllocsTo
    <3>5. GrantsIn(cc_pq'[a], a) = 0
      BY <3>4, GrantsNone
    <3>6. m.sz <= m.nrps * Per
      BY <2>1, <3>2 DEF Backed
    <3>7. m.sz \in Nat /\ m.nrps \in Nat
      BY <2>1, <3>2 DEF Msg, RlMsg, AckMsg
    <3> DEFINE x == GrantsIn(assembling, a)
               y == GrantsIn(Closed, a)
               z == m.nrps * Per
    <3>8. x \in Nat /\ y \in Nat /\ z \in Nat /\ 0 * Per = 0
      BY <3>7, Params, GrantsOfIs
    <3>9. /\ GrantsOf(a) = x + y + m.sz + 0 * Per
          /\ GrantsOf(a)' = x + y + 0 + z
      BY <1>2, <2>2, <3>1, <3>3, <3>5 DEF GrantsOf
    <3>10. m.sz <= z
      BY <3>6
    <3> HIDE DEF x, y, z
    <3> QED BY <1>1, <1>3, <2>2, <3>7, <3>8, <3>9, <3>10
  <2> QED BY <2>3, <2>4
<1>11. ASSUME NEW b \in As, DlsFrag(b), NEW a \in As PROVE C(a)'
  <2>1. UNCHANGED <<lined, cos_req_res, rl_drr, missed, assembling, Closed,
                    cc_pq>>
    BY <1>11, ClosedSame DEF DlsFrag, gsvars
  <2>2. CASE a # b
    <3>1. sent'[a] = sent[a] /\ frag'[a] = frag[a]
      BY <1>11, <2>2 DEF DlsFrag, Types, WinTypes, AsTypes
    <3> QED BY <1>4, <1>5, <2>1, <3>1
  <2>3. CASE a = b
    <3> DEFINE n == Cardinality(Cut(a))
               z == frag[a] * Per
               x == GrantsIn(assembling, a) + GrantsIn(Closed, a)
                     + GrantsIn(cc_pq[a], a)
    <3>1. /\ n \in Nat /\ sent[a] + n <= lined[a]
          /\ sent[a] + n = lined[a] \/ n = z
      BY <1>11, <2>3, CutIs DEF DlsFrag
    <3>2. sent'[a] = sent[a] + n /\ frag'[a] = 0
      BY <1>11, <2>3 DEF DlsFrag, Types, WinTypes, AsTypes
    <3>3. x \in Nat /\ z \in Nat /\ 0 * Per = 0
      BY GrantsOfIs, Params
    <3>4. GrantsOf(a) = x + z /\ GrantsOf(a)' = x + 0 * Per
      BY <1>2, <2>1, <3>2 DEF GrantsOf
    <3> HIDE DEF n, x, z
    <3> QED BY <1>1, <1>3, <2>1, <3>1, <3>2, <3>3, <3>4
  <2> QED BY <2>2, <2>3
<1>12. ASSUME NEW b \in As, RecvAck(b), NEW a \in As PROVE C(a)'
  <2>1. UNCHANGED <<lined, sent, cos_req_res, rl_drr, missed, assembling,
                    Closed, frag>>
    BY <1>12, ClosedSame DEF RecvAck, gsvars
  <2>2. PICK m \in cc_pq[b] :
          m.typ = "ACK" /\ cc_pq' = [cc_pq EXCEPT ![b] = @ \ {m}]
    BY <1>12 DEF RecvAck
  <2>3. RlAllocsTo(cc_pq'[a], a) = RlAllocsTo(cc_pq[a], a)
    BY <2>2 DEF RlAllocsTo, Types, AsTypes
  <2> QED BY <1>4, <1>5, <2>1, <2>3, GrantsSame
<1>13. ASSUME NEW b \in As, AckCycle(b), NEW a \in As PROVE C(a)'
  <2>1. UNCHANGED <<lined, sent, cos_req_res, rl_drr, missed, Closed, cc_pq,
                    frag>>
    BY <1>13, ClosedSame DEF AckCycle, winvars, asvars
  <2> DEFINE n == [typ |-> "ACK", as |-> b, bitmap |-> Bitmap(ack_bitset[b])]
  <2>2. n.typ = "ACK" /\ (assembling' = assembling \/ assembling' = assembling \cup {n})
    BY <1>13 DEF AckCycle
  <2> HIDE DEF n
  <2>3. RlAllocsTo(assembling', a) = RlAllocsTo(assembling, a)
    BY <2>2 DEF RlAllocsTo
  <2> QED BY <1>4, <1>5, <2>1, <2>3, GrantsSame
<1>14. ASSUME UNCHANGED <<lined, sent, cos_req_res, rl_drr, missed, assembling,
                          Closed, cc_pq, frag>>, NEW a \in As
       PROVE  C(a)'
  BY <1>4, <1>5, <1>14
<1>15. ASSUME NEW b \in As, DataTick(b) \/ DlsReassy(b) \/ AckFresh(b)
       PROVE  UNCHANGED <<lined, sent, cos_req_res, rl_drr, missed, assembling,
                          Closed, cc_pq, frag>>
  BY <1>15, ClosedSame DEF DataTick, DlsReassy, AckFresh, gsvars, winvars, asvars
<1>16. ASSUME RlDataUpload
       PROVE  UNCHANGED <<lined, sent, cos_req_res, rl_drr, missed, assembling,
                          Closed, cc_pq, frag>>
  BY <1>16, ClosedSame DEF RlDataUpload, winvars, asvars
<1>18. ASSUME CloseCc, NEW a \in As PROVE C(a)'
  <2>1. Closed = {} /\ Closed' = assembling /\ assembling' = {}
    BY <1>18, ClosedStep
  <2>2. UNCHANGED <<lined, sent, cos_req_res, rl_drr, missed, cc_pq, frag>>
    BY <1>18 DEF CloseCc, winvars, asvars
  <2>3. GrantsIn({}, a) = 0
    BY GrantsNone DEF RlAllocsTo
  <2> DEFINE x == GrantsIn(assembling, a)
             y == GrantsIn(cc_pq[a], a)
             z == frag[a] * Per
  <2>4. x \in Nat /\ y \in Nat /\ z \in Nat
    BY GrantsOfIs
  <2>5. GrantsOf(a) = x + 0 + y + z /\ GrantsOf(a)' = 0 + x + y + z
    BY <1>2, <2>1, <2>2, <2>3 DEF GrantsOf
  <2> HIDE DEF x, y, z
  <2>6. GrantsOf(a)' = GrantsOf(a)
    BY <2>4, <2>5
  <2> QED BY <1>5, <2>2, <2>6
<1>17. ASSUME NEW a \in As PROVE C(a)'
  BY <1>18, <1>6, <1>7, <1>8, <1>9, <1>10, <1>11, <1>12, <1>13, <1>14, <1>15, <1>16
     DEF Next, StationStep, EntityStep
<1> QED BY <1>17 DEF Covered

-----------------------------------------------------------------------------
(* The invariant.                                                             *)

LEMMA InitInv ==
  ASSUME Init
  PROVE  Inv
<1>1. Types
  <2>1. MaxLate \in Nat
    BY RlAssumption
  <2> QED BY <2>1, AsFinite
          DEF Init, Types, GsTypes, EnTypes, WinTypes, AsTypes, SlotTypes,
              LossTypes, Empty, NoAs
<1>2. ASSUME NEW a \in As
      PROVE  /\ InWindow(a) = {} /\ Acks(a) = {} /\ GrantsOf(a) = 0
  <2>1. /\ assembling = {} /\ assembled = <<>> /\ cc_pq[a] = {} /\ frag[a] = 0
        /\ lined[a] = 0
    BY DEF Init
  <2>2. InWindow(a) = {}
    BY <2>1 DEF InWindow
  <2>6. Closed = {}
    BY <2>1 DEF Closed
  <2>3. Acks(a) = {}
    BY <2>1, <2>6 DEF Acks, AcksIn
  <2>4. GrantsIn({}, a) = 0
    BY GrantsNone DEF RlAllocsTo
  <2>5. GrantsOf(a) = 0
    BY <2>1, <2>4, <2>6, Params DEF GrantsOf
  <2> QED BY <2>2, <2>3, <2>5
<1>3. Window
  <2>1. Cardinality({}) = 0 /\ WinSize \in Nat
    BY FS_EmptySet, Params
  <2>2. ASSUME NEW a \in As
        PROVE  /\ sent[a] = 0 /\ lined[a] = 0 /\ handed[a] = 0
               /\ cos_req_res[a] = 0 /\ rl_drr[a] = 0 /\ Sdus[a] \in Nat
    BY RlAssumption DEF Init
  <2>3. ASSUME NEW a \in As PROVE Cardinality(InWindow(a)) <= WinSize
    BY <1>2, <2>1
  <2> QED BY <2>2, <2>3 DEF Window
<1>4. Phases /\ Sorted /\ Told /\ MissedType
  BY DEF Init, Phases, Sorted, Told, MissedType
<1>10. Records /\ ParamsFit
  BY DEF Init, Records, ParamsFit
<1>11. Closed = {}
  BY DEF Init, Closed
<1>12. GsInStep
  BY <1>11 DEF Init, GsInStep, Backed
<1>13. \A a \in As : AsInStep(a)
  BY DEF Init, AsInStep, Backed
<1>5. InStep
  BY <1>10, <1>12, <1>13 DEF InStep
<1>6. Own
  BY DEF Init, Own
<1>7. Honest
  BY <1>2 DEF Init, Honest, Has, Sdu
<1>8. NothingVanishes
  BY DEF Init, NothingVanishes
<1>9. Covered
  BY <1>2 DEF Init, Covered
<1> QED BY <1>1, <1>3, <1>4, <1>5, <1>6, <1>7, <1>8, <1>9, <1>10
        DEF Inv, Bounds, OnTime

\* A step that changes nothing.
LEMMA StutterInv ==
  ASSUME Inv, UNCHANGED vars
  PROVE  Inv'
<1>1. UNCHANGED <<phase, armed, late, assembling, assembled, delayed, rpso_queue,
                  rl_drr, slots, reassy_queue, iwindow, ack_bitset, acking, told,
                  lined, handed, sent, acked, cos_req_res, cc_pq, RPSO, NRPS,
                  frag, rl_data_q, ticked, missed, lost>>
  BY DEF vars, gsvars, envars, winvars, asvars
<1>2. Closed' = Closed
  BY <1>1, ClosedSame
<1>3. Bounds'
  <2>1. Types'
    BY <1>1 DEF Inv, Bounds, Types, GsTypes, EnTypes, WinTypes, AsTypes,
                SlotTypes, LossTypes
  <2>2. Window' /\ ParamsFit' /\ Records'
    BY <1>1 DEF Inv, Bounds, Window, InWindow, ParamsFit, Records, WellFormed
  <2> QED BY <2>1, <2>2 DEF Bounds
<1>4. ASSUME late' = 0 PROVE OnTime'
  <2>1. OnTime
    BY <1>1, <1>4 DEF Inv
  <2>2. Phases' /\ Sorted' /\ MissedType'
    BY <1>1, <2>1 DEF OnTime, Phases, Sorted, MissedType
  <2>3. InStep'
    BY <1>1, <1>2, <2>1
       DEF OnTime, InStep, GsInStep, AsInStep, Records, WellFormed
  <2>4. Own' /\ Honest' /\ Told'
    BY <1>1, <1>2, <2>1 DEF OnTime, Own, Honest, Has, Told, Acks
  <2> QED BY <2>2, <2>3, <2>4 DEF OnTime
<1>5. NothingVanishes'
  BY <1>1, <1>2 DEF Inv, NothingVanishes, UnderWay
<1>6. Covered'
  BY <1>1, <1>2 DEF Inv, Covered, GrantsOf
<1> QED BY <1>3, <1>4, <1>5, <1>6 DEF Inv

LEMMA NextInv ==
  ASSUME Inv, Next
  PROVE  Inv'
<1>1. /\ Types /\ ParamsFit /\ Window /\ Records
      /\ late = 0 => OnTime
      /\ NothingVanishes /\ Covered
  BY DEF Inv, Bounds
<1>2. Types'
  BY <1>1, TypesStep
<1>3. Bounds'
  BY <1>1, <1>2, ParamsFitStep, WindowStep, RecordsStep DEF Bounds
<1>4. ASSUME late' = 0 PROVE OnTime' /\ NothingVanishes' /\ Covered'
  <2>1. late = 0
    BY <1>1, <1>4, LateStays
  <2>2. /\ Phases /\ InStep /\ Sorted /\ Own /\ Honest /\ Told /\ MissedType
    BY <1>1, <2>1 DEF OnTime
  <2>3. Phases' /\ InStep'
    BY <1>1, <1>4, <2>2, PhasesStep, InStepStep
  <2>4. Sorted'
    BY <1>1, <1>2, <2>2, SortedStep
  <2>5. Own' /\ Honest' /\ Told'
    BY <1>1, <2>2, OwnStep, HonestStep, ToldStep
  <2>6. MissedType'
    BY <1>1, <2>2, MissedStep
  <2>7. NothingVanishes'
    BY <1>1, <2>1, <2>2, NothingVanishesStep
  <2>8. Covered'
    BY <1>1, <1>4, <2>2, CoveredStep
  <2> QED BY <2>3, <2>4, <2>5, <2>6, <2>7, <2>8 DEF OnTime
<1>5. ASSUME late' # 0 PROVE NothingVanishes' /\ Covered'
  BY <1>5 DEF NothingVanishes, Covered
<1> QED BY <1>3, <1>4, <1>5 DEF Inv

\* The invariant that carries all the others.  The bounds of records, windows
\* and messages hold whatever the timers do; that requests, grants, records,
\* slots, entities and acknowledgements keep in step holds until a packet is
\* closed late.
THEOREM Invariance == Spec => []Inv
<1>1. Init => Inv
  BY InitInv
<1>2. Inv /\ [Next]_vars => Inv'
  BY NextInv, StutterInv
<1> QED BY <1>1, <1>2, PTL DEF Spec

\* Records, requests and windows stay within their bounds, and a grant within
\* the slots (resource_rl_alloc_cb, lineup_func, set_rl_param), even when
\* packets are closed late.
THEOREM TypeCorrect == Spec => []RlTypeOK
<1>1. Inv => RlTypeOK
  <2> SUFFICES ASSUME Inv PROVE RlTypeOK
    OBVIOUS
  <2>1. Types /\ ParamsFit /\ Window /\ Records
    BY DEF Inv, Bounds
  <2>2. Sdus \in [As -> Nat]
    BY RlAssumption
  <2>3. ASSUME NEW i \in 1 .. Len(rpso_queue)
        PROVE  rpso_queue[i].start \in COL .. SlotMax
    <3>1. rpso_queue \in Seq(Rec) /\ Len(rpso_queue) <= 1
      BY <2>1 DEF Types, GsTypes, Records
    <3>2. i = 1 /\ rpso_queue # <<>> /\ Head(rpso_queue) = rpso_queue[1]
      BY <3>1
    <3> QED BY <2>1, <3>2 DEF Records, WellFormed
  <2>4. ASSUME NEW a \in As
        PROVE  rl_drr[a] \in 0 .. Sdus[a] /\ cos_req_res[a] \in 0 .. Sdus[a]
    <3>1. /\ rl_drr[a] \in Nat /\ cos_req_res[a] \in Nat /\ lined[a] \in Nat
          /\ handed[a] \in Nat /\ Sdus[a] \in Nat
      BY <2>1, <2>2 DEF Types, GsTypes, WinTypes
    <3>2. /\ cos_req_res[a] + rl_drr[a] <= lined[a] /\ lined[a] <= handed[a]
          /\ handed[a] <= Sdus[a]
      BY <2>1 DEF Window
    <3> QED BY <3>1, <3>2
  <2>5. ASSUME NEW a \in As
        PROVE  /\ RPSO[a] \in {0} \cup COL .. SlotMax - 1
               /\ RPSO[a] + NRPS[a] <= SlotMax
    <3>1. RPSO[a] \in Nat /\ NRPS[a] \in Nat
      BY <2>1 DEF Types, AsTypes
    <3>2. (RPSO[a] = 0 /\ NRPS[a] = 0) \/ Room(RPSO[a], NRPS[a])
      BY <2>1 DEF ParamsFit
    <3> QED BY <3>1, <3>2, Params DEF Room
  <2>6. ASSUME NEW a \in As
        PROVE  /\ sent[a] <= lined[a] /\ lined[a] <= handed[a]
               /\ Cardinality(InWindow(a)) <= WinSize
    BY <2>1 DEF Window
  <2>7. ASSUME late = 0,
               NEW a \in As, NEW p \in acked[a] \cup ack_bitset[a] \cup told[a]
        PROVE  p \in Pids(a)
    <3>6. Own /\ Honest
      BY <2>7 DEF Inv, OnTime
    <3>1. [as |-> a, pid |-> p] \in iwindow[a]
      BY <3>6 DEF Honest, Has, Sdu
    <3>2. [as |-> a, pid |-> p] \in Sdu(a, 1 .. sent[a])
      BY <3>6, <3>1 DEF Own
    <3>3. p \in 1 .. sent[a]
      <4> DEFINE d == [as |-> a, pid |-> p]
      <4>1. d.pid = p
        OBVIOUS
      <4>2. PICK q \in 1 .. sent[a] : d = [as |-> a, pid |-> q]
        BY <3>2 DEF Sdu
      <4>3. d.pid = q
        BY <4>2
      <4> QED BY <4>1, <4>2, <4>3
    <3>4. /\ sent[a] \in Nat /\ lined[a] \in Nat /\ handed[a] \in Nat
          /\ Sdus[a] \in Nat
      BY <2>1, <2>2 DEF Types, WinTypes
    <3>5. sent[a] <= lined[a] /\ lined[a] <= handed[a] /\ handed[a] <= Sdus[a]
      BY <2>1 DEF Window
    <3> QED BY <3>3, <3>4, <3>5 DEF Pids
  <2>8. \A r \in {rpso_queue[i] : i \in 1 .. Len(rpso_queue)} :
          r.start \in COL .. SlotMax
    BY <2>3
  <2>9. /\ phase \in {"begin", "air", "data"}
        /\ armed \in 0 .. 2 /\ late \in 0 .. MaxLate
        /\ Len(rpso_queue) <= 1 /\ Len(delayed) <= 1
    BY <2>1 DEF Types, GsTypes, Records
  <2> QED BY <2>4, <2>5, <2>6, <2>7, <2>8, <2>9 DEF RlTypeOK
<1> QED BY <1>1, Invariance, PTL

\* Until a packet is closed late, the slots are sorted by the record of the
\* grants they were filled by, and the loop over them (P_SAPD_cb) never meets a
\* block that no grant starts.
THEOREM EntityRight == Spec => []RightEntity
<1>1. Inv => RightEntity
  <2> SUFFICES ASSUME Inv, late = 0 PROVE RightEntity
    BY DEF RightEntity
  <2>1. Types /\ InStep /\ Sorted /\ Own
    BY DEF Inv, Bounds, OnTime
  <2>2. ASSUME NEW s \in As, NEW d \in reassy_queue[s] \cup iwindow[s]
        PROVE  d.as = s
    <3>1. d \in Sdu(s, 1 .. sent[s])
      BY <2>1 DEF Own
    <3> QED BY <3>1 DEF Sdu
  <2>3. ASSUME rpso_queue # <<>> PROVE LoopEnds(Head(rpso_queue))
    <3>1. Looked(Head(rpso_queue)) = Starts(Head(rpso_queue))
      BY <2>1, <2>3, SortedByHead, LoopFinds
    <3>2. ASSUME NEW i \in Looked(Head(rpso_queue))
          PROVE  Head(rpso_queue).rpsos[i].n > 0
      BY <3>1 DEF Starts, Length
    <3> QED BY <3>2 DEF LoopEnds
  <2> QED BY <2>2, <2>3 DEF RightEntity
<1> QED BY <1>1, Invariance, PTL

\* Until a packet is closed late, whatever recv_ack takes for acknowledged has
\* arrived at the entity, however wide the bitmap of an ACK and the variable it
\* is read into.
THEOREM AcksTrue == Spec => []AckedReceived
<1>1. Inv => AckedReceived
  BY DEF Inv, OnTime, Honest, Has, Sdu, AckedReceived
<1> QED BY <1>1, Invariance, PTL

\* Until a packet is closed late, an SDU that was sent is acknowledged, on its
\* way, or lost to one of the four causes the model names: no other handler
\* drops any.
THEOREM NoneVanishes == Spec => []NothingVanishes
<1>1. Inv => NothingVanishes
  BY DEF Inv
<1> QED BY <1>1, Invariance, PTL

\* Until a packet is closed late, a window never waits for what nobody has
\* asked for, but for the requests and grants that were lost.
THEOREM AllCovered == Spec => []Covered
<1>1. Inv => Covered
  BY DEF Inv
<1> QED BY <1>1, Invariance, PTL

==============================================================================
