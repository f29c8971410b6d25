------------------------------ MODULE SchedProofs ------------------------------
(***************************************************************************)
(* Proofs about SchedPipeline, for every plan, number of slots, devices and *)
(* schedulers.  First that the host never runs further ahead than the slots *)
(* reach (HostHeldBack); then that, where devices cannot copy to each other, *)
(* each split reads what belongs to its graph (SplitsReadTheirGraph).       *)
(***************************************************************************)
EXTENDS SchedPipeline, FiniteSetTheorems, SequenceTheorems, TLAPS

(***************************************************************************)
(* Sequences of operations.                                                 *)
(***************************************************************************)
IsSeq(q) == q \in Seq(Range(q))

LEMMA SequenceIs ==
  ASSUME NEW q, IsSeq(q)
  PROVE  Len(q) \in Nat /\ DOMAIN q = 1 .. Len(q)
BY LenProperties DEF IsSeq

LEMMA RangeWider ==
  ASSUME NEW q, NEW S, IsSeq(q), \A i \in 1 .. Len(q) : q[i] \in S
  PROVE  q \in Seq(S)
BY SequenceIs, SeqDef DEF IsSeq, Range

LEMMA ElementsIn ==
  ASSUME NEW S, NEW q \in Seq(S)
  PROVE  IsSeq(q)
BY SeqDef, LenProperties DEF IsSeq, Range

LEMMA Concatenated ==
  ASSUME NEW q, NEW r, IsSeq(q), IsSeq(r)
  PROVE  /\ IsSeq(q \o r) /\ Len(q \o r) = Len(q) + Len(r)
         /\ DOMAIN (q \o r) = 1 .. Len(q) + Len(r)
         /\ \A i \in 1 .. Len(q) : (q \o r)[i] = q[i]
         /\ \A i \in 1 .. Len(r) : (q \o r)[Len(q) + i] = r[i]
<1> DEFINE S == Range(q) \cup Range(r)
<1>1. Len(q) \in Nat /\ Len(r) \in Nat /\ DOMAIN q = 1 .. Len(q) /\ DOMAIN r = 1 .. Len(r)
  BY SequenceIs
<1>2. q \in Seq(S) /\ r \in Seq(S)
  BY <1>1, RangeWider DEF Range
<1> HIDE DEF S
<1>3. q \o r \in Seq(S) /\ Len(q \o r) = Len(q) + Len(r)
  BY <1>2
<1>4. \A i \in 1 .. Len(q) + Len(r) :
        (q \o r)[i] = IF i <= Len(q) THEN q[i] ELSE r[i - Len(q)]
  BY <1>2
<1>5. IsSeq(q \o r) /\ DOMAIN (q \o r) = 1 .. Len(q) + Len(r)
  BY <1>3, ElementsIn, SequenceIs
<1> QED
  BY <1>1, <1>3, <1>4, <1>5

LEMMA TailIs ==
  ASSUME NEW q, IsSeq(q), q # <<>>
  PROVE  /\ IsSeq(Tail(q)) /\ Len(Tail(q)) = Len(q) - 1 /\ Len(q) \in Nat \ {0}
         /\ DOMAIN Tail(q) = 1 .. Len(q) - 1 /\ Head(q) = q[1]
         /\ \A i \in 1 .. Len(q) - 1 : Tail(q)[i] = q[i + 1]
<1>1. PICK S : S = Range(q)
  OBVIOUS
<1>2. q \in Seq(S)
  BY <1>1 DEF IsSeq
<1>3. Tail(q) \in Seq(S) /\ Len(Tail(q)) = Len(q) - 1 /\ Len(q) \in Nat \ {0}
  BY <1>2, EmptySeq, HeadTailProperties
<1>4. Head(q) = q[1] /\ \A i \in 1 .. Len(q) - 1 : Tail(q)[i] = q[i + 1]
  BY <1>2, HeadTailProperties
<1> QED
  BY <1>3, <1>4, ElementsIn, SequenceIs

LEMMA ShortSequences ==
  /\ IsSeq(<<>>) /\ Len(<<>>) = 0
  /\ \A a : IsSeq(<<a>>) /\ Len(<<a>>) = 1 /\ <<a>>[1] = a
  /\ \A a, b : IsSeq(<<a, b>>) /\ Len(<<a, b>>) = 2 /\ <<a, b>>[1] = a /\ <<a, b>>[2] = b
<1>1. IsSeq(<<>>)
  <2>1. <<>> \in Seq({})
    OBVIOUS
  <2> QED
    BY <2>1, ElementsIn
<1>2. ASSUME NEW a PROVE IsSeq(<<a>>)
  <2>1. <<a>> \in Seq({a})
    OBVIOUS
  <2> QED
    BY <2>1, ElementsIn
<1>3. ASSUME NEW a, NEW b PROVE IsSeq(<<a, b>>)
  <2>1. <<a, b>> \in Seq({a, b})
    OBVIOUS
  <2> QED
    BY <2>1, ElementsIn
<1> QED
  BY <1>1, <1>2, <1>3

LEMMA OneMore ==
  ASSUME NEW q, NEW o, NEW new, IsSeq(q), new = q \o <<o>>
  PROVE  /\ IsSeq(new) /\ Len(new) = Len(q) + 1 /\ DOMAIN new = 1 .. Len(q) + 1
         /\ \A i \in 1 .. Len(q) : new[i] = q[i]
         /\ new[Len(q) + 1] = o
<1>1. PICK x : x = <<o>>
  OBVIOUS
<1>2. IsSeq(x) /\ Len(x) = 1 /\ x[1] = o /\ 1 \in 1 .. Len(x)
  BY <1>1, ShortSequences
<1>3. IsSeq(q) /\ IsSeq(x)
  BY <1>2
<1>4. /\ IsSeq(q \o x) /\ Len(q \o x) = Len(q) + Len(x) /\ DOMAIN (q \o x) = 1 .. Len(q) + Len(x)
      /\ \A i \in 1 .. Len(q) : (q \o x)[i] = q[i]
      /\ \A i \in 1 .. Len(x) : (q \o x)[Len(q) + i] = x[i]
  BY <1>3, Concatenated
<1> QED
  BY <1>1, <1>2, <1>4

(***************************************************************************)
(* The times an event will still be recorded by a stream.                   *)
(***************************************************************************)
Recs(q, e) == {i \in DOMAIN q : q[i].op = "record" /\ q[i].on = e}

LEMMA RecsFinite ==
  ASSUME NEW q, NEW e, IsSeq(q)
  PROVE  IsFiniteSet(Recs(q, e)) /\ Cardinality(Recs(q, e)) \in Nat
<1>1. Len(q) \in Nat /\ DOMAIN q = 1 .. Len(q)
  BY SequenceIs
<1>2. IsFiniteSet(1 .. Len(q))
  BY <1>1, FS_Interval
<1>3. Recs(q, e) \subseteq 1 .. Len(q)
  BY <1>1 DEF Recs
<1> QED
  BY <1>2, <1>3, FS_Subset, FS_CardinalityType

\* When nothing that is still to come records the event it has been recorded as often as reached.
LEMMA NoneLeft ==
  ASSUME NEW q, NEW e, IsSeq(q), Cardinality(Recs(q, e)) = 0
  PROVE  Recs(q, e) = {}
BY RecsFinite, FS_EmptySet

\* Operations that do not record the event are added.
LEMMA RecsSame ==
  ASSUME NEW q, NEW r, NEW e, IsSeq(q), IsSeq(r),
         \A i \in 1 .. Len(r) : r[i].op = "record" => r[i].on # e
  PROVE  Recs(q \o r, e) = Recs(q, e)
<1>1. Len(q) \in Nat /\ DOMAIN q = 1 .. Len(q) /\ Len(r) \in Nat
  BY SequenceIs
<1>2. ASSUME NEW i \in DOMAIN (q \o r), i \notin DOMAIN q
      PROVE  ~((q \o r)[i].op = "record" /\ (q \o r)[i].on = e)
  <2>1. i \in 1 .. Len(q) + Len(r) /\ i > Len(q)
    BY <1>1, <1>2, Concatenated
  <2>2. PICK j \in 1 .. Len(r) : i = Len(q) + j
    <3>1. i - Len(q) \in 1 .. Len(r) /\ i = Len(q) + (i - Len(q))
      BY <1>1, <2>1
    <3> QED
      BY <3>1
  <2> QED
    BY <2>2, Concatenated
<1>3. \A i \in DOMAIN q : i \in DOMAIN (q \o r) /\ (q \o r)[i] = q[i]
  BY <1>1, Concatenated
<1> QED
  BY <1>2, <1>3 DEF Recs

\* The last operation that is added records the event.
LEMMA RecsMore ==
  ASSUME NEW q, NEW o, NEW e, IsSeq(q), o.op = "record", o.on = e
  PROVE  Cardinality(Recs(q \o <<o>>, e)) = Cardinality(Recs(q, e)) + 1
<1> DEFINE r == <<o>>
           n == Len(q)
<1>1. n \in Nat /\ DOMAIN q = 1 .. n /\ IsSeq(r) /\ Len(r) = 1 /\ r[1] = o
  BY SequenceIs, ShortSequences
<1>2. DOMAIN (q \o r) = 1 .. n + 1 /\ (q \o r)[n + 1] = o /\ \A i \in 1 .. n : (q \o r)[i] = q[i]
  <2> HIDE DEF r
  <2>1. DOMAIN (q \o r) = 1 .. n + Len(r) /\ \A i \in 1 .. n : (q \o r)[i] = q[i]
    BY <1>1, Concatenated
  <2>2. 1 \in 1 .. Len(r)
    BY <1>1
  <2> QED
    BY <1>1, <2>1, <2>2, Concatenated
<1>3. Recs(q \o r, e) = Recs(q, e) \cup {n + 1}
  <2> HIDE DEF r
  <2> QED
    BY <1>1, <1>2 DEF Recs
<1>4. n + 1 \notin Recs(q, e)
  BY <1>1 DEF Recs
<1> QED
  BY <1>3, <1>4, RecsFinite, FS_AddElement

\* The first operation is done.
LEMMA RecsTail ==
  ASSUME NEW q, NEW e, IsSeq(q), q # <<>>
  PROVE  Cardinality(Recs(q, e))
           = Cardinality(Recs(Tail(q), e)) + (IF q[1].op = "record" /\ q[1].on = e THEN 1 ELSE 0)
<1> DEFINE rest == Recs(q, e) \ {1}
           f == [i \in Recs(Tail(q), e) |-> i + 1]
<1>1. Len(q) \in Nat \ {0} /\ DOMAIN q = 1 .. Len(q)
  BY TailIs, SequenceIs
<1>2. \A i \in Recs(Tail(q), e) : i \in Nat /\ i + 1 \in rest
  BY <1>1, TailIs DEF Recs
<1>3. \A j \in rest : j - 1 \in Recs(Tail(q), e) /\ j \in Nat
  <2> SUFFICES ASSUME NEW j \in rest PROVE j - 1 \in Recs(Tail(q), e) /\ j \in Nat
    OBVIOUS
  <2>1. j \in 2 .. Len(q) /\ q[j].op = "record" /\ q[j].on = e
    BY <1>1 DEF Recs
  <2>2. j - 1 \in 1 .. Len(q) - 1 /\ j - 1 + 1 = j
    BY <1>1, <2>1
  <2> QED
    BY <1>1, <2>1, <2>2, TailIs DEF Recs
<1>4. f \in Bijection(Recs(Tail(q), e), rest)
  <2>1. f \in [Recs(Tail(q), e) -> rest]
    BY <1>2
  <2>2. \A i, j \in Recs(Tail(q), e) : f[i] = f[j] => i = j
    BY <1>2
  <2>3. \A j \in rest : \E i \in Recs(Tail(q), e) : f[i] = j
    <3> SUFFICES ASSUME NEW j \in rest PROVE \E i \in Recs(Tail(q), e) : f[i] = j
      OBVIOUS
    <3>1. j - 1 \in Recs(Tail(q), e) /\ j - 1 + 1 = j
      BY <1>3
    <3> QED
      BY <3>1
  <2> QED
    BY <2>1, <2>2, <2>3 DEF Bijection, Injection, Surjection, IsInjective
<1>5. IsFiniteSet(Recs(Tail(q), e)) /\ IsFiniteSet(Recs(q, e)) /\ Cardinality(Recs(q, e)) \in Nat
  BY RecsFinite, TailIs
<1>6. Cardinality(rest) = Cardinality(Recs(Tail(q), e))
  <2> HIDE DEF f, rest
  <2> QED
    BY <1>4, <1>5, FS_Bijection DEF ExistsBijection
<1>7. Cardinality(rest) = IF 1 \in Recs(q, e) THEN Cardinality(Recs(q, e)) - 1 ELSE Cardinality(Recs(q, e))
  BY <1>5, FS_RemoveElement
<1>8. 1 \in Recs(q, e) <=> q[1].op = "record" /\ q[1].on = e
  BY <1>1 DEF Recs
<1> HIDE DEF rest
<1> QED
  BY <1>5, <1>6, <1>7, <1>8

(***************************************************************************)
(* The host is held back.                                                   *)
(***************************************************************************)
Addresses == [slot : Int, place : Int, shape : Int]
Ops == {"copy", "set", "compute", "wait", "record"}
SchedRec ==
  [cur : 0 .. copies - 1, next : 0 .. copies - 1, alloc : BOOLEAN, built : AllCopies,
   uid : Nat, shape : Int, place : Nat]

\* Types, as far as the proofs need them.
TypeInv ==
  /\ setup \in Setups /\ round \in Nat /\ copies \in 1 .. setup.copies
  /\ scheds \in [setup.scheds -> SchedRec]
  /\ at # Idle =>
       /\ at.sched \in setup.scheds /\ at.split \in DOMAIN Splits
       /\ at.input \in 1 .. Len(Splits[at.split].inputs) + 1
       /\ at = [sched |-> at.sched, split |-> at.split, input |-> at.input, ids |-> at.ids]
  /\ DOMAIN queue = Devices /\ \A b \in Devices : IsSeq(queue[b])
  /\ recorded \in [Events -> Nat] /\ passed \in [Events -> Nat]


\* An event has been recorded as often as it was reached and still will be.
EventsInv ==
  \A b \in Devices : \A e \in Events :
    e[1] = b => recorded[e] = passed[e] + Cardinality(Recs(queue[b], e))

\* A stream records events of its own device.
RecordsInv ==
  \A b \in Devices : \A i \in DOMAIN queue[b] :
    queue[b][i].op = "record" => queue[b][i].on[1] = b

\* Slot c of scheduler d is free on device b: what has been sent there does not use it.
Clear(b, d, c) ==
  IF copies > 1 THEN Recs(queue[b], <<b, d, c>>) = {}
  ELSE \A i \in DOMAIN queue[b] : queue[b][i].op # "compute"

\* A computation that was sent is of a split of the device, and the event of its slot
\* follows it.
Followed(q, b, i, c) ==
  i + 1 \in DOMAIN q /\ q[i + 1].op = "record" /\ q[i + 1].on = <<b, q[i].sched, c>>
SentOK(q, b, i) ==
  LET o == q[i]
  IN /\ o.sched \in setup.scheds /\ o.split \in DOMAIN Splits /\ Splits[o.split].on = b
     /\ copies > 1 /\ Splits[o.split].inputs # <<>> => \E c \in 0 .. copies - 1 : Followed(q, b, i, c)
SentInv ==
  \A b \in Devices : \A i \in DOMAIN queue[b] :
    queue[b][i].op = "compute" => SentOK(queue[b], b, i)

\* Two computations of a split that the host copies a user's input for are in different slots,
\* and without a pipeline there is one.
TakesUser(s) == Splits[s].on # Cpu /\ Range(Splits[s].inputs) \cap Plan.user # {}
Comps(q, d, s) == {i \in DOMAIN q : q[i].op = "compute" /\ q[i].sched = d /\ q[i].split = s}
ApartInv ==
  \A d \in setup.scheds, s \in DOMAIN Splits :
    TakesUser(s) =>
      LET q == queue[Splits[s].on]
      IN \A i, j \in Comps(q, d, s) :
           i # j => copies > 1 /\ q[i + 1].on # q[j + 1].on

\* Once the user's input was copied the slot stays free until the split is sent.
FreedInv ==
  at # Idle /\ B \in Devices /\ (\E i \in 1 .. at.input - 1 : Split.inputs[i] \in Plan.user) =>
    Clear(B, D, Cur)

HeldInv == TypeInv /\ EventsInv /\ RecordsInv /\ SentInv /\ ApartInv /\ FreedInv

\* What SetupsAssumption and PlansAssumption say of the setup in use.
LEMMA SetupIs ==
  ASSUME setup \in Setups
  PROVE  /\ Len(Splits) \in Nat \ {0} /\ DOMAIN Splits = 1 .. Len(Splits)
         /\ \A s \in DOMAIN Splits : IsSeq(Splits[s].inputs) /\ Splits[s].on \in Devices \cup {Cpu}
         /\ Cpu \notin Devices /\ setup.copies \in Nat \ {0}
         /\ setup.scheds \subseteq Nat \ {Nobody} /\ MainSched \in setup.scheds
         /\ setup.peers \subseteq Devices \X Devices /\ setup.captures \subseteq Devices
<1>1. PlanOK(Plan)
  BY PlansAssumption DEF Plan
<1>2. IsSeq(Splits) /\ Splits # <<>>
  BY <1>1 DEF PlanOK, IsSeq, Splits
<1>3. Len(Splits) \in Nat \ {0} /\ DOMAIN Splits = 1 .. Len(Splits)
  BY <1>2, TailIs, SequenceIs
<1>4. \A s \in DOMAIN Splits : IsSeq(Splits[s].inputs) /\ Splits[s].on \in Devices \cup {Cpu}
  BY <1>1 DEF PlanOK, IsSeq, Splits
<1> QED
  BY <1>3, <1>4, SetupsAssumption

LEMMA GraphUnderWay ==
  ASSUME TypeInv
  PROVE  /\ at # Idle => /\ D \in setup.scheds /\ at.split \in DOMAIN Splits
                         /\ B \in Devices \cup {Cpu} /\ IsSeq(Split.inputs)
                         /\ at.input \in 1 .. Len(Split.inputs) + 1
                         /\ Cur \in 0 .. copies - 1 /\ scheds[D] \in SchedRec
         /\ copies \in Nat \ {0}
<1>1. copies \in Nat \ {0}
  BY SetupIs DEF TypeInv
<1>2. at # Idle => D \in setup.scheds /\ at.split \in DOMAIN Splits
  BY DEF TypeInv, D
<1>3. at # Idle => scheds[D] \in SchedRec /\ Cur \in 0 .. copies - 1
  BY <1>2 DEF TypeInv, SchedRec, Cur
<1> QED
  BY <1>1, <1>2, <1>3, SetupIs DEF TypeInv, B, Split, D

\* The initial states satisfy the invariant: nothing has been sent.
LEMMA HeldBegins == Init => HeldInv
<1> SUFFICES ASSUME Init PROVE HeldInv
  OBVIOUS
<1>1. setup \in Setups /\ copies = setup.copies /\ copies \in Nat \ {0}
  BY SetupIs DEF Init
<1>2. TypeInv
  <2>1. NewSched \in SchedRec
    <3>1. 0 \in 0 .. copies - 1 /\ AllCopies = 0 .. copies - 1
      BY <1>1 DEF AllCopies
    <3> QED
      BY <3>1 DEF NewSched, SchedRec
  <2> QED
    BY <1>1, <2>1, ShortSequences DEF Init, TypeInv
<1>3. \A b \in Devices : queue[b] = <<>>
  BY DEF Init
<1>4. EventsInv
  <2> SUFFICES ASSUME NEW b \in Devices, NEW e \in Events
               PROVE  recorded[e] = passed[e] + Cardinality(Recs(queue[b], e))
    BY DEF EventsInv
  <2>1. Recs(queue[b], e) = {}
    BY <1>3 DEF Recs
  <2>2. Cardinality(Recs(queue[b], e)) = 0
    BY <2>1, FS_EmptySet
  <2>3. recorded[e] = 0 /\ passed[e] = 0
    BY DEF Init
  <2> QED
    BY <2>2, <2>3
<1>5. SentInv
  BY <1>3 DEF SentInv
<1>6. ApartInv
  <2> SUFFICES ASSUME NEW d \in setup.scheds, NEW s \in DOMAIN Splits, TakesUser(s)
               PROVE  Comps(queue[Splits[s].on], d, s) = {}
    BY DEF ApartInv
  <2>1. Splits[s].on \in Devices
    BY <1>1, SetupIs DEF TakesUser
  <2> QED
    BY <1>3, <2>1 DEF Comps
<1>7. FreedInv
  BY DEF FreedInv, Init
<1>8. RecordsInv
  BY <1>3 DEF RecordsInv
<1> QED
  BY <1>2, <1>4, <1>5, <1>6, <1>7, <1>8 DEF HeldInv

\* What was sent is as before.
LEMMA QueuesSame ==
  ASSUME HeldInv, UNCHANGED <<setup, copies, queue, recorded, passed>>
  PROVE  EventsInv' /\ RecordsInv' /\ SentInv' /\ ApartInv'
<1>1. EventsInv'
  BY DEF HeldInv, EventsInv, Events, AllCopies, Recs
<1>2. SentInv'
  BY DEF HeldInv, SentInv, SentOK, Followed, Splits, Plan
<1>3. ApartInv'
  <2>1. Splits' = Splits /\ Plan' = Plan
    BY DEF Splits, Plan
  <2>2. \A s : TakesUser(s)' = TakesUser(s)
    BY <2>1 DEF TakesUser
  <2>3. \A d, s : Comps(queue[Splits[s].on], d, s)' = Comps(queue[Splits[s].on], d, s)
    BY <2>1 DEF Comps
  <2> QED
    BY <2>1, <2>2, <2>3 DEF HeldInv, ApartInv
<1>4. RecordsInv'
  BY DEF HeldInv, RecordsInv
<1> QED
  BY <1>1, <1>2, <1>3, <1>4

\* The host takes up a graph, which has copied nothing yet.
LEMMA BeginKeeps ==
  ASSUME HeldInv, NEW d \in setup.scheds, Rebuild(d) \/ Reuse(d)
  PROVE  HeldInv'
<1>1. /\ UNCHANGED <<setup, copies, queue, recorded, passed>>
      /\ at' = [Idle EXCEPT !.sched = d, !.split = 1, !.input = 1] /\ round' = round + 1
  BY DEF Rebuild, Reuse, Begin, streams
<1>2. EventsInv' /\ RecordsInv' /\ SentInv' /\ ApartInv'
  BY <1>1, QueuesSame
<1>3. copies \in Nat \ {0} /\ setup \in Setups /\ copies <= setup.copies /\ setup.copies \in Nat
  BY GraphUnderWay, SetupIs DEF HeldInv, TypeInv
<1>4. scheds' \in [setup.scheds -> SchedRec]
  <2>1. scheds[d] \in SchedRec /\ round \in Nat /\ scheds \in [setup.scheds -> SchedRec]
    BY DEF HeldInv, TypeInv
  <2>2. CASE Rebuild(d)
    <3>1. PICK shape \in setup.shapes, place \in MayMove(d) :
            scheds' = [scheds EXCEPT ![d] =
              [Advanced(d) EXCEPT !.alloc = TRUE, !.built = scheds[d].next, !.uid = round + 1,
                                  !.shape = shape, !.place = place]]
      BY <2>2 DEF Rebuild
    <3>2. place \in Nat
      BY <2>1 DEF MayMove, SchedRec
    <3>3. shape \in Int
      BY <1>3, SetupsAssumption
    <3>4. (scheds[d].next + 1) % copies \in 0 .. copies - 1
      BY <1>3, <2>1 DEF SchedRec
    <3> DEFINE new == [Advanced(d) EXCEPT !.alloc = TRUE, !.built = scheds[d].next, !.uid = round + 1,
                                          !.shape = shape, !.place = place]
    <3>5. new \in SchedRec
      <4>1. scheds[d].next \in 0 .. copies - 1 /\ scheds[d].next \in AllCopies
        BY <1>3, <2>1 DEF SchedRec, AllCopies
      <4>2. Advanced(d) \in SchedRec
        BY <2>1, <3>4, <4>1 DEF SchedRec, Advanced
      <4>3. round + 1 \in Nat
        BY <2>1
      <4> QED
        BY <3>2, <3>3, <4>1, <4>2, <4>3 DEF SchedRec
    <3> HIDE DEF new
    <3> QED
      BY <2>1, <3>1, <3>5 DEF new
  <2>3. CASE Reuse(d)
    <3>1. \A c \in Nat : NextNonzero(c) \in 0 .. copies - 1
      BY <1>3 DEF NextNonzero
    <3>2. NextNonzero(scheds[d].next) \in 0 .. copies - 1
          /\ NextNonzero(NextNonzero(scheds[d].next) + 1) \in 0 .. copies - 1
      BY <1>3, <2>1, <3>1 DEF SchedRec
    <3>3. scheds' = scheds \/ scheds' = [scheds EXCEPT ![d].cur = NextNonzero(scheds[d].next),
                                  ![d].next = NextNonzero(NextNonzero(scheds[d].next) + 1)]
      BY <2>3 DEF Reuse
    <3> QED
      BY <2>1, <3>2, <3>3 DEF SchedRec
  <2> QED
    BY <2>2, <2>3
<1>5. TypeInv'
  <2>1. SchedRec' = SchedRec
    BY <1>1 DEF SchedRec, AllCopies
  <2>2. at'.sched = d /\ at'.split = 1 /\ at'.input = 1
        /\ at' = [sched |-> at'.sched, split |-> at'.split, input |-> at'.input, ids |-> at'.ids]
    BY <1>1 DEF Idle
  <2>3. 1 \in DOMAIN Splits /\ 1 \in 1 .. Len(Splits[1].inputs) + 1
    BY <1>3, SetupIs, SequenceIs
  <2>4. Splits' = Splits /\ Events' = Events
    BY <1>1 DEF Splits, Plan, Events, AllCopies
  <2> QED
    BY <1>1, <1>4, <2>1, <2>2, <2>3, <2>4 DEF HeldInv, TypeInv
<1>6. FreedInv'
  BY <1>1 DEF FreedInv
<1> QED
  BY <1>2, <1>5, <1>6 DEF HeldInv

\* Between graphs: nothing is sent, and only schedulers change.
LEMMA StandsKeeps ==
  ASSUME HeldInv, UNCHANGED <<setup, round, copies, queue, recorded, passed>>,
         scheds' \in [setup.scheds -> SchedRec], at' = Idle
  PROVE  HeldInv'
<1>1. EventsInv' /\ RecordsInv' /\ SentInv' /\ ApartInv'
  BY QueuesSame
<1>2. SchedRec' = SchedRec /\ Events' = Events
  BY DEF SchedRec, AllCopies, Events
<1>3. TypeInv'
  BY <1>2 DEF HeldInv, TypeInv
<1> QED
  BY <1>1, <1>3 DEF HeldInv, FreedInv

LEMMA AllocFailsKeeps ==
  ASSUME HeldInv, NEW d \in setup.scheds, AllocFails(d)
  PROVE  HeldInv'
<1>1. scheds \in [setup.scheds -> SchedRec] /\ copies \in Nat \ {0}
  BY GraphUnderWay DEF HeldInv, TypeInv
<1>2. (scheds[d].next + 1) % copies \in 0 .. copies - 1
  BY <1>1 DEF SchedRec
<1>3. [Advanced(d) EXCEPT !.alloc = FALSE] \in SchedRec
  BY <1>1, <1>2 DEF SchedRec, Advanced
<1>4. scheds' \in [setup.scheds -> SchedRec]
  BY <1>1, <1>3 DEF AllocFails
<1> QED
  BY <1>4, StandsKeeps DEF AllocFails, streams, Free

LEMMA SynchronizeKeeps ==
  ASSUME HeldInv, Synchronize
  PROVE  HeldInv'
<1>1. scheds \in [setup.scheds -> SchedRec] /\ copies \in Nat \ {0}
  BY GraphUnderWay DEF HeldInv, TypeInv
<1>2. scheds' \in [setup.scheds -> SchedRec]
  BY <1>1 DEF Synchronize, SchedRec
<1> QED
  BY <1>2, StandsKeeps DEF Synchronize, streams

LEMMA ReserveKeeps ==
  ASSUME HeldInv, Reserve
  PROVE  HeldInv'
<1>1. /\ scheds \in [setup.scheds -> SchedRec] /\ copies \in Nat \ {0} /\ round \in Nat
      /\ MainSched \in setup.scheds
  BY GraphUnderWay, SetupIs DEF HeldInv, TypeInv
<1>2. PICK place \in MayMove(MainSched) :
        scheds' = [scheds EXCEPT ![MainSched].next = 0, ![MainSched].alloc = FALSE,
                                 ![MainSched].place = place]
  BY DEF Reserve
<1>3. place \in Nat
  BY <1>1 DEF MayMove, SchedRec
<1>4. scheds' \in [setup.scheds -> SchedRec]
  BY <1>1, <1>2, <1>3 DEF SchedRec
<1> QED
  BY <1>4, StandsKeeps DEF Reserve, streams

LEMMA SchedReserveKeeps ==
  ASSUME HeldInv, SchedReserve
  PROVE  HeldInv'
<1>1. /\ scheds \in [setup.scheds -> SchedRec] /\ copies \in Nat \ {0} /\ round \in Nat
      /\ MainSched \in setup.scheds /\ setup \in Setups /\ copies \in 1 .. setup.copies /\ setup.copies \in Nat
  BY GraphUnderWay, SetupIs DEF HeldInv, TypeInv
<1>2. PICK place \in MayMove(MainSched) : scheds' = [d \in DOMAIN scheds |-> [NewSched EXCEPT !.place = place]]
  BY DEF SchedReserve
<1>3. place \in Nat
  BY <1>1 DEF MayMove, SchedRec
<1>4. copies' \in {copies, 1} /\ UNCHANGED <<setup, round, at, queue>> /\ at = Idle
  BY DEF SchedReserve
<1>5. copies' \in 1 .. setup.copies
  BY <1>1, <1>4
<1>6. scheds' \in [setup.scheds -> SchedRec']
  <2>1. [NewSched EXCEPT !.place = place] \in SchedRec'
    <3>1. copies' \in Nat \ {0} /\ setup' = setup /\ setup.copies \in Nat \ {0}
      BY <1>1, <1>4
    <3>2. PICK n \in Nat \ {0}, m \in Nat \ {0} : n = copies' /\ m = setup'.copies
      BY <3>1
    <3>3. [NewSched EXCEPT !.place = place] \in
            [cur : 0 .. n - 1, next : 0 .. n - 1, alloc : BOOLEAN, built : 0 .. m - 1,
             uid : Nat, shape : Int, place : Nat]
      <4>1. 0 \in 0 .. n - 1 /\ 0 \in 0 .. m - 1
        OBVIOUS
      <4>2. NewSched \in [cur : 0 .. n - 1, next : 0 .. n - 1, alloc : BOOLEAN, built : 0 .. m - 1,
                          uid : Nat, shape : Int, place : Nat]
        BY <4>1 DEF NewSched
      <4> QED
        BY <1>3, <4>2
    <3>4. SchedRec' = [cur : 0 .. n - 1, next : 0 .. n - 1, alloc : BOOLEAN, built : 0 .. m - 1,
                       uid : Nat, shape : Int, place : Nat]
      BY <3>2 DEF SchedRec, AllCopies
    <3> QED
      BY <3>3, <3>4, Zenon
  <2> QED
    BY <1>1, <1>2, <2>1
<1>7. \A b \in Devices : queue[b] = <<>>
  BY DEF SchedReserve, AllDrained, Drained
<1>8. Events' = Events /\ Splits' = Splits
  BY <1>4 DEF Events, AllCopies, Splits, Plan
<1>9. /\ recorded' = [e \in Events |-> IF e[2] = Nobody THEN recorded[e] ELSE 0]
      /\ passed' = [e \in Events |-> IF e[2] = Nobody THEN passed[e] ELSE 0]
      /\ recorded \in [Events -> Nat] /\ passed \in [Events -> Nat]
  BY DEF SchedReserve, HeldInv, TypeInv
<1>10. TypeInv'
  <2>1. recorded' \in [Events' -> Nat] /\ passed' \in [Events' -> Nat]
    BY <1>8, <1>9
  <2> QED
    BY <1>4, <1>5, <1>6, <1>8, <2>1 DEF HeldInv, TypeInv
<1>11. EventsInv'
  <2> SUFFICES ASSUME NEW b \in Devices, NEW e \in Events, e[1] = b
               PROVE  recorded'[e] = passed'[e] + Cardinality(Recs(queue'[b], e))
    BY <1>8 DEF EventsInv
  <2>1. Recs(queue[b], e) = {}
    BY <1>7 DEF Recs
  <2>2. Cardinality(Recs(queue[b], e)) = 0
    BY <2>1, FS_EmptySet
  <2>3. recorded[e] = passed[e] + Cardinality(Recs(queue[b], e))
    BY DEF HeldInv, EventsInv
  <2>4. recorded'[e] = passed'[e] + 0
    BY <1>9, <2>2, <2>3
  <2> QED
    BY <1>4, <2>2, <2>4
<1>12. SentInv'
  BY <1>4, <1>7 DEF SentInv
<1>13. ApartInv'
  <2>1. \A s : TakesUser(s)' = TakesUser(s)
    BY <1>4, <1>8 DEF TakesUser, Plan
  <2>2. \A d, s : Comps(queue[Splits[s].on], d, s)' = Comps(queue[Splits[s].on], d, s)
    BY <1>4, <1>8 DEF Comps
  <2>3. ASSUME NEW d \in setup.scheds, NEW s \in DOMAIN Splits, TakesUser(s)
        PROVE  Comps(queue[Splits[s].on], d, s) = {}
    <3>1. Splits[s].on \in Devices
      BY <1>1, <2>3, SetupIs DEF TakesUser
    <3> QED
      BY <1>7, <3>1 DEF Comps
  <2> QED
    BY <1>4, <1>8, <2>1, <2>2, <2>3 DEF ApartInv
<1>14. FreedInv'
  BY <1>4 DEF FreedInv
<1>15. RecordsInv'
  BY <1>4, <1>7 DEF RecordsInv
<1> QED
  BY <1>10, <1>11, <1>12, <1>13, <1>14, <1>15 DEF HeldInv

LEMMA StopsKeeps ==
  ASSUME HeldInv, ComputeFails
  PROVE  HeldInv'
<1>1. scheds \in [setup.scheds -> SchedRec]
  BY DEF HeldInv, TypeInv
<1> QED
  BY <1>1, StandsKeeps DEF ComputeFails, host, streams

LEMMA WaitsKeeps ==
  ASSUME HeldInv, UNCHANGED vars
  PROVE  HeldInv'
<1>1. UNCHANGED <<setup, round, copies, queue, recorded, passed>> /\ UNCHANGED <<scheds, at>>
  BY DEF vars, host, streams
<1>2. EventsInv' /\ RecordsInv' /\ SentInv' /\ ApartInv'
  BY <1>1, QueuesSame
<1>3. TypeInv'
  BY <1>1 DEF HeldInv, TypeInv, SchedRec, AllCopies, Events, Splits, Plan
<1>4. FreedInv'
  BY <1>1 DEF HeldInv, FreedInv, B, Split, Splits, Plan, D, Cur, Clear, Recs
<1> QED
  BY <1>2, <1>3, <1>4 DEF HeldInv

\* Operations without a computation are added to the queues, and only copy events are recorded.
Harmless(b, r) ==
  /\ IsSeq(r)
  /\ \A i \in 1 .. Len(r) : r[i].op # "compute" /\ (r[i].op = "record" => r[i].on = CopyEvent(b))
Extended(b) == \E r : Harmless(b, r) /\ queue'[b] = queue[b] \o r

LEMMA NothingAdded ==
  ASSUME NEW b, IsSeq(queue[b]), queue'[b] = queue[b]
  PROVE  Extended(b)
<1>1. queue[b] \o <<>> = queue[b]
  BY ConcatEmptySeq DEF IsSeq
<1>2. Harmless(b, <<>>)
  BY ShortSequences DEF Harmless
<1> QED
  BY <1>1, <1>2 DEF Extended

LEMMA HarmlessAdded ==
  ASSUME NEW b, NEW r, NEW q, IsSeq(q), Harmless(b, r)
  PROVE  /\ IsSeq(q \o r)
         /\ \A d, s : Comps(q \o r, d, s) = Comps(q, d, s)
         /\ \A i \in DOMAIN q : i \in DOMAIN (q \o r) /\ (q \o r)[i] = q[i]
         /\ \A i \in DOMAIN (q \o r) : (q \o r)[i].op = "compute" => i \in DOMAIN q
         /\ \A i \in DOMAIN (q \o r) :
              (q \o r)[i].op = "record" => i \in DOMAIN q \/ (q \o r)[i].on = CopyEvent(b)
         /\ \A e : e # CopyEvent(b) => Recs(q \o r, e) = Recs(q, e)
<1>1. /\ Len(q) \in Nat /\ DOMAIN q = 1 .. Len(q) /\ IsSeq(r) /\ Len(r) \in Nat
      /\ DOMAIN r = 1 .. Len(r)
  BY SequenceIs DEF Harmless
<1>2. IsSeq(q \o r) /\ DOMAIN (q \o r) = 1 .. Len(q) + Len(r)
  BY <1>1, Concatenated
<1>3. \A i \in DOMAIN q : i \in DOMAIN (q \o r) /\ (q \o r)[i] = q[i]
  BY <1>1, <1>2, Concatenated
<1>4. ASSUME NEW i \in DOMAIN (q \o r), (q \o r)[i].op = "compute" PROVE i \in DOMAIN q
  <2> SUFFICES ASSUME i \notin DOMAIN q PROVE FALSE
    OBVIOUS
  <2>1. i - Len(q) \in 1 .. Len(r) /\ i = Len(q) + (i - Len(q))
    BY <1>1, <1>2
  <2>2. (q \o r)[i] = r[i - Len(q)]
    BY <1>1, <2>1, Concatenated
  <2> QED
    BY <1>4, <2>1, <2>2 DEF Harmless
<1>5. \A d, s : Comps(q \o r, d, s) = Comps(q, d, s)
  BY <1>3, <1>4 DEF Comps
<1>6. \A e : e # CopyEvent(b) => Recs(q \o r, e) = Recs(q, e)
  BY <1>1, RecsSame DEF Harmless
<1>7. ASSUME NEW i \in DOMAIN (q \o r), (q \o r)[i].op = "record", i \notin DOMAIN q
      PROVE  (q \o r)[i].on = CopyEvent(b)
  <2>1. i - Len(q) \in 1 .. Len(r) /\ i = Len(q) + (i - Len(q))
    BY <1>1, <1>2, <1>7
  <2>2. (q \o r)[i] = r[i - Len(q)]
    BY <1>1, <2>1, Concatenated
  <2> QED
    BY <1>7, <2>1, <2>2 DEF Harmless
<1> QED
  BY <1>2, <1>3, <1>4, <1>5, <1>6, <1>7

\* Slots stay free, and computations stay as they are.
LEMMA MoreSent ==
  ASSUME HeldInv, UNCHANGED <<setup, copies>>, DOMAIN queue' = Devices,
         \A b \in Devices : Extended(b)
  PROVE  /\ \A b \in Devices : IsSeq(queue'[b])
         /\ \A b \in Devices : \A e : e # CopyEvent(b) => Recs(queue'[b], e) = Recs(queue[b], e)
         /\ RecordsInv' /\ SentInv' /\ ApartInv'
         /\ \A b \in Devices, d \in setup.scheds, c \in Int : Clear(b, d, c) => Clear(b, d, c)'
<1>1. \A b \in Devices : IsSeq(queue[b])
  BY DEF HeldInv, TypeInv
<1>2. ASSUME NEW b \in Devices
      PROVE  /\ IsSeq(queue'[b])
             /\ \A d, s : Comps(queue'[b], d, s) = Comps(queue[b], d, s)
             /\ \A i \in DOMAIN queue[b] : i \in DOMAIN queue'[b] /\ queue'[b][i] = queue[b][i]
             /\ \A i \in DOMAIN queue'[b] : queue'[b][i].op = "compute" => i \in DOMAIN queue[b]
             /\ \A i \in DOMAIN queue'[b] :
                  queue'[b][i].op = "record" => i \in DOMAIN queue[b] \/ queue'[b][i].on = CopyEvent(b)
             /\ \A e : e # CopyEvent(b) => Recs(queue'[b], e) = Recs(queue[b], e)
  <2>1. PICK r : Harmless(b, r) /\ queue'[b] = queue[b] \o r
    BY DEF Extended
  <2> QED
    BY <1>1, <2>1, HarmlessAdded
<1>3. Splits' = Splits /\ Plan' = Plan /\ setup \in Setups
  BY DEF Splits, Plan, HeldInv, TypeInv
<1>4. SentInv'
  <2> SUFFICES ASSUME NEW b \in Devices, NEW i \in DOMAIN queue'[b], queue'[b][i].op = "compute"
               PROVE  SentOK(queue[b], b, i)'
    BY DEF SentInv
  <2>1. i \in DOMAIN queue[b] /\ queue'[b][i] = queue[b][i] /\ SentOK(queue[b], b, i)
    BY <1>2 DEF HeldInv, SentInv
  <2> QED
    BY <1>2, <1>3, <2>1 DEF SentOK, Followed
<1>5. ApartInv'
  <2> SUFFICES ASSUME NEW d \in setup.scheds, NEW s \in DOMAIN Splits, TakesUser(s),
                      NEW i \in Comps(queue'[Splits[s].on], d, s),
                      NEW j \in Comps(queue'[Splits[s].on], d, s), i # j
               PROVE  copies > 1 /\ queue'[Splits[s].on][i + 1].on # queue'[Splits[s].on][j + 1].on
    BY <1>3 DEF ApartInv, TakesUser
  <2>1. Splits[s].on \in Devices /\ IsSeq(Splits[s].inputs)
    BY <1>3, SetupIs DEF TakesUser
  <2>2. PICK b \in Devices : b = Splits[s].on
    BY <2>1
  <2>3. i \in Comps(queue[b], d, s) /\ j \in Comps(queue[b], d, s)
    BY <1>2, <2>2
  <2>4. copies > 1 /\ queue[b][i + 1].on # queue[b][j + 1].on
    BY <2>2, <2>3 DEF HeldInv, ApartInv
  <2>5. Splits[s].inputs # <<>>
    BY <2>1 DEF TakesUser, Range
  <2>6. i + 1 \in DOMAIN queue[b] /\ j + 1 \in DOMAIN queue[b]
    BY <2>3, <2>4, <2>5 DEF HeldInv, SentInv, SentOK, Followed, Comps
  <2> QED
    BY <1>2, <2>2, <2>4, <2>6
<1>6. ASSUME NEW b \in Devices, NEW d \in setup.scheds, NEW c \in Int, Clear(b, d, c)
      PROVE  Clear(b, d, c)'
  <2>1. <<b, d, c>> # CopyEvent(b)
    BY <1>3, SetupIs DEF CopyEvent
  <2> QED
    BY <1>2, <1>6, <2>1 DEF Clear
<1>7. RecordsInv'
  <2> SUFFICES ASSUME NEW b \in Devices, NEW i \in DOMAIN queue'[b], queue'[b][i].op = "record"
               PROVE  queue'[b][i].on[1] = b
    BY DEF RecordsInv
  <2>1. CASE i \in DOMAIN queue[b]
    BY <1>2, <2>1 DEF HeldInv, RecordsInv
  <2>2. CASE queue'[b][i].on = CopyEvent(b)
    BY <2>2 DEF CopyEvent
  <2> QED
    BY <1>2, <2>1, <2>2
<1> QED
  BY <1>2, <1>4, <1>5, <1>6, <1>7

\* Operations that neither compute nor record.
Silent(r) == IsSeq(r) /\ \A i \in 1 .. Len(r) : r[i].op \notin {"compute", "record"}

LEMMA SilentHarmless ==
  ASSUME NEW r, Silent(r), NEW b
  PROVE  Harmless(b, r)
BY DEF Silent, Harmless

LEMMA Appended ==
  ASSUME NEW q, NEW r, NEW t, IsSeq(q), IsSeq(r), IsSeq(t)
  PROVE  (q \o r) \o t = q \o (r \o t)
<1> DEFINE S == Range(q) \cup Range(r) \cup Range(t)
<1>1. q \in Seq(S) /\ r \in Seq(S) /\ t \in Seq(S)
  BY RangeWider, SequenceIs DEF Range
<1> HIDE DEF S
<1> QED
  BY <1>1, ConcatAssociative

LEMMA TwoAppended == \A a, b : <<a>> \o <<b>> = <<a, b>>
<1> SUFFICES ASSUME NEW a, NEW b PROVE <<a>> \o <<b>> = <<a, b>>
  OBVIOUS
<1>1. <<a>> \in Seq({a, b}) /\ <<b>> \in Seq({a, b}) /\ <<a, b>> \in Seq({a, b})
  OBVIOUS
<1>2. /\ Len(<<a>>) = 1 /\ Len(<<b>>) = 1 /\ <<a>>[1] = a /\ <<b>>[1] = b
      /\ Len(<<a, b>>) = 2 /\ <<a, b>>[1] = a /\ <<a, b>>[2] = b
  BY ShortSequences
<1>3. PICK q, r : q = <<a>> /\ r = <<b>>
  OBVIOUS
<1>4. /\ q \o r \in Seq({a, b}) /\ Len(q \o r) = 2
      /\ (q \o r)[1] = a /\ (q \o r)[2] = b
  <2>1. IsSeq(q) /\ IsSeq(r) /\ Len(q) = 1 /\ Len(r) = 1 /\ q[1] = a /\ r[1] = b
    BY <1>2, <1>3, ShortSequences
  <2>2. q \in Seq({a, b}) /\ r \in Seq({a, b})
    BY <1>1, <1>3
  <2>3. 1 \in 1 .. Len(q) /\ 1 \in 1 .. Len(r)
    BY <2>1
  <2>4. q \o r \in Seq({a, b}) /\ Len(q \o r) = Len(q) + Len(r)
    BY <2>2
  <2>5. /\ \A i \in 1 .. Len(q) : (q \o r)[i] = q[i]
        /\ \A i \in 1 .. Len(r) : (q \o r)[Len(q) + i] = r[i]
    <3>1. IsSeq(q) /\ IsSeq(r)
      BY <2>1
    <3> QED
      BY <3>1, Concatenated
  <2>6. (q \o r)[1] = q[1] /\ (q \o r)[Len(q) + 1] = r[1]
    BY <2>3, <2>5
  <2> QED
    BY <2>1, <2>4, <2>6
<1>5. \A i \in 1 .. 2 : (q \o r)[i] = <<a, b>>[i]
  BY <1>2, <1>4
<1> QED
  BY <1>1, <1>2, <1>3, <1>4, <1>5, SeqEqual

LEMMA BothHarmless ==
  ASSUME NEW b, NEW r, NEW t, Harmless(b, r), Harmless(b, t)
  PROVE  Harmless(b, r \o t)
<1>1. IsSeq(r) /\ IsSeq(t) /\ Len(r) \in Nat /\ Len(t) \in Nat
  BY SequenceIs DEF Harmless
<1>2. IsSeq(r \o t) /\ Len(r \o t) = Len(r) + Len(t)
  BY <1>1, Concatenated
<1>3. ASSUME NEW i \in 1 .. Len(r \o t)
      PROVE  (r \o t)[i].op # "compute" /\ ((r \o t)[i].op = "record" => (r \o t)[i].on = CopyEvent(b))
  <2>1. CASE i <= Len(r)
    <3>1. i \in 1 .. Len(r)
      BY <1>1, <1>2, <2>1
    <3> QED
      BY <1>1, <3>1, Concatenated DEF Harmless
  <2>2. CASE i > Len(r)
    <3>1. i - Len(r) \in 1 .. Len(t) /\ i = Len(r) + (i - Len(r))
      BY <1>1, <1>2, <2>2
    <3>2. (r \o t)[i] = t[i - Len(r)]
      BY <1>1, <3>1, Concatenated
    <3> QED
      BY <3>1, <3>2 DEF Harmless
  <2> QED
    BY <1>1, <1>2, <2>1, <2>2
<1> QED
  BY <1>2, <1>3 DEF Harmless

LEMMA BothSilent ==
  ASSUME NEW r, NEW t, Silent(r), Silent(t)
  PROVE  Silent(r \o t)
<1>1. IsSeq(r) /\ IsSeq(t) /\ Len(r) \in Nat /\ Len(t) \in Nat
  BY SequenceIs DEF Silent
<1>2. IsSeq(r \o t) /\ Len(r \o t) = Len(r) + Len(t)
  BY <1>1, Concatenated
<1>3. ASSUME NEW i \in 1 .. Len(r \o t)
      PROVE  (r \o t)[i].op \notin {"compute", "record"}
  <2>1. CASE i <= Len(r)
    <3>1. i \in 1 .. Len(r)
      BY <1>1, <1>2, <2>1
    <3> QED
      BY <1>1, <3>1, Concatenated DEF Silent
  <2>2. CASE i > Len(r)
    <3>1. i - Len(r) \in 1 .. Len(t) /\ i = Len(r) + (i - Len(r))
      BY <1>1, <1>2, <2>2
    <3>2. (r \o t)[i] = t[i - Len(r)]
      BY <1>1, <3>1, Concatenated
    <3> QED
      BY <3>1, <3>2 DEF Silent
  <2> QED
    BY <1>1, <1>2, <2>1, <2>2
<1> QED
  BY <1>2, <1>3 DEF Silent

LEMMA WaitIsSilent == Silent(WaitForSlot)
<1>1. \A e : WaitOp(e).op = "wait"
  BY DEF WaitOp, RecordOp, Operation
<1>2. CASE WaitForSlot = <<>>
  BY <1>2, ShortSequences DEF Silent
<1>3. CASE WaitForSlot = <<WaitOp(SlotEvent(B))>>
  BY <1>1, <1>3, ShortSequences DEF Silent
<1> QED
  BY <1>2, <1>3 DEF WaitForSlot

\* Streams are sent silent operations: every event is recorded as often as before.
LEMMA SilentlySent ==
  ASSUME HeldInv, UNCHANGED <<setup, recorded, passed>>,
         \A b \in Devices : \E r : Silent(r) /\ queue'[b] = queue[b] \o r
  PROVE  EventsInv' /\ \A b \in Devices : Extended(b)
<1>1. Events' = Events
  BY DEF Events, AllCopies
<1>2. ASSUME NEW b \in Devices, NEW e \in Events, e[1] = b
      PROVE  recorded'[e] = passed'[e] + Cardinality(Recs(queue'[b], e))
  <2>1. PICK r : Silent(r) /\ queue'[b] = queue[b] \o r
    OBVIOUS
  <2>2. Recs(queue'[b], e) = Recs(queue[b], e)
    BY <2>1, RecsSame DEF Silent, HeldInv, TypeInv
  <2> QED
    BY <1>2, <2>2 DEF HeldInv, EventsInv
<1> QED
  BY <1>1, <1>2, SilentHarmless DEF EventsInv, Extended

\* The host goes on to the next input; when it copied the user's the slot was free.
LEMMA NextInputKeeps ==
  ASSUME HeldInv, CopiesInput, NextInput, UNCHANGED <<setup, round, copies, scheds, passed>>,
         DOMAIN queue' = Devices, \A b \in Devices : Extended(b),
         EventsInv', recorded' \in [Events -> Nat],
         Tensor \in Plan.user /\ B \in Devices => Clear(B, D, Cur)
  PROVE  HeldInv'
<1>1. /\ at # Idle /\ D \in setup.scheds /\ at.split \in DOMAIN Splits /\ IsSeq(Split.inputs)
      /\ at.input \in 1 .. Len(Split.inputs) /\ Len(Split.inputs) \in Nat /\ Cur \in 0 .. copies - 1
  BY GraphUnderWay, SequenceIs DEF CopiesInput, HeldInv
<1>2. Splits' = Splits /\ Plan' = Plan /\ Events' = Events /\ SchedRec' = SchedRec
  BY DEF Splits, Plan, Events, AllCopies, SchedRec
<1>3. PICK ids : at' = [at EXCEPT !.input = at.input + 1, !.ids = ids]
  BY DEF NextInput
<1>4. at'.sched = at.sched /\ at'.split = at.split /\ at'.input = at.input + 1 /\ at'.ids = ids
      /\ at' = [sched |-> at.sched, split |-> at.split, input |-> at.input + 1, ids |-> ids]
  <2>1. at = [sched |-> at.sched, split |-> at.split, input |-> at.input, ids |-> at.ids]
    BY <1>1 DEF HeldInv, TypeInv
  <2> QED
    BY <1>3, <2>1
<1>5. \A b \in Devices : IsSeq(queue'[b])
  BY MoreSent
<1>6. TypeInv'
  <2>1. at.input + 1 \in 1 .. Len(Split.inputs) + 1
    BY <1>1
  <2> QED
    BY <1>1, <1>2, <1>4, <1>5, <2>1 DEF HeldInv, TypeInv, Split, D
<1>7. RecordsInv' /\ SentInv' /\ ApartInv'
  BY MoreSent
<1>8. FreedInv'
  <2>1. D' = D /\ Split' = Split /\ B' = B /\ Cur' = Cur
    BY <1>2, <1>4 DEF D, Split, B, Cur
  <2> SUFFICES ASSUME (B \in Devices)', NEW i \in 1 .. at'.input - 1,
                      Split'.inputs[i] \in Plan'.user
               PROVE  Clear(B, D, Cur)'
    BY DEF FreedInv
  <2>2. i \in 1 .. at.input /\ at.input \in Nat /\ i \in Nat
    <3>1. at'.input = at.input + 1 /\ at.input \in Nat
      BY <1>1, <1>4
    <3> QED
      BY <3>1
  <2>3a. B \in Devices /\ Split.inputs[i] \in Plan.user
    BY <1>2, <2>1
  <2>3. Clear(B, D, Cur)
    <3>1. CASE i = at.input
      BY <2>3a, <3>1 DEF Tensor
    <3>2. CASE i # at.input
      <4>1. i \in 1 .. at.input - 1
        BY <2>2, <3>2
      <4> QED
        BY <1>1, <2>3a, <4>1 DEF HeldInv, FreedInv
    <3> QED
      BY <3>1, <3>2
  <2>4. \A b \in Devices, d \in setup.scheds, c \in Int : Clear(b, d, c) => Clear(b, d, c)'
    BY MoreSent
  <2>5. PICK b \in Devices, d \in setup.scheds, c \in Int : b = B /\ d = D /\ c = Cur
    BY <1>1, <2>3a
  <2>6. Clear(b, d, c)'
    BY <2>3, <2>4, <2>5
  <2> QED
    BY <2>1, <2>5, <2>6 DEF Clear
<1> QED
  BY <1>6, <1>7, <1>8 DEF HeldInv

\* The slot of the split's backend is free once its event is reached, or the stream done.
LEMMA FreeIsClear ==
  ASSUME HeldInv, at # Idle, B \in Devices, FreeOf(B)
  PROVE  Clear(B, D, Cur)
<1>1. /\ D \in setup.scheds /\ Cur \in 0 .. copies - 1 /\ copies \in 1 .. setup.copies
      /\ copies \in Nat \ {0} /\ setup.copies \in Nat /\ Cpu \notin Devices
  BY GraphUnderWay, SetupIs DEF HeldInv, TypeInv
<1>2. CASE copies > 1
  <2>1. Reached(SlotEvent(B))
    BY <1>1, <1>2 DEF FreeOf, HasEvent
  <2>2. SlotEvent(B) \in Events /\ SlotEvent(B)[1] = B
    BY <1>1 DEF SlotEvent, Events, AllCopies
  <2>3. recorded[SlotEvent(B)] = passed[SlotEvent(B)] + Cardinality(Recs(queue[B], SlotEvent(B)))
    BY <2>2 DEF HeldInv, EventsInv
  <2>4. IsSeq(queue[B]) /\ passed[SlotEvent(B)] \in Nat
    BY <2>2 DEF HeldInv, TypeInv
  <2>5. Cardinality(Recs(queue[B], SlotEvent(B))) \in Nat
    BY <2>4, RecsFinite
  <2>6. Cardinality(Recs(queue[B], SlotEvent(B))) = 0
    BY <2>1, <2>3, <2>4, <2>5 DEF Reached
  <2>7. Recs(queue[B], SlotEvent(B)) = {}
    BY <2>4, <2>6, NoneLeft
  <2> QED
    BY <1>2, <2>7 DEF Clear, SlotEvent
<1>3. CASE ~(copies > 1)
  <2>1. queue[B] = <<>>
    BY <1>3 DEF FreeOf, HasEvent, Drained
  <2> QED
    BY <1>3, <2>1 DEF Clear
<1> QED
  BY <1>2, <1>3

LEMMA CopyUserKeeps ==
  ASSUME HeldInv, CopyUser
  PROVE  HeldInv'
<1>1. UNCHANGED <<setup, round, copies, scheds, queue, recorded, passed>> /\ CopiesInput /\ NextInput
  BY DEF CopyUser, host, streams
<1>2. EventsInv' /\ DOMAIN queue' = Devices /\ recorded' \in [Events -> Nat]
  BY <1>1, QueuesSame DEF HeldInv, TypeInv
<1>3. \A b \in Devices : Extended(b)
  BY <1>1, NothingAdded DEF HeldInv, TypeInv
<1>4. B \in Devices => Clear(B, D, Cur)
  BY <1>1, FreeIsClear DEF CopyUser, CopiesInput
<1> QED
  BY <1>1, <1>2, <1>3, <1>4, NextInputKeeps

\* One stream is sent silent operations.
LEMMA OneSent ==
  ASSUME HeldInv, CopiesInput, NextInput, UNCHANGED <<setup, round, copies, scheds, recorded, passed>>,
         Tensor \notin Plan.user,
         NEW r, Silent(r), DOMAIN queue' = Devices,
         \A b \in Devices : queue'[b] = IF b = B THEN queue[B] \o r ELSE queue[b]
  PROVE  HeldInv'
<1>1. DOMAIN queue = Devices /\ \A b \in Devices : IsSeq(queue[b])
  BY DEF HeldInv, TypeInv
<1>2. \A b \in Devices : \E t : Silent(t) /\ queue'[b] = queue[b] \o t
  <2> SUFFICES ASSUME NEW b \in Devices PROVE \E t : Silent(t) /\ queue'[b] = queue[b] \o t
    OBVIOUS
  <2>1. Silent(<<>>) /\ queue[b] \o <<>> = queue[b]
    BY <1>1, ShortSequences, ConcatEmptySeq DEF Silent, IsSeq
  <2>2. b # B => queue'[b] = queue[b]
    OBVIOUS
  <2>3. b = B => queue'[b] = queue[b] \o r
    OBVIOUS
  <2> QED
    BY <2>1, <2>2, <2>3
<1>3. EventsInv' /\ \A b \in Devices : Extended(b)
  BY <1>2, SilentlySent
<1>4. DOMAIN queue' = Devices /\ recorded' \in [Events -> Nat]
  BY <1>1 DEF HeldInv, TypeInv
<1> QED
  BY <1>3, <1>4, NextInputKeeps

LEMMA CopyOpIsSilent ==
  ASSUME NEW op \in {"copy", "set"}, NEW v
  PROVE  Silent(<<CopyOp(op, v)>>)
<1>1. CopyOp(op, v).op = op
  BY DEF CopyOp, Operation
<1> QED
  BY <1>1, ShortSequences DEF Silent

LEMMA CopyExpertsKeeps ==
  ASSUME HeldInv, CopyExperts
  PROVE  HeldInv'
<1> DEFINE t == <<CopyOp("set", IdsRead.value)>>
<1>1. /\ UNCHANGED <<setup, round, copies, scheds, recorded, passed>> /\ CopiesInput /\ NextInput
      /\ Tensor \notin Plan.user
  BY DEF CopyExperts, CopiesMade, host
<1>2. queue' = [queue EXCEPT ![B] = (queue[B] \o WaitForSlot) \o t]
  BY DEF CopyExperts
<1>3. Silent(t) /\ Silent(WaitForSlot)
  BY CopyOpIsSilent, WaitIsSilent
<1> HIDE DEF t
<1>4. Silent(WaitForSlot \o t)
  BY <1>3, BothSilent
<1>5. B \in Devices => (queue[B] \o WaitForSlot) \o t = queue[B] \o (WaitForSlot \o t)
  <2> SUFFICES ASSUME B \in Devices
               PROVE  (queue[B] \o WaitForSlot) \o t = queue[B] \o (WaitForSlot \o t)
    OBVIOUS
  <2>p. PICK q, w : q = queue[B] /\ w = WaitForSlot
    OBVIOUS
  <2>1. IsSeq(q)
    BY <2>p DEF HeldInv, TypeInv
  <2>2. IsSeq(w) /\ IsSeq(t)
    BY <1>3, <2>p DEF Silent
  <2>3. (q \o w) \o t = q \o (w \o t)
    BY <2>1, <2>2, Appended
  <2> QED
    BY <2>p, <2>3
<1>6. /\ DOMAIN queue' = Devices
      /\ \A b \in Devices : queue'[b] = IF b = B THEN queue[B] \o (WaitForSlot \o t) ELSE queue[b]
  <2>1. DOMAIN queue = Devices
    BY DEF HeldInv, TypeInv
  <2> QED
    BY <1>2, <1>5, <2>1
<1> QED
  BY <1>1, <1>4, <1>6, OneSent

LEMMA CopyBlockingKeeps ==
  ASSUME HeldInv, CopyBlocking
  PROVE  HeldInv'
<1>1. /\ UNCHANGED <<setup, round, copies, scheds, recorded, passed>> /\ CopiesInput /\ NextInput
      /\ Tensor \notin Plan.user
  BY DEF CopyBlocking, CopiesMade, host
<1>2. DOMAIN queue = Devices /\ Cpu \notin Devices
  BY SetupIs DEF HeldInv, TypeInv
<1>3. /\ DOMAIN queue' = Devices
      /\ \A b \in Devices : queue'[b] = IF b = B THEN queue[B] \o WaitForSlot ELSE queue[b]
  <2>1. CASE B = Cpu
    BY <1>2, <2>1 DEF CopyBlocking
  <2>2. CASE B # Cpu
    BY <1>2, <2>2 DEF CopyBlocking
  <2> QED
    BY <2>1, <2>2
<1> QED
  BY <1>1, <1>3, WaitIsSilent, OneSent

LEMMA CopyPeerKeeps ==
  ASSUME HeldInv, CopyPeer
  PROVE  HeldInv'
<1> DEFINE e == CopyEvent(From)
           copy == CopyOp("copy", round)
           done == [WaitOp(e) EXCEPT !.count = recorded[e] + 1]
           q1 == queue[From] \o <<copy, RecordOp(e)>>
<1>1. /\ UNCHANGED <<setup, round, copies, scheds, passed>> /\ CopiesInput /\ NextInput
      /\ Tensor \notin Plan.user
  BY DEF CopyPeer, CopiesMade, host
<1>2. From \in Devices /\ B \in Devices /\ at # Idle /\ Cpu \notin Devices
  <2>1. setup.peers \subseteq Devices \X Devices /\ Cpu \notin Devices
    BY SetupIs DEF HeldInv, TypeInv
  <2>2. <<From, B>> \in setup.peers /\ at # Idle
    BY DEF CopyPeer, Peers, CopiesMade, CopiesInput
  <2> QED
    BY <2>1, <2>2
<1>3. /\ DOMAIN queue = Devices /\ \A b \in Devices : IsSeq(queue[b])
      /\ recorded \in [Events -> Nat] /\ passed \in [Events -> Nat]
  BY DEF HeldInv, TypeInv
<1>4. e \in Events /\ e[1] = From
  BY <1>2 DEF Events, CopyEvent
<1>5. recorded' = [recorded EXCEPT ![e] = recorded[e] + 1]
  BY DEF CopyPeer
<1>6. /\ copy.op = "copy" /\ RecordOp(e).op = "record" /\ RecordOp(e).on = e
      /\ done.op = "wait"
  BY DEF CopyOp, Operation, RecordOp, WaitOp
<1>7. queue' = [[queue EXCEPT ![From] = q1] EXCEPT ![B] = @ \o WaitForSlot \o <<done>>]
  BY DEF CopyPeer
<1>8. Silent(WaitForSlot) /\ Silent(<<done>>) /\ Harmless(From, <<copy, RecordOp(e)>>)
  <2> HIDE DEF copy, done, e
  <2>1. Silent(WaitForSlot) /\ Silent(<<done>>)
    BY <1>6, WaitIsSilent, ShortSequences DEF Silent
  <2>2. Harmless(From, <<copy, RecordOp(e)>>)
    BY <1>6, ShortSequences DEF Harmless, e
  <2> QED
    BY <2>1, <2>2
<1> HIDE DEF copy, done, e
<1> DEFINE r == <<copy, RecordOp(e)>>
           t == WaitForSlot \o <<done>>
<1>9. Silent(t) /\ Harmless(B, t)
  BY <1>8, BothSilent, SilentHarmless
<1>10. IsSeq(q1) /\ IsSeq(r) /\ IsSeq(t) /\ IsSeq(WaitForSlot) /\ IsSeq(<<done>>)
  BY <1>2, <1>3, <1>8, <1>9, Concatenated DEF Harmless, Silent
<1>11. \A q : IsSeq(q) => (q \o WaitForSlot) \o <<done>> = q \o t
  <2>1. IsSeq(WaitForSlot) /\ IsSeq(<<done>>)
    BY <1>10
  <2> QED
    BY <2>1, Appended
<1>12. /\ DOMAIN queue' = Devices
       /\ From = B => queue'[B] = q1 \o t
       /\ From # B => queue'[From] = q1 /\ queue'[B] = queue[B] \o t
       /\ \A b \in Devices : b \notin {From, B} => queue'[b] = queue[b]
  <2>1. PICK sent : sent = [queue EXCEPT ![From] = q1]
    OBVIOUS
  <2>2. queue' = [sent EXCEPT ![B] = (sent[B] \o WaitForSlot) \o <<done>>]
    BY <1>7, <2>1
  <2>3. IsSeq(sent[B]) /\ DOMAIN sent = Devices /\ sent[B] = (IF From = B THEN q1 ELSE queue[B])
    <3> HIDE DEF q1
    <3> QED
      BY <1>2, <1>3, <1>10, <2>1
  <2>4. (sent[B] \o WaitForSlot) \o <<done>> = sent[B] \o t
    BY <1>11, <2>3
  <2>5. queue' = [sent EXCEPT ![B] = sent[B] \o t]
    BY <2>2, <2>4
  <2> HIDE DEF q1, t
  <2>6. PICK new : new = sent[B] \o t
    OBVIOUS
  <2>7. queue' = [sent EXCEPT ![B] = new]
    BY <2>5, <2>6
  <2>8. /\ DOMAIN queue' = Devices /\ queue'[B] = new
        /\ From # B => queue'[From] = q1
        /\ \A b \in Devices : b \notin {From, B} => queue'[b] = queue[b]
    BY <1>2, <1>3, <2>1, <2>3, <2>7
  <2> QED
    BY <2>3, <2>6, <2>8
<1>13. From = B => Harmless(B, r \o t) /\ q1 \o t = queue[B] \o (r \o t)
  BY <1>2, <1>3, <1>8, <1>9, <1>10, BothHarmless, Appended
<1> HIDE DEF t
<1>14. \A b \in Devices : Extended(b)
  <2> SUFFICES ASSUME NEW b \in Devices PROVE Extended(b)
    OBVIOUS
  <2>1. CASE b \notin {From, B}
    BY <1>3, <1>12, <2>1, NothingAdded
  <2>2. CASE From = B /\ b = B
    BY <1>12, <1>13, <2>2 DEF Extended
  <2>3. CASE From # B /\ b = From
    BY <1>8, <1>12, <2>3 DEF Extended
  <2>4. CASE From # B /\ b = B
    BY <1>9, <1>12, <2>4 DEF Extended
  <2> QED
    BY <2>1, <2>2, <2>3, <2>4
\* The copy event of the source is recorded once more, the others as often as before.
<1>15. /\ \A f : f # e => Recs(q1, f) = Recs(queue[From], f)
       /\ Cardinality(Recs(q1, e)) = Cardinality(Recs(queue[From], e)) + 1
  <2>1. IsSeq(<<copy>>) /\ IsSeq(<<RecordOp(e)>>) /\ IsSeq(queue[From])
    BY <1>2, <1>3, ShortSequences
  <2>2. <<copy>> \o <<RecordOp(e)>> = r
    BY TwoAppended
  <2>3. q1 = (queue[From] \o <<copy>>) \o <<RecordOp(e)>>
    BY <2>1, <2>2, Appended
  <2>4. \A f : Recs(queue[From] \o <<copy>>, f) = Recs(queue[From], f)
    BY <1>6, <2>1, ShortSequences, RecsSame
  <2>5. IsSeq(queue[From] \o <<copy>>)
    BY <2>1, Concatenated
  <2>6. Cardinality(Recs((queue[From] \o <<copy>>) \o <<RecordOp(e)>>, e))
          = Cardinality(Recs(queue[From] \o <<copy>>, e)) + 1
    BY <1>6, <2>5, RecsMore
  <2>7. \A f : f # e => Recs((queue[From] \o <<copy>>) \o <<RecordOp(e)>>, f)
                          = Recs(queue[From] \o <<copy>>, f)
    BY <1>6, <2>1, <2>5, ShortSequences, RecsSame
  <2> HIDE DEF q1
  <2> QED
    BY <2>3, <2>4, <2>6, <2>7
<1>16. \A q, f : IsSeq(q) => Recs(q \o t, f) = Recs(q, f)
  BY <1>9, <1>10, RecsSame DEF Silent
<1> HIDE DEF q1, r
<1>19. From = B => queue'[B] = q1 \o t /\ \A f : Recs(queue'[B], f) = Recs(q1, f)
  BY <1>10, <1>12, <1>16
<1>17. EventsInv'
  <2> SUFFICES ASSUME NEW b \in Devices, NEW f \in Events, f[1] = b
               PROVE  recorded'[f] = passed'[f] + Cardinality(Recs(queue'[b], f))
    BY <1>1 DEF EventsInv, Events, AllCopies
  <2>1. /\ recorded[f] = passed[f] + Cardinality(Recs(queue[b], f)) /\ IsSeq(queue[b])
        /\ recorded[f] \in Nat /\ passed[f] \in Nat
    BY <1>3 DEF HeldInv, EventsInv
  <2>2. Cardinality(Recs(queue[b], f)) \in Nat
    BY <2>1, RecsFinite
  <2>3. CASE f = e
    <3>1. b = From /\ recorded'[f] = recorded[f] + 1
      BY <1>3, <1>4, <1>5, <2>3
    <3>2. Recs(queue'[b], f) = Recs(q1, f)
      BY <1>12, <1>19, <3>1
    <3>3. Cardinality(Recs(queue'[b], f)) = Cardinality(Recs(queue[b], f)) + 1
      BY <1>15, <2>3, <3>1, <3>2
    <3> QED
      BY <1>1, <2>1, <2>2, <3>1, <3>3
  <2>4. CASE f # e
    <3>1. recorded'[f] = recorded[f]
      BY <1>3, <1>5, <2>4
    <3>2. Recs(queue'[b], f) = Recs(queue[b], f)
      <4>1. CASE b \notin {From, B}
        BY <1>12, <4>1
      <4>2. CASE From = B /\ b = B
        BY <1>15, <1>19, <2>4, <4>2
      <4>3. CASE From # B /\ b = From
        BY <1>12, <1>15, <2>4, <4>3
      <4>4. CASE From # B /\ b = B
        BY <1>12, <1>16, <2>1, <4>4
      <4> QED
        BY <4>1, <4>2, <4>3, <4>4
    <3> QED
      BY <1>1, <2>1, <3>1, <3>2
  <2> QED
    BY <2>3, <2>4
<1>18. recorded' \in [Events -> Nat]
  <2>1. recorded[e] + 1 \in Nat
    BY <1>3, <1>4
  <2> QED
    BY <1>3, <1>5, <2>1
<1> QED
  BY <1>1, <1>12, <1>14, <1>17, <1>18, NextInputKeeps

\* The split that the host sends is followed by the event of its slot; others stay.
LEMMA SplitAdded ==
  ASSUME HeldInv, Compute, B # Cpu
  PROVE  LET q == queue[B]
             n == Len(q)
         IN /\ B \in Devices /\ IsSeq(q) /\ IsSeq(queue'[B]) /\ n \in Nat
            /\ DOMAIN queue' = Devices /\ \A b \in Devices \ {B} : queue'[b] = queue[b]
            /\ DOMAIN q = 1 .. n /\ \A i \in 1 .. n : queue'[B][i] = q[i]
            /\ queue'[B][n + 1].op = "compute"
            /\ queue'[B][n + 1] = ComputeOp
            /\ IF Recorded
               THEN DOMAIN queue'[B] = 1 .. n + 2 /\ queue'[B][n + 2] = RecordOp(SlotEvent(B))
               ELSE DOMAIN queue'[B] = 1 .. n + 1
            /\ \A e : Cardinality(Recs(queue'[B], e))
                 = Cardinality(Recs(q, e)) + (IF Recorded /\ e = SlotEvent(B) THEN 1 ELSE 0)
<1> DEFINE q == queue[B]
           n == Len(q)
           r == IF Recorded THEN <<RecordOp(SlotEvent(B))>> ELSE <<>>
           q1 == q \o <<ComputeOp>>
<1>1. /\ at # Idle /\ B \in Devices /\ IsSeq(q) /\ DOMAIN queue = Devices
  BY GraphUnderWay DEF HeldInv, TypeInv, Compute
<1>2. n \in Nat /\ DOMAIN q = 1 .. n
  BY <1>1, SequenceIs
<1>3. queue' = [queue EXCEPT ![B] = q1 \o r]
  BY DEF Compute
<1>4. /\ RecordOp(SlotEvent(B)).op = "record" /\ RecordOp(SlotEvent(B)).on = SlotEvent(B)
      /\ ComputeOp.op = "compute"
  BY DEF RecordOp, Operation, ComputeOp
<1>5. queue'[B] = q1 \o r /\ DOMAIN queue' = Devices /\ \A b \in Devices \ {B} : queue'[b] = queue[b]
  <2> HIDE DEF q1, r
  <2> QED
    BY <1>1, <1>3
<1>6. IsSeq(<<ComputeOp>>) /\ Len(<<ComputeOp>>) = 1 /\ <<ComputeOp>>[1] = ComputeOp
  BY ShortSequences
<1>7. /\ IsSeq(q1) /\ Len(q1) = n + 1 /\ DOMAIN q1 = 1 .. n + 1
      /\ \A i \in 1 .. n : q1[i] = q[i]
      /\ q1[n + 1] = ComputeOp
  <2>1. PICK p, o, new : p = q /\ o = ComputeOp /\ new = p \o <<o>>
    OBVIOUS
  <2>2. IsSeq(p) /\ new = q1 /\ Len(p) = n
    BY <1>1, <2>1
  <2>3. IsSeq(new)
    BY <2>1, <2>2, OneMore
  <2>4. Len(new) = Len(p) + 1 /\ DOMAIN new = 1 .. Len(p) + 1
    BY <2>1, <2>2, OneMore
  <2>5. \A i \in 1 .. Len(p) : new[i] = p[i]
    BY <2>1, <2>2, OneMore
  <2>6. new[Len(p) + 1] = o
    BY <2>1, <2>2, OneMore
  <2> HIDE DEF q1, q, n
  <2> QED
    BY <2>1, <2>2, <2>3, <2>4, <2>5, <2>6
<1>8. \A e : Recs(q1, e) = Recs(q, e)
  BY <1>1, <1>4, <1>6, RecsSame
<1> HIDE DEF q, n
<1>9. CASE Recorded
  <2>1. PICK o, p, new : o = RecordOp(SlotEvent(B)) /\ p = q1 /\ new = p \o <<o>>
    OBVIOUS
  <2>2. queue'[B] = new
    BY <1>5, <1>9, <2>1
  <2>3. IsSeq(p) /\ Len(p) = n + 1
    BY <1>7, <2>1
  <2>4. /\ IsSeq(new) /\ DOMAIN new = 1 .. Len(p) + 1
        /\ \A i \in 1 .. Len(p) : new[i] = p[i]
        /\ new[Len(p) + 1] = o
    <3>1. IsSeq(p) /\ new = p \o <<o>>
      BY <2>1, <2>3
    <3>2. IsSeq(new)
      BY <3>1, OneMore
    <3>3. DOMAIN new = 1 .. Len(p) + 1
      BY <3>1, OneMore
    <3>4. \A i \in 1 .. Len(p) : new[i] = p[i]
      BY <3>1, OneMore
    <3>5. new[Len(p) + 1] = o
      BY <3>1, OneMore
    <3> QED
      BY <3>2, <3>3, <3>4, <3>5
  <2>5. /\ DOMAIN new = 1 .. n + 2 /\ new[n + 2] = o
        /\ \A i \in 1 .. n : new[i] = q[i]
        /\ new[n + 1] = ComputeOp
    <3>1. n + 1 \in 1 .. Len(p) /\ \A i \in 1 .. n : i \in 1 .. Len(p)
      BY <1>2, <2>3
    <3>2. Len(p) + 1 = n + 2
      BY <1>2, <2>3
    <3> QED
      BY <1>7, <2>1, <2>4, <3>1, <3>2
  <2>9. ASSUME NEW e
        PROVE  Cardinality(Recs(new, e)) = Cardinality(Recs(q, e)) + (IF e = SlotEvent(B) THEN 1 ELSE 0)
    <3>1. IsSeq(p) /\ Recs(p, e) = Recs(q, e)
      BY <1>8, <2>1, <2>3
    <3>2. CASE e = SlotEvent(B)
      BY <1>4, <2>1, <3>1, <3>2, RecsMore
    <3>3. CASE e # SlotEvent(B)
      <4>1. Recs(new, e) = Recs(p, e)
        BY <1>4, <2>1, <3>1, <3>3, ShortSequences, RecsSame
      <4>2. Cardinality(Recs(q, e)) \in Nat
        BY <1>1, RecsFinite DEF q
      <4> QED
        BY <3>1, <3>3, <4>1, <4>2
    <3> QED
      BY <3>2, <3>3
  <2>10. /\ IsSeq(queue'[B]) /\ \A i \in 1 .. n : queue'[B][i] = q[i]
         /\ queue'[B][n + 1].op = "compute" /\ queue'[B][n + 1] = ComputeOp
         /\ DOMAIN queue'[B] = 1 .. n + 2 /\ queue'[B][n + 2] = RecordOp(SlotEvent(B))
    BY <1>4, <2>1, <2>2, <2>4, <2>5
  <2>11. \A e : Cardinality(Recs(queue'[B], e))
                = Cardinality(Recs(q, e)) + (IF Recorded /\ e = SlotEvent(B) THEN 1 ELSE 0)
    BY <1>9, <2>2, <2>9
  <2> QED
    BY <1>1, <1>2, <1>5, <1>9, <2>10, <2>11, Zenon DEF q, n
<1>10. CASE ~Recorded
  <2>1. queue'[B] = q1
    <3>1. r = <<>>
      BY <1>10
    <3> HIDE DEF r
    <3>2. PICK p : p = q1
      OBVIOUS
    <3>3. p \o <<>> = p
      BY <1>7, <3>2, ConcatEmptySeq DEF IsSeq
    <3> QED
      BY <1>5, <3>1, <3>2, <3>3
  <2>2. \A e : Cardinality(Recs(q, e)) \in Nat
    BY <1>1, RecsFinite DEF q
  <2> HIDE DEF q1
  <2> QED
    BY <1>1, <1>2, <1>4, <1>5, <1>7, <1>8, <1>10, <2>1, <2>2 DEF q, n
<1> QED
  BY <1>9, <1>10

\* The host goes on to the next split, or is done.
LEMMA NextSplitTypes ==
  ASSUME HeldInv, Compute, UNCHANGED setup
  PROVE  /\ at' # Idle =>
              /\ at'.sched \in setup.scheds /\ at'.split \in DOMAIN Splits /\ at'.input = 1
              /\ at'.input \in 1 .. Len(Splits[at'.split].inputs) + 1
              /\ at' = [sched |-> at'.sched, split |-> at'.split, input |-> at'.input, ids |-> at'.ids]
<1> SUFFICES ASSUME at' # Idle
             PROVE  /\ at'.sched \in setup.scheds /\ at'.split \in DOMAIN Splits /\ at'.input = 1
                    /\ at'.input \in 1 .. Len(Splits[at'.split].inputs) + 1
                    /\ at' = [sched |-> at'.sched, split |-> at'.split, input |-> at'.input, ids |-> at'.ids]
  OBVIOUS
<1>1. at' = [at EXCEPT !.split = at.split + 1, !.input = 1] /\ at.split < Len(Splits)
  BY DEF Compute, NextSplit
<1>2. /\ at # Idle /\ D \in setup.scheds /\ at.split \in DOMAIN Splits /\ DOMAIN Splits = 1 .. Len(Splits)
      /\ at = [sched |-> at.sched, split |-> at.split, input |-> at.input, ids |-> at.ids]
      /\ \A s \in DOMAIN Splits : IsSeq(Splits[s].inputs)
      /\ Len(Splits) \in Nat
  BY GraphUnderWay, SetupIs DEF HeldInv, TypeInv, Compute
<1>3. /\ at'.sched = at.sched /\ at'.split = at.split + 1 /\ at'.input = 1 /\ at'.ids = at.ids
      /\ at' = [sched |-> at.sched, split |-> at.split + 1, input |-> 1, ids |-> at.ids]
  BY <1>1, <1>2
<1>4. at.split + 1 \in DOMAIN Splits
  BY <1>1, <1>2
<1>5. Len(Splits[at.split + 1].inputs) \in Nat
  BY <1>2, <1>4, SequenceIs
<1>6. 1 \in 1 .. Len(Splits[at.split + 1].inputs) + 1
  BY <1>5
<1> QED
  BY <1>2, <1>3, <1>4, <1>6 DEF D

LEMMA ComputeKeeps ==
  ASSUME HeldInv, Compute
  PROVE  HeldInv'
<1>1. /\ UNCHANGED <<setup, round, copies, scheds, passed>> /\ at # Idle
  BY DEF Compute, host
<1>2. Splits' = Splits /\ Plan' = Plan /\ Events' = Events /\ SchedRec' = SchedRec
  BY <1>1 DEF Splits, Plan, Events, AllCopies, SchedRec
<1>3. /\ D \in setup.scheds /\ at.split \in DOMAIN Splits /\ IsSeq(Split.inputs)
      /\ Cur \in 0 .. copies - 1 /\ Cpu \notin Devices /\ copies \in 1 .. setup.copies
      /\ copies \in Nat \ {0} /\ setup.copies \in Nat /\ B \in Devices \cup {Cpu}
      /\ Nobody \notin setup.scheds
  BY <1>1, GraphUnderWay, SetupIs DEF HeldInv, TypeInv
<1>4. FreedInv'
  <2>1. at' # Idle => at'.input = 1
    BY <1>1, NextSplitTypes
  <2> QED
    BY <2>1 DEF FreedInv
<1>5. CASE B = Cpu
  <2>1. UNCHANGED <<queue, recorded>>
    BY <1>5 DEF Compute
  <2>2. EventsInv' /\ RecordsInv' /\ SentInv' /\ ApartInv'
    BY <1>1, <2>1, QueuesSame
  <2>3. TypeInv'
    BY <1>1, <1>2, <2>1, NextSplitTypes DEF HeldInv, TypeInv
  <2> QED
    BY <1>4, <2>2, <2>3 DEF HeldInv
<1>6. CASE B # Cpu
  <2> DEFINE q == queue[B]
             n == Len(q)
             r == queue'[B]
  <2>1. /\ B \in Devices /\ IsSeq(q) /\ IsSeq(r) /\ n \in Nat
        /\ DOMAIN queue' = Devices /\ \A b \in Devices \ {B} : queue'[b] = queue[b]
        /\ DOMAIN q = 1 .. n /\ \A i \in 1 .. n : r[i] = q[i]
        /\ r[n + 1].op = "compute" /\ r[n + 1] = ComputeOp
    BY <1>6, SplitAdded
  <2>2. Recorded => DOMAIN r = 1 .. n + 2 /\ r[n + 2] = RecordOp(SlotEvent(B))
    BY <1>6, SplitAdded
  <2>3. ~Recorded => DOMAIN r = 1 .. n + 1
    BY <1>6, SplitAdded
  <2>4. \A e : Cardinality(Recs(r, e))
          = Cardinality(Recs(q, e)) + (IF Recorded /\ e = SlotEvent(B) THEN 1 ELSE 0)
    BY <1>6, SplitAdded
  <2>5. /\ RecordOp(SlotEvent(B)).op = "record" /\ RecordOp(SlotEvent(B)).on = SlotEvent(B)
        /\ ComputeOp.sched = D /\ ComputeOp.split = at.split
    BY DEF RecordOp, Operation, ComputeOp
  <2>6. recorded' = IF Recorded THEN [recorded EXCEPT ![SlotEvent(B)] = recorded[SlotEvent(B)] + 1] ELSE recorded
    BY <1>6 DEF Compute
  <2>7. SlotEvent(B) \in Events /\ SlotEvent(B)[1] = B /\ SlotEvent(B) = <<B, D, Cur>>
    BY <1>3, <2>1 DEF SlotEvent, Events, AllCopies
  <2>8. recorded' \in [Events -> Nat]
    <3>1. recorded \in [Events -> Nat] /\ recorded[SlotEvent(B)] + 1 \in Nat
      BY <2>7 DEF HeldInv, TypeInv
    <3> QED
      BY <2>6, <3>1
  <2>9. n + 1 \in DOMAIN r /\ (Recorded => n + 2 \in DOMAIN r)
        /\ \A i \in DOMAIN r : i \in DOMAIN q \/ i = n + 1 \/ (Recorded /\ i = n + 2)
    BY <2>1, <2>2, <2>3
  <2> HIDE DEF q, n, r
  <2>10. TypeInv'
    <3>1. \A b \in Devices : IsSeq(queue'[b])
      BY <2>1 DEF HeldInv, TypeInv, r
    <3> QED
      BY <1>1, <1>2, <2>1, <2>8, <3>1, NextSplitTypes DEF HeldInv, TypeInv
  <2>11. EventsInv'
    <3> SUFFICES ASSUME NEW b \in Devices, NEW e \in Events, e[1] = b
                 PROVE  recorded'[e] = passed'[e] + Cardinality(Recs(queue'[b], e))
      BY <1>2 DEF EventsInv
    <3>1. /\ recorded[e] = passed[e] + Cardinality(Recs(queue[b], e)) /\ IsSeq(queue[b])
          /\ recorded[e] \in Nat /\ passed[e] \in Nat /\ recorded \in [Events -> Nat]
      BY DEF HeldInv, EventsInv, TypeInv
    <3>2. Cardinality(Recs(queue[b], e)) \in Nat
      BY <3>1, RecsFinite
    <3>3. CASE b = B
      <4>1. Cardinality(Recs(queue'[b], e)) = Cardinality(Recs(queue[b], e))
              + (IF Recorded /\ e = SlotEvent(B) THEN 1 ELSE 0)
        BY <2>4, <3>3 DEF q, r
      <4>2. recorded'[e] = recorded[e] + (IF Recorded /\ e = SlotEvent(B) THEN 1 ELSE 0)
        BY <2>6, <2>7, <3>1
      <4> QED
        BY <1>1, <3>1, <3>2, <4>1, <4>2
    <3>4. CASE b # B
      <4>1. recorded'[e] = recorded[e] /\ queue'[b] = queue[b]
        BY <2>1, <2>6, <2>7, <3>1, <3>4
      <4> QED
        BY <1>1, <3>1, <4>1
    <3> QED
      BY <3>3, <3>4
  <2>12. RecordsInv'
    <3> SUFFICES ASSUME NEW b \in Devices, NEW i \in DOMAIN queue'[b], queue'[b][i].op = "record"
                 PROVE  queue'[b][i].on[1] = b
      BY DEF RecordsInv
    <3>1. CASE b # B
      BY <2>1, <3>1 DEF HeldInv, RecordsInv
    <3>2. CASE b = B
      <4>1. CASE i \in DOMAIN q
        BY <2>1, <3>2, <4>1 DEF HeldInv, RecordsInv, q, r
      <4>2. CASE i = n + 1
        BY <2>1, <3>2, <4>2 DEF r
      <4>3. CASE Recorded /\ i = n + 2
        BY <2>2, <2>5, <2>7, <3>2, <4>3 DEF r
      <4> QED
        BY <2>9, <3>2, <4>1, <4>2, <4>3 DEF r
    <3> QED
      BY <3>1, <3>2
  <2>13. SentInv'
    <3> SUFFICES ASSUME NEW b \in Devices, NEW i \in DOMAIN queue'[b], queue'[b][i].op = "compute"
                 PROVE  SentOK(queue'[b], b, i)
      BY <1>1, <1>2 DEF SentInv, SentOK, Followed
    <3>1. CASE b # B
      BY <2>1, <3>1 DEF HeldInv, SentInv
    <3>2. CASE b = B
      <4>1. CASE i \in DOMAIN q
        <5>1. r[i] = q[i] /\ SentOK(q, B, i)
          BY <2>1, <3>2, <4>1 DEF HeldInv, SentInv, q, r
        <5>2. \A j \in DOMAIN q : j \in DOMAIN r /\ r[j] = q[j]
          BY <2>1, <2>2, <2>3
        <5> QED
          BY <3>2, <4>1, <5>1, <5>2 DEF SentOK, Followed, r
      <4>2. CASE i = n + 1
        <5>1. r[i].sched = D /\ r[i].split = at.split /\ Splits[at.split].on = B
          BY <2>1, <2>5, <4>2 DEF B, Split
        <5>2. ASSUME copies > 1, Splits[at.split].inputs # <<>>
              PROVE  Followed(r, B, i, Cur)
          <6>1. Recorded
            BY <1>6, <5>2 DEF Recorded, HasEvent, Split
          <6>2. i + 1 = n + 2
            BY <2>1, <4>2
          <6> QED
            BY <2>2, <2>5, <2>7, <2>9, <5>1, <6>1, <6>2 DEF Followed
        <5> QED
          BY <1>3, <3>2, <5>1, <5>2 DEF SentOK, r
      <4>3. CASE Recorded /\ i = n + 2
        BY <2>2, <2>5, <3>2, <4>3 DEF r
      <4> QED
        BY <2>9, <3>2, <4>1, <4>2, <4>3 DEF r
    <3> QED
      BY <3>1, <3>2
\* The slot was free when the user's input was copied, and so no earlier computation has it.
  <2>14. ASSUME NEW i \in DOMAIN q, q[i].op = "compute", q[i].sched = D, q[i].split = at.split,
                TakesUser(at.split)
         PROVE  copies > 1 /\ i + 1 \in DOMAIN q /\ q[i + 1].on # <<B, D, Cur>>
    <3>1. PICK j \in DOMAIN Split.inputs : Split.inputs[j] \in Plan.user
      BY <2>14 DEF TakesUser, Range, Split
    <3>2. j \in 1 .. at.input - 1
      <4>1. DOMAIN Split.inputs = 1 .. Len(Split.inputs) /\ Len(Split.inputs) \in Nat
        BY <1>3, SequenceIs
      <4>2. at.input \in 1 .. Len(Split.inputs) + 1
        BY <1>1, GraphUnderWay DEF HeldInv
      <4>3. ~(at.input <= Len(Split.inputs))
        BY DEF Compute, CopiesInput
      <4> QED
        BY <3>1, <4>1, <4>2, <4>3
    <3>3. Clear(B, D, Cur)
      BY <1>1, <2>1, <3>1, <3>2 DEF HeldInv, FreedInv
    <3>4. copies > 1
      BY <2>14, <3>3 DEF Clear, q
    <3>5. SentOK(q, B, i)
      BY <2>1, <2>14 DEF HeldInv, SentInv, q
    <3>6. Splits[at.split].inputs # <<>>
      <4>1. Len(Split.inputs) # 0
        BY <1>3, <3>1, SequenceIs
      <4> QED
        BY <4>1, ShortSequences DEF Split
    <3>7. PICK c \in 0 .. copies - 1 : Followed(q, B, i, c)
      BY <2>14, <3>4, <3>5, <3>6 DEF SentOK
    <3>8. i + 1 \in DOMAIN q /\ q[i + 1].op = "record"
      BY <3>7 DEF Followed
    <3>9. q[i + 1].on # <<B, D, Cur>>
      BY <3>3, <3>4, <3>8 DEF Clear, Recs, q
    <3> QED
      BY <3>4, <3>8, <3>9
  <2>15. ApartInv'
    <3> SUFFICES ASSUME NEW d \in setup.scheds, NEW s \in DOMAIN Splits, TakesUser(s),
                        NEW i \in Comps(queue'[Splits[s].on], d, s),
                        NEW j \in Comps(queue'[Splits[s].on], d, s), i # j
                 PROVE  copies > 1 /\ queue'[Splits[s].on][i + 1].on # queue'[Splits[s].on][j + 1].on
      BY <1>1, <1>2 DEF ApartInv, TakesUser
    <3>1. Splits[s].on \in Devices /\ Splits[s].inputs # <<>>
      <4>1. IsSeq(Splits[s].inputs) /\ Splits[s].on \in Devices \cup {Cpu}
        BY SetupIs DEF HeldInv, TypeInv
      <4>2. PICK k \in DOMAIN Splits[s].inputs : TRUE
        BY DEF TakesUser, Range
      <4>3. Len(Splits[s].inputs) # 0
        BY <4>1, <4>2, SequenceIs
      <4> QED
        BY <4>1, <4>3, ShortSequences DEF TakesUser
    <3>2. CASE Splits[s].on # B
      <4>1. queue'[Splits[s].on] = queue[Splits[s].on]
        BY <2>1, <3>1, <3>2
      <4> QED
        BY <4>1 DEF HeldInv, ApartInv
    <3>3. CASE Splits[s].on = B
      <4>1. /\ i \in DOMAIN r /\ r[i].op = "compute" /\ r[i].sched = d /\ r[i].split = s
            /\ j \in DOMAIN r /\ r[j].op = "compute" /\ r[j].sched = d /\ r[j].split = s
        BY <3>3 DEF Comps, r
      <4>2. copies > 1 /\ r[i + 1].on # r[j + 1].on
        <5>1. CASE i \in DOMAIN q /\ j \in DOMAIN q
          <6>1. i \in Comps(q, d, s) /\ j \in Comps(q, d, s)
            BY <2>1, <4>1, <5>1 DEF Comps
          <6>2. copies > 1 /\ q[i + 1].on # q[j + 1].on
            BY <3>3, <6>1 DEF HeldInv, ApartInv, q
          <6>3. SentOK(q, B, i) /\ SentOK(q, B, j) /\ q[i].split = s /\ q[j].split = s
            BY <2>1, <6>1 DEF HeldInv, SentInv, q, Comps
          <6>4. i + 1 \in DOMAIN q /\ j + 1 \in DOMAIN q
            BY <3>1, <6>2, <6>3 DEF SentOK, Followed
          <6> QED
            BY <2>1, <6>2, <6>4
        <5>2. ASSUME NEW k \in DOMAIN q, NEW m \in {n + 1}, r[k].op = "compute", r[k].sched = d,
                     r[k].split = s, r[m].sched = d, r[m].split = s
              PROVE  copies > 1 /\ r[k + 1].on # r[m + 1].on
          <6>1. d = D /\ s = at.split /\ r[k] = q[k]
            BY <2>1, <2>5, <5>2
          <6>2. copies > 1 /\ k + 1 \in DOMAIN q /\ q[k + 1].on # <<B, D, Cur>>
            BY <2>14, <5>2, <6>1
          <6>3. Recorded
            BY <1>6, <3>1, <6>1, <6>2 DEF Recorded, HasEvent, Split
          <6>4. m + 1 = n + 2 /\ r[k + 1] = q[k + 1]
            BY <2>1, <5>2, <6>2
          <6> QED
            BY <2>2, <2>5, <2>7, <6>2, <6>3, <6>4
        <5>3. CASE i \in DOMAIN q /\ j = n + 1
          BY <4>1, <5>2, <5>3
        <5>4. CASE i = n + 1 /\ j \in DOMAIN q
          BY <4>1, <5>2, <5>4
        <5> QED
          BY <2>2, <2>5, <2>9, <4>1, <5>1, <5>3, <5>4
      <4> QED
        BY <3>3, <4>2 DEF r
    <3> QED
      BY <3>2, <3>3
  <2> QED
    BY <1>4, <2>10, <2>11, <2>12, <2>13, <2>15 DEF HeldInv
<1> QED
  BY <1>5, <1>6

\* A stream does its first operation.
LEMMA PerformKeeps ==
  ASSUME HeldInv, NEW b \in Devices, Perform(b)
  PROVE  HeldInv'
<1> DEFINE q == queue[b]
           r == queue'[b]
           n == Len(q)
<1>1. UNCHANGED <<setup, round, copies, scheds, at, recorded>>
  BY DEF Perform, host
<1>2. Splits' = Splits /\ Plan' = Plan /\ Events' = Events /\ SchedRec' = SchedRec
      /\ D' = D /\ B' = B /\ Split' = Split /\ Cur' = Cur
  BY <1>1 DEF Splits, Plan, Events, AllCopies, SchedRec, D, B, Split, Cur
<1>3. /\ DOMAIN queue = Devices /\ \A c \in Devices : IsSeq(queue[c])
      /\ passed \in [Events -> Nat] /\ recorded \in [Events -> Nat] /\ q # <<>>
  BY DEF HeldInv, TypeInv, Perform
<1>4. DOMAIN queue' = Devices /\ r = Tail(q) /\ \A c \in Devices \ {b} : queue'[c] = queue[c]
  BY <1>3 DEF Perform
<1>5. /\ IsSeq(r) /\ DOMAIN r = 1 .. n - 1 /\ n \in Nat \ {0} /\ DOMAIN q = 1 .. n /\ Head(q) = q[1]
      /\ \A i \in 1 .. n - 1 : r[i] = q[i + 1]
  <2>1. IsSeq(q)
    BY <1>3
  <2> QED
    BY <1>3, <1>4, <2>1, TailIs, SequenceIs
<1>6. \A i \in DOMAIN r : i \in 1 .. n - 1 /\ i + 1 \in DOMAIN q /\ r[i] = q[i + 1]
  BY <1>5
<1>7. passed' = IF q[1].op = "record" THEN [passed EXCEPT ![q[1].on] = passed[q[1].on] + 1] ELSE passed
  BY <1>5 DEF Perform
<1>8. \A e : Cardinality(Recs(q, e))
               = Cardinality(Recs(r, e)) + (IF q[1].op = "record" /\ q[1].on = e THEN 1 ELSE 0)
  BY <1>3, <1>4, RecsTail
<1>9. 1 \in DOMAIN q /\ (q[1].op = "record" => q[1].on[1] = b)
  BY <1>5 DEF HeldInv, RecordsInv
<1> HIDE DEF q, r, n
<1>10. TypeInv'
  <2>1. passed' \in [Events -> Nat]
    <3>1. CASE q[1].op = "record" /\ q[1].on \in Events
      BY <1>3, <1>7, <3>1
    <3>2. CASE q[1].op = "record" /\ q[1].on \notin Events
      BY <1>3, <1>7, <3>2
    <3>3. CASE q[1].op # "record"
      BY <1>3, <1>7, <3>3
    <3> QED
      BY <3>1, <3>2, <3>3
  <2>2. \A c \in Devices : IsSeq(queue'[c])
    BY <1>3, <1>4, <1>5 DEF r
  <2> QED
    BY <1>1, <1>2, <1>4, <2>1, <2>2 DEF HeldInv, TypeInv
<1>11. EventsInv'
  <2> SUFFICES ASSUME NEW c \in Devices, NEW e \in Events, e[1] = c
               PROVE  recorded[e] = passed'[e] + Cardinality(Recs(queue'[c], e))
    BY <1>1, <1>2 DEF EventsInv
  <2>1. /\ recorded[e] = passed[e] + Cardinality(Recs(queue[c], e))
        /\ recorded[e] \in Nat /\ passed[e] \in Nat
    BY <1>3 DEF HeldInv, EventsInv
  <2>2. CASE c = b
    <3>1. Cardinality(Recs(q, e)) \in Nat /\ Cardinality(Recs(r, e)) \in Nat
      BY <1>3, <1>5, RecsFinite DEF q
    <3>2. passed'[e] = passed[e] + (IF q[1].op = "record" /\ q[1].on = e THEN 1 ELSE 0)
      BY <1>3, <1>7, <2>1
    <3>3. Cardinality(Recs(q, e)) = Cardinality(Recs(r, e))
            + (IF q[1].op = "record" /\ q[1].on = e THEN 1 ELSE 0)
      BY <1>8
    <3>4. recorded[e] = passed[e] + Cardinality(Recs(q, e))
      BY <2>1, <2>2 DEF q
    <3>5. recorded[e] = passed'[e] + Cardinality(Recs(r, e))
      BY <2>1, <3>1, <3>2, <3>3, <3>4
    <3> QED
      BY <2>2, <3>5 DEF r
  <2>3. CASE c # b
    <3>1. passed'[e] = passed[e]
      BY <1>3, <1>7, <1>9, <2>3
    <3> QED
      BY <1>4, <2>1, <2>3, <3>1
  <2> QED
    BY <2>2, <2>3
<1>12. RecordsInv'
  <2> SUFFICES ASSUME NEW c \in Devices, NEW i \in DOMAIN queue'[c], queue'[c][i].op = "record"
               PROVE  queue'[c][i].on[1] = c
    BY DEF RecordsInv
  <2>1. CASE c = b
    BY <1>6, <2>1 DEF HeldInv, RecordsInv, q, r
  <2>2. CASE c # b
    BY <1>4, <2>2 DEF HeldInv, RecordsInv
  <2> QED
    BY <2>1, <2>2
<1>13. ASSUME NEW i \in DOMAIN r, r[i].op = "compute"
       PROVE  /\ i + 1 \in DOMAIN q /\ r[i] = q[i + 1] /\ SentOK(q, b, i + 1) /\ SentOK(r, b, i)
              /\ \A c : Followed(q, b, i + 1, c) => i + 1 \in DOMAIN r /\ r[i + 1] = q[i + 1 + 1]
  <2>1. i + 1 \in DOMAIN q /\ r[i] = q[i + 1]
    BY <1>6
  <2>2. SentOK(q, b, i + 1)
    BY <1>13, <2>1 DEF HeldInv, SentInv, q
  <2>3. ASSUME NEW c, Followed(q, b, i + 1, c)
        PROVE  Followed(r, b, i, c) /\ i + 1 \in DOMAIN r /\ r[i + 1] = q[i + 1 + 1]
    <3>1. i + 1 + 1 \in DOMAIN q /\ q[i + 1 + 1].op = "record" /\ q[i + 1 + 1].on = <<b, q[i + 1].sched, c>>
      BY <2>3 DEF Followed
    <3>2. i + 1 \in DOMAIN r
      BY <1>5, <1>6, <3>1
    <3>3. r[i + 1] = q[i + 1 + 1]
      BY <1>6, <3>2
    <3> QED
      BY <2>1, <3>1, <3>2, <3>3 DEF Followed
  <2>4. SentOK(r, b, i)
    BY <2>1, <2>2, <2>3 DEF SentOK
  <2> QED
    BY <2>1, <2>2, <2>3, <2>4
<1>14. SentInv'
  <2> SUFFICES ASSUME NEW c \in Devices, NEW i \in DOMAIN queue'[c], queue'[c][i].op = "compute"
               PROVE  SentOK(queue'[c], c, i)
    BY <1>1, <1>2 DEF SentInv, SentOK, Followed
  <2>1. CASE c = b
    BY <1>13, <2>1 DEF r
  <2>2. CASE c # b
    BY <1>4, <2>2 DEF HeldInv, SentInv
  <2> QED
    BY <2>1, <2>2
<1>15. ApartInv'
  <2> SUFFICES ASSUME NEW d \in setup.scheds, NEW s \in DOMAIN Splits, TakesUser(s),
                      NEW i \in Comps(queue'[Splits[s].on], d, s),
                      NEW j \in Comps(queue'[Splits[s].on], d, s), i # j
               PROVE  copies > 1 /\ queue'[Splits[s].on][i + 1].on # queue'[Splits[s].on][j + 1].on
    BY <1>1, <1>2 DEF ApartInv, TakesUser
  <2>1. Splits[s].on \in Devices /\ Splits[s].inputs # <<>>
    <3>1. IsSeq(Splits[s].inputs) /\ Splits[s].on \in Devices \cup {Cpu}
      BY SetupIs DEF HeldInv, TypeInv
    <3>2. PICK k \in DOMAIN Splits[s].inputs : TRUE
      BY DEF TakesUser, Range
    <3>3. Len(Splits[s].inputs) # 0
      BY <3>1, <3>2, SequenceIs
    <3> QED
      BY <3>1, <3>3, ShortSequences DEF TakesUser
  <2>2. CASE Splits[s].on # b
    <3>1. queue'[Splits[s].on] = queue[Splits[s].on]
      BY <1>4, <2>1, <2>2
    <3> QED
      BY <3>1 DEF HeldInv, ApartInv
  <2>3. CASE Splits[s].on = b
    <3>1. /\ i \in DOMAIN r /\ r[i].op = "compute" /\ r[i].sched = d /\ r[i].split = s
          /\ j \in DOMAIN r /\ r[j].op = "compute" /\ r[j].sched = d /\ r[j].split = s
      BY <2>3 DEF Comps, r
    <3>2. i + 1 \in Comps(q, d, s) /\ j + 1 \in Comps(q, d, s) /\ i + 1 # j + 1
      BY <1>6, <3>1 DEF Comps
    <3>3. copies > 1 /\ q[i + 1 + 1].on # q[j + 1 + 1].on
      BY <2>3, <3>2 DEF HeldInv, ApartInv, q
    <3>4. r[i + 1] = q[i + 1 + 1] /\ r[j + 1] = q[j + 1 + 1]
      BY <1>13, <2>1, <3>1, <3>3 DEF SentOK
    <3> QED
      BY <2>3, <3>3, <3>4 DEF r
  <2> QED
    BY <2>2, <2>3
<1>16. FreedInv'
  <2> SUFFICES ASSUME (at # Idle)', (B \in Devices)',
                      (\E i \in 1 .. at.input - 1 : Split.inputs[i] \in Plan.user)'
               PROVE  Clear(B, D, Cur)'
    BY DEF FreedInv
  <2>1. Clear(B, D, Cur)
    BY <1>1, <1>2 DEF HeldInv, FreedInv
  <2>2. B \in Devices
    BY <1>1, <1>2
  <2>3. CASE B = b
    <3>1. \A e : Recs(q, e) = {} => Recs(r, e) = {}
      BY <1>6 DEF Recs
    <3>2. (\A i \in DOMAIN q : q[i].op # "compute") => \A i \in DOMAIN r : r[i].op # "compute"
      BY <1>6
    <3> QED
      BY <1>1, <1>2, <2>1, <2>3, <3>1, <3>2 DEF Clear, q, r
  <2>4. CASE B # b
    BY <1>1, <1>2, <1>4, <2>1, <2>2, <2>4 DEF Clear
  <2> QED
    BY <2>3, <2>4
<1> QED
  BY <1>10, <1>11, <1>12, <1>14, <1>15, <1>16 DEF HeldInv

\* As many computations of a split as there are slots may wait.
LEMMA OneEachSlot ==
  ASSUME HeldInv
  PROVE  HostHeldBack
<1> SUFFICES ASSUME NEW d \in setup.scheds, NEW s \in DOMAIN Splits, TakesUser(s)
             PROVE  Waiting(d, s) <= copies
  BY DEF HostHeldBack, TakesUser
<1> DEFINE q == queue[Splits[s].on]
           C == Comps(q, d, s)
<1>1. Waiting(d, s) = Cardinality(C)
  BY DEF Waiting, Comps
<1>2. /\ Splits[s].on \in Devices /\ IsSeq(q) /\ copies \in Nat \ {0}
  BY SetupIs, GraphUnderWay DEF HeldInv, TypeInv, TakesUser
<1>3. Splits[s].inputs # <<>>
  <2>1. IsSeq(Splits[s].inputs)
    BY SetupIs DEF HeldInv, TypeInv
  <2>2. PICK k \in DOMAIN Splits[s].inputs : TRUE
    BY DEF TakesUser, Range
  <2>3. Len(Splits[s].inputs) # 0
    BY <2>1, <2>2, SequenceIs
  <2> QED
    BY <2>3, ShortSequences
<1>4. \A i, j \in C : i # j => copies > 1 /\ q[i + 1].on # q[j + 1].on
  BY DEF HeldInv, ApartInv
<1>5. CASE copies > 1
  <2> DEFINE f == [i \in C |-> q[i + 1].on[3]]
  <2>1. ASSUME NEW i \in C
        PROVE  \E c \in 0 .. copies - 1 : q[i + 1].on = <<Splits[s].on, d, c>>
    <3>1. SentOK(q, Splits[s].on, i) /\ q[i].split = s /\ q[i].sched = d
      BY <1>2 DEF HeldInv, SentInv, Comps
    <3> QED
      BY <1>3, <1>5, <3>1 DEF SentOK, Followed
  <2>2. f \in [C -> 0 .. copies - 1]
    BY <2>1
  <2>3. \A i, j \in C : f[i] = f[j] => i = j
    <3> SUFFICES ASSUME NEW i \in C, NEW j \in C, f[i] = f[j], i # j PROVE FALSE
      OBVIOUS
    <3>1. q[i + 1].on # q[j + 1].on
      BY <1>4
    <3>2. PICK c \in 0 .. copies - 1 : q[i + 1].on = <<Splits[s].on, d, c>>
      BY <2>1
    <3>3. PICK e \in 0 .. copies - 1 : q[j + 1].on = <<Splits[s].on, d, e>>
      BY <2>1
    <3> QED
      BY <3>1, <3>2, <3>3
  <2> HIDE DEF f, C
  <2>4. f \in Injection(C, 0 .. copies - 1)
    BY <2>2, <2>3 DEF Injection, IsInjective
  <2>5. IsFiniteSet(0 .. copies - 1) /\ Cardinality(0 .. copies - 1) = copies
    BY <1>2, FS_Interval
  <2>6. Cardinality(C) <= Cardinality(0 .. copies - 1)
    BY <2>4, <2>5, FS_Injection
  <2> QED
    BY <1>1, <2>5, <2>6
<1>6. CASE ~(copies > 1)
  <2>1. \A i, j \in C : i = j
    BY <1>4, <1>6
  <2> HIDE DEF C
  <2>2. CASE C = {}
    BY <1>1, <1>2, <2>2, FS_EmptySet
  <2>3. CASE C # {}
    <3>1. PICK i \in C : TRUE
      BY <2>3
    <3>2. C = {i}
      BY <2>1, <3>1
    <3>3. Cardinality({i}) = 1
      BY FS_Singleton
    <3>4. Waiting(d, s) = 1
      BY <1>1, <3>2, <3>3
    <3> QED
      BY <1>2, <3>4
  <2> QED
    BY <2>2, <2>3
<1> QED
  BY <1>5, <1>6

LEMMA NextKeeps ==
  ASSUME HeldInv, [Next]_vars
  PROVE  HeldInv'
<1>1. CASE Client
  BY <1>1, BeginKeeps, AllocFailsKeeps, SynchronizeKeeps, ReserveKeeps, SchedReserveKeeps DEF Client
<1>2. CASE InGraph
  BY <1>2, CopyUserKeeps, CopyExpertsKeeps, CopyPeerKeeps, CopyBlockingKeeps, ComputeKeeps DEF InGraph
<1>3. CASE ComputeFails
  BY <1>3, StopsKeeps
<1>4. CASE Streams
  BY <1>4, PerformKeeps DEF Streams
<1>5. CASE UNCHANGED vars
  BY <1>5, WaitsKeeps
<1> QED
  BY <1>1, <1>2, <1>3, <1>4, <1>5 DEF Next, Waits

THEOREM Invariance == Spec => []HeldInv
<1>1. Init => HeldInv
  BY HeldBegins
<1>2. HeldInv /\ [Next]_vars => HeldInv'
  BY NextKeeps
<1> QED
  BY <1>1, <1>2, PTL DEF Spec

\* The host never runs further ahead than the slots reach: of a split that the host copies the
\* user's input for, no more computations wait on the stream than there are slots
\* (compute_splits_range waits for the slot's event before it writes).
THEOREM HeldBack == Spec => []HostHeldBack
<1>1. HeldInv => HostHeldBack
  BY OneEachSlot
<1> QED
  BY <1>1, Invariance, PTL

(***************************************************************************)
(* Each split reads what belongs to its graph.                              *)
(***************************************************************************)
\* Devices that cannot copy to each other, as those of two vendors: the host copies.  Each slot
\* has memory of its own, and where slots rotate no graph is captured.  A split without inputs,
\* which no event stands for, reads no copies, and nobody waits for its event.
CopiedByHost(c) ==
  /\ c.peers = {} /\ c.allSlots /\ (c.mode = "rotate" => c.captures = {})
  /\ \A s \in DOMAIN c.plan.splits :
       LET split == c.plan.splits[s]
       IN split.on \in Devices /\ split.inputs = <<>> => split.copied = {} /\ ~c.sourceEvent

\* An operation copies experts to slot c of tensor t; it computes split s.
Sets(o, d, t, c) == o.op = "set" /\ o.sched = d /\ o.tensor = t /\ o.to.slot = c
Computes(o, d, s) == o.op = "compute" /\ o.sched = d /\ o.split = s

\* After the first n operations of q the slot, which holds v now, will hold r.
Held(v, q, n, d, t, c, r) ==
  /\ v <= r /\ \A j \in 1 .. n : Sets(q[j], d, t, c) => q[j].value <= r
  /\ v = r \/ \E j \in 1 .. n : Sets(q[j], d, t, c) /\ q[j].value = r

\* After the first n operations of q the result of split s, which is v now, will be r.
Made(v, q, n, d, s, r) ==
  \/ v = r /\ \A j \in 1 .. n : ~Computes(q[j], d, s)
  \/ \E j \in 1 .. n : /\ Computes(q[j], d, s) /\ q[j].value = r
                       /\ \A k \in j + 1 .. n : ~Computes(q[k], d, s)

\* What has been made so far, and what is still to come, is of graphs that were begun.
BoundInv ==
  /\ slots \in [setup.scheds \X Copied \X AllCopies -> 0 .. round]
  /\ result \in [SplitsOf -> 0 .. round]
  /\ user \in [setup.scheds \X AllCopies -> Nat]
  /\ \A b \in Devices : \A i \in DOMAIN queue[b] :
       LET o == queue[b][i]
       IN /\ o.op # "copy"
          /\ o.op \in {"set", "compute"} => o.value \in 0 .. round /\ o.to.slot \in AllCopies
          /\ o.op = "set" => o.split \in DOMAIN Splits /\ Splits[o.split].on = b

\* A computation that was sent will find its memory where it was captured, what was copied for
\* its graph, and the results of the splits before it; the event of its slot follows it.
SlotsOK(q, b, i) ==
  LET o == q[i]
  IN \A t \in Splits[o.split].copied :
       Held(slots[<<o.sched, <<b, t>>, o.to.slot>>], q, i - 1, o.sched, t, o.to.slot, o.value)
DirectOK(q, b, i) ==
  LET o == q[i]
  IN \A t \in Splits[o.split].direct :
       Plan.maker[t] = 0 \/
         Made(result[<<o.sched, Plan.maker[t]>>], q, i - 1, o.sched, Plan.maker[t], o.value)
PlacedOK(q, i) == q[i].to.place = scheds[q[i].sched].place /\ q[i].to.shape = q[i].count
EventsOK(q, b, i) ==
  LET o == q[i]
  IN copies > 1 =>
       /\ Splits[o.split].copied # {} => Followed(q, b, i, o.to.slot)
       /\ at # Idle /\ o.sched = D /\ o.value = round /\ setup.sourceEvent => Followed(q, b, i, Cur)
ComputesInv ==
  \A b \in Devices : \A i \in DOMAIN queue[b] :
    queue[b][i].op = "compute" =>
      /\ SlotsOK(queue[b], b, i) /\ DirectOK(queue[b], b, i)
      /\ PlacedOK(queue[b], i) /\ EventsOK(queue[b], b, i)

\* What the graph under way has copied and computed.
QueueLen(b) == IF b = Cpu THEN 0 ELSE Len(queue[b])
Past(s, i) == s < at.split \/ (s = at.split /\ i < at.input)
BegunInv ==
  at # Idle =>
    /\ user[<<D, scheds[D].built>>] = round /\ scheds[D].alloc
    /\ at.ids.tensor # NoTensor => at.ids.value = round
CopiedInv ==
  at # Idle =>
    \A s \in 1 .. at.split : \A i \in DOMAIN Splits[s].inputs :
      LET b == Splits[s].on
          t == Splits[s].inputs[i]
      IN Past(s, i) => Held(slots[<<D, <<b, t>>, Cur>>], queue[b], QueueLen(b), D, t, Cur, round)
MadeInv ==
  at # Idle =>
    \A s \in 1 .. at.split - 1 :
      LET b == Splits[s].on IN Made(result[<<D, s>>], queue[b], QueueLen(b), D, s, round)

\* A graph that may be replayed was captured for the addresses of now.
PropsOf(d, s) ==
  [slot |-> IF Splits[s].copied = {} THEN 0 ELSE scheds[d].cur,
   place |-> scheds[d].place, shape |-> scheds[d].shape]
Kept == [uid : Nat, props : Addresses, warm : BOOLEAN, instance : Addresses]
CapturesInv ==
  /\ graphs \in [SplitsOf -> Kept]
  /\ \A d \in setup.scheds : scheds[d].uid <= round /\ (scheds[d].alloc => scheds[d].uid > 0)
  /\ setup.captures = {} \/ \A k \in SplitsOf :
       LET g == graphs[k]
       IN /\ g.uid \in 0 .. round /\ (g.warm => g.instance = g.props)
          /\ scheds[k[1]].alloc /\ g.uid = scheds[k[1]].uid => g.props = PropsOf(k[1], k[2])

ReadsInv ==
  /\ CopiedByHost(setup) /\ BoundInv /\ ComputesInv /\ BegunInv /\ CopiedInv /\ MadeInv /\ CapturesInv

\* What is added to a stream sets the slot to r, if at all.
LEMMA HeldLonger ==
  ASSUME NEW v, NEW q, NEW n \in Nat, NEW p, NEW m \in Nat, NEW d, NEW t, NEW c, NEW r \in Nat,
         Held(v, q, n, d, t, c, r), n <= m, \A j \in 1 .. n : p[j] = q[j],
         \A j \in n + 1 .. m : Sets(p[j], d, t, c) => p[j].value = r
  PROVE  Held(v, p, m, d, t, c, r)
<1>1. v <= r
  BY DEF Held
<1>2. ASSUME NEW j \in 1 .. m, Sets(p[j], d, t, c)
      PROVE  p[j].value <= r
  <2>1. CASE j \in 1 .. n
    BY <1>2, <2>1 DEF Held
  <2>2. CASE j \in n + 1 .. m
    BY <1>2, <2>2
  <2> QED
    BY <2>1, <2>2
<1>3. v = r \/ \E j \in 1 .. m : Sets(p[j], d, t, c) /\ p[j].value = r
  <2>1. \A j \in 1 .. n : j \in 1 .. m
    OBVIOUS
  <2> QED
    BY <2>1 DEF Held
<1> QED
  BY <1>1, <1>2, <1>3 DEF Held

\* The slot is written with r, and no later operation has more.
LEMMA HeldWritten ==
  ASSUME NEW q, NEW n \in Nat, NEW d, NEW t, NEW c, NEW r \in Nat,
         \A j \in 1 .. n : Sets(q[j], d, t, c) => q[j].value <= r
  PROVE  Held(r, q, n, d, t, c, r)
BY DEF Held

\* The first operation is done.
LEMMA HeldTail ==
  ASSUME NEW v \in Int, NEW q, NEW n \in Nat \ {0}, NEW p, NEW w, NEW d, NEW t, NEW c, NEW r \in Int,
         Held(v, q, n, d, t, c, r), \A j \in 1 .. n - 1 : p[j] = q[j + 1],
         Sets(q[1], d, t, c) => q[1].value \in Int,
         w = IF Sets(q[1], d, t, c) /\ q[1].value > v THEN q[1].value ELSE v
  PROVE  Held(w, p, n - 1, d, t, c, r)
<1>1. 1 \in 1 .. n
  OBVIOUS
<1>2. w <= r
  BY <1>1 DEF Held
<1>3. ASSUME NEW j \in 1 .. n - 1, Sets(p[j], d, t, c)
      PROVE  p[j].value <= r
  <2>1. j + 1 \in 1 .. n /\ p[j] = q[j + 1]
    OBVIOUS
  <2> QED
    BY <1>3, <2>1 DEF Held
<1>4. w = r \/ \E j \in 1 .. n - 1 : Sets(p[j], d, t, c) /\ p[j].value = r
  <2>1. CASE v = r
    BY <1>1, <2>1 DEF Held
  <2>2. ASSUME NEW j \in 1 .. n, Sets(q[j], d, t, c), q[j].value = r
        PROVE  w = r \/ \E k \in 1 .. n - 1 : Sets(p[k], d, t, c) /\ p[k].value = r
    <3>1. CASE j = 1
      BY <2>2, <3>1 DEF Held
    <3>2. CASE j # 1
      <4>1. j - 1 \in 1 .. n - 1 /\ j - 1 + 1 = j
        BY <3>2
      <4>2. p[j - 1] = q[j]
        BY <4>1
      <4> QED
        BY <2>2, <4>1, <4>2
    <3> QED
      BY <3>1, <3>2
  <2> QED
    BY <2>1, <2>2 DEF Held
<1> QED
  BY <1>2, <1>3, <1>4 DEF Held

LEMMA MadeLonger ==
  ASSUME NEW v, NEW q, NEW n \in Nat, NEW p, NEW m \in Nat, NEW d, NEW s, NEW r,
         Made(v, q, n, d, s, r), n <= m, \A j \in 1 .. n : p[j] = q[j],
         \A j \in n + 1 .. m : ~Computes(p[j], d, s)
  PROVE  Made(v, p, m, d, s, r)
<1>1. \A j \in 1 .. m : j \in 1 .. n \/ j \in n + 1 .. m
  OBVIOUS
<1>2. CASE v = r /\ \A j \in 1 .. n : ~Computes(q[j], d, s)
  BY <1>1, <1>2 DEF Made
<1>3. ASSUME NEW j \in 1 .. n, Computes(q[j], d, s), q[j].value = r,
             \A k \in j + 1 .. n : ~Computes(q[k], d, s)
      PROVE  Made(v, p, m, d, s, r)
  <2>1. j \in 1 .. m /\ p[j] = q[j]
    OBVIOUS
  <2>2. ASSUME NEW k \in j + 1 .. m PROVE ~Computes(p[k], d, s)
    <3>1. CASE k \in j + 1 .. n
      BY <1>3, <3>1
    <3>2. CASE k \in n + 1 .. m
      BY <3>2
    <3> QED
      BY <3>1, <3>2
  <2> QED
    BY <1>3, <2>1, <2>2 DEF Made
<1> QED
  BY <1>2, <1>3 DEF Made

LEMMA MadeTail ==
  ASSUME NEW v, NEW q, NEW n \in Nat \ {0}, NEW p, NEW w, NEW d, NEW s, NEW r,
         Made(v, q, n, d, s, r), \A j \in 1 .. n - 1 : p[j] = q[j + 1],
         w = IF Computes(q[1], d, s) THEN q[1].value ELSE v
  PROVE  Made(w, p, n - 1, d, s, r)
<1>1. 1 \in 1 .. n /\ \A j \in 1 .. n - 1 : j + 1 \in 1 .. n
  OBVIOUS
<1>2. CASE v = r /\ \A j \in 1 .. n : ~Computes(q[j], d, s)
  BY <1>1, <1>2 DEF Made
<1>3. ASSUME NEW j \in 1 .. n, Computes(q[j], d, s), q[j].value = r,
             \A k \in j + 1 .. n : ~Computes(q[k], d, s)
      PROVE  Made(w, p, n - 1, d, s, r)
  <2>1. CASE j = 1
    <3>1. \A k \in 1 .. n - 1 : k + 1 \in j + 1 .. n
      BY <2>1
    <3> QED
      BY <1>3, <2>1, <3>1 DEF Made
  <2>2. CASE j # 1
    <3>1. j - 1 \in 1 .. n - 1 /\ j - 1 + 1 = j
      BY <2>2
    <3>2. p[j - 1] = q[j]
      BY <3>1
    <3>3. \A k \in j - 1 + 1 .. n - 1 : k \in 1 .. n - 1 /\ k + 1 \in j + 1 .. n
      BY <3>1
    <3>4. \A k \in j - 1 + 1 .. n - 1 : ~Computes(p[k], d, s)
      BY <1>3, <3>3
    <3> QED
      BY <1>3, <3>1, <3>2, <3>4 DEF Made
  <2> QED
    BY <2>1, <2>2
<1> QED
  BY <1>2, <1>3 DEF Made

\* What PlanOK says, in terms of the splits.
LEMMA PlanIs ==
  ASSUME setup \in Setups, NEW s \in DOMAIN Splits
  PROVE  LET split == Splits[s]
         IN /\ Range(split.inputs) \subseteq split.copied /\ NoTensor \notin split.copied
            /\ \A t \in split.copied :
                 \E r \in 1 .. s : /\ r \in DOMAIN Splits /\ Splits[r].on = split.on
                                   /\ t \in Range(Splits[r].inputs)
            /\ \A t \in Range(split.inputs) \ Plan.user :
                 Plan.maker[t] # 0 =>
                   Plan.maker[t] \in 1 .. s - 1 /\ Splits[Plan.maker[t]].on = Plan.home[t]
            /\ \A t \in split.direct :
                 /\ t \in split.usable
                 /\ t \in Plan.user => split.on = Cpu
                 /\ t \notin Plan.user /\ Plan.maker[t] # 0 =>
                      Plan.maker[t] \in 1 .. s - 1 /\ Splits[Plan.maker[t]].on = split.on
            /\ split.experts.weights # NoTensor =>
                 /\ split.on \in Devices /\ split.experts.weights \notin Plan.user
                 /\ split.experts.ids \in split.copied \cup split.direct
                 /\ split.experts.ids # NoTensor /\ split.experts.ids # split.experts.weights
<1>1. PlanOK(Plan)
  BY PlansAssumption DEF Plan
<1>2. DOMAIN Splits = 1 .. Len(Splits) /\ Len(Splits) \in Nat
  BY SetupIs
<1>3. \A r \in 1 .. s : r \in DOMAIN Splits
  BY <1>2
<1> QED
  BY <1>1, <1>3 DEF PlanOK, Splits

LEMMA ReadsBegins ==
  ASSUME Init, CopiedByHost(setup)
  PROVE  ReadsInv
<1>2. \A b \in Devices : queue[b] = <<>>
  BY DEF Init
<1>3. BoundInv
  <2>1. round = 0 /\ 0 \in 0 .. 0
    BY DEF Init
  <2> QED
    BY <1>2, <2>1 DEF Init, BoundInv, Garbage
<1>4. ComputesInv
  BY <1>2 DEF ComputesInv
<1>5. at = Idle
  BY DEF Init
<1>6. CapturesInv
  <2>1. round = 0 /\ \A d \in setup.scheds : scheds[d] = NewSched
    BY DEF Init
  <2>2. \A d \in setup.scheds : scheds[d].uid = 0 /\ ~scheds[d].alloc
    BY <2>1 DEF NewSched
  <2>3. ASSUME NEW k \in SplitsOf
        PROVE  graphs[k].uid = 0 /\ ~graphs[k].warm /\ ~scheds[k[1]].alloc
    <3>1. graphs[k] = NoGraph /\ k[1] \in setup.scheds
      BY DEF Init, SplitsOf
    <3> QED
      BY <2>2, <3>1 DEF NoGraph
  <2>4. \A d \in setup.scheds : scheds[d].uid <= round /\ (scheds[d].alloc => scheds[d].uid > 0)
    BY <2>1, <2>2
  <2>6. graphs \in [SplitsOf -> Kept]
    <3>1. NoGraph \in Kept
      BY DEF NoGraph, NoAddresses, Kept, Addresses
    <3> QED
      BY <3>1 DEF Init, SplitsOf
  <2>5. \A k \in SplitsOf :
          /\ graphs[k].uid \in 0 .. round /\ (graphs[k].warm => graphs[k].instance = graphs[k].props)
          /\ scheds[k[1]].alloc /\ graphs[k].uid = scheds[k[1]].uid => graphs[k].props = PropsOf(k[1], k[2])
    <3>1. 0 \in 0 .. round
      BY <2>1
    <3> QED
      BY <2>3, <3>1
  <2> QED
    BY <2>4, <2>5, <2>6 DEF CapturesInv
<1> QED
  BY <1>3, <1>4, <1>5, <1>6 DEF ReadsInv, BegunInv, CopiedInv, MadeInv

\* Between graphs, with nothing on its way: only memory and captures matter.
LEMMA ReadsStand ==
  ASSUME ReadsInv, UNCHANGED <<setup, round, queue>>, AllDrained, at' = Idle,
         slots' \in [setup.scheds \X Copied \X AllCopies -> 0 .. round],
         result' \in [SplitsOf -> 0 .. round], user' \in [setup.scheds \X AllCopies -> Nat],
         CapturesInv'
  PROVE  ReadsInv'
<1>1. \A b \in Devices : queue'[b] = <<>>
  BY DEF AllDrained, Drained
<1>2. Copied' = Copied /\ AllCopies' = AllCopies /\ SplitsOf' = SplitsOf
  BY DEF Copied, AllCopies, SplitsOf, Splits, Plan
<1>3. BoundInv'
  BY <1>1, <1>2 DEF BoundInv
<1>4. ComputesInv'
  BY <1>1 DEF ComputesInv
<1> QED
  BY <1>3, <1>4 DEF ReadsInv, BegunInv, CopiedInv, MadeInv

\* What memory holds after it was lost.
LEMMA LostBounded ==
  ASSUME NEW S, NEW m \in [S -> 0 .. round], NEW d, round \in Nat
  PROVE  Lost(m, d) \in [S -> 0 .. round]
<1>1. 0 \in 0 .. round
  OBVIOUS
<1> QED
  BY <1>1 DEF Lost, Garbage

\* The graphs that are kept can only be replayed for schedulers with the same addresses.
LEMMA CapturesStand ==
  ASSUME HeldInv, ReadsInv, UNCHANGED <<setup, round, graphs>>,
         \A d \in setup.scheds :
           /\ scheds'[d].uid \in 0 .. round
           /\ scheds'[d].alloc =>
                /\ scheds[d].alloc /\ scheds'[d].uid = scheds[d].uid
                /\ scheds'[d].cur = scheds[d].cur /\ scheds'[d].place = scheds[d].place
                /\ scheds'[d].shape = scheds[d].shape
  PROVE  CapturesInv'
<1>1. SplitsOf' = SplitsOf /\ Splits' = Splits
  BY DEF SplitsOf, Splits, Plan
<1>2. \A d \in setup.scheds : scheds'[d].uid <= round /\ (scheds'[d].alloc => scheds'[d].uid > 0)
  BY DEF ReadsInv, CapturesInv, HeldInv, TypeInv
<1>3. ASSUME setup.captures # {}, NEW k \in SplitsOf
      PROVE  /\ graphs[k].uid \in 0 .. round /\ (graphs[k].warm => graphs[k].instance = graphs[k].props)
             /\ scheds'[k[1]].alloc /\ graphs[k].uid = scheds'[k[1]].uid =>
                  graphs[k].props = PropsOf(k[1], k[2])'
  <2>1. k[1] \in setup.scheds
    BY DEF SplitsOf
  <2>2. scheds'[k[1]].alloc => PropsOf(k[1], k[2])' = PropsOf(k[1], k[2])
    BY <1>1, <2>1 DEF PropsOf
  <2> QED
    BY <1>3, <2>1, <2>2 DEF ReadsInv, CapturesInv
<1>4. graphs' \in [SplitsOf' -> Kept']
  BY <1>1 DEF ReadsInv, CapturesInv, Kept, Addresses
<1> QED
  BY <1>1, <1>2, <1>3, <1>4 DEF CapturesInv

LEMMA AllocFailsReads ==
  ASSUME HeldInv, ReadsInv, NEW d \in setup.scheds, AllocFails(d)
  PROVE  ReadsInv'
<1>1. /\ UNCHANGED <<setup, round, queue, user, graphs>> /\ AllDrained /\ at' = Idle
      /\ slots' = Lost(slots, d) /\ result' = Lost(result, d) /\ round \in Nat
  BY DEF AllocFails, Free, streams, MemoryLost, HeldInv, TypeInv
<1>2. scheds \in [setup.scheds -> SchedRec]
  BY DEF HeldInv, TypeInv
<1>3. scheds' = [scheds EXCEPT ![d] = [Advanced(d) EXCEPT !.alloc = FALSE]]
  BY DEF AllocFails
<1>4. CapturesInv'
  <2>1. scheds'[d].uid = scheds[d].uid /\ scheds'[d].alloc = FALSE
    <3>1. scheds[d] \in SchedRec
      BY <1>2
    <3>2. Advanced(d).uid = scheds[d].uid
      BY <3>1 DEF Advanced, SchedRec
    <3>3. [Advanced(d) EXCEPT !.alloc = FALSE].uid = Advanced(d).uid
          /\ [Advanced(d) EXCEPT !.alloc = FALSE].alloc = FALSE
      BY <3>1 DEF Advanced, SchedRec
    <3> QED
      BY <1>2, <1>3, <3>2, <3>3
  <2>2. \A e \in setup.scheds : e # d => scheds'[e] = scheds[e]
    BY <1>2, <1>3
  <2>3. \A e \in setup.scheds : scheds[e].uid \in 0 .. round
    BY <1>1, <1>2 DEF ReadsInv, CapturesInv, SchedRec
  <2> QED
    BY <1>1, <2>1, <2>2, <2>3, CapturesStand
<1> QED
  BY <1>1, <1>4, LostBounded, ReadsStand DEF ReadsInv, BoundInv

LEMMA SynchronizeReads ==
  ASSUME HeldInv, ReadsInv, Synchronize
  PROVE  ReadsInv'
<1>1. /\ UNCHANGED <<setup, round, queue, user, slots, result, graphs>> /\ AllDrained /\ at' = Idle
      /\ round \in Nat
  BY DEF Synchronize, streams, memory, HeldInv, TypeInv
<1>2. scheds \in [setup.scheds -> SchedRec]
  BY DEF HeldInv, TypeInv
<1>3. ASSUME NEW d \in setup.scheds
      PROVE  /\ scheds'[d].uid = scheds[d].uid /\ scheds'[d].alloc = scheds[d].alloc
             /\ scheds'[d].cur = scheds[d].cur /\ scheds'[d].place = scheds[d].place
             /\ scheds'[d].shape = scheds[d].shape /\ scheds[d].uid \in 0 .. round
  <2>1. scheds'[d] = [scheds[d] EXCEPT !.next = IF scheds[d].alloc THEN scheds[d].next ELSE 0]
    BY <1>2 DEF Synchronize
  <2>2. scheds[d] \in SchedRec
    BY <1>2
  <2>3. scheds[d].uid \in 0 .. round
    BY <1>1, <2>2 DEF ReadsInv, CapturesInv, SchedRec
  <2> QED
    BY <2>1, <2>2, <2>3 DEF SchedRec
<1>4. CapturesInv'
  BY <1>1, <1>3, CapturesStand
<1> QED
  BY <1>1, <1>4, ReadsStand DEF ReadsInv, BoundInv

LEMMA ReserveReads ==
  ASSUME HeldInv, ReadsInv, Reserve
  PROVE  ReadsInv'
<1>1. /\ UNCHANGED <<setup, round, queue, user, graphs>> /\ AllDrained /\ at' = Idle
      /\ slots' = Lost(slots, MainSched) /\ result' = Lost(result, MainSched) /\ round \in Nat
  BY DEF Reserve, streams, MemoryLost, HeldInv, TypeInv
<1>2. scheds \in [setup.scheds -> SchedRec] /\ MainSched \in setup.scheds
  BY SetupIs DEF HeldInv, TypeInv
<1>3. PICK place \in MayMove(MainSched) :
        scheds' = [scheds EXCEPT ![MainSched].next = 0, ![MainSched].alloc = FALSE,
                                 ![MainSched].place = place]
  BY DEF Reserve
<1>4. CapturesInv'
  <2>1. scheds'[MainSched].uid = scheds[MainSched].uid /\ scheds'[MainSched].alloc = FALSE
    BY <1>2, <1>3 DEF SchedRec
  <2>2. \A e \in setup.scheds : e # MainSched => scheds'[e] = scheds[e]
    BY <1>2, <1>3
  <2>3. \A e \in setup.scheds : scheds[e].uid \in 0 .. round
    BY <1>1, <1>2 DEF ReadsInv, CapturesInv, SchedRec
  <2> QED
    BY <1>1, <2>1, <2>2, <2>3, CapturesStand
<1> QED
  BY <1>1, <1>4, LostBounded, ReadsStand DEF ReadsInv, BoundInv

LEMMA SchedReserveReads ==
  ASSUME HeldInv, ReadsInv, SchedReserve
  PROVE  ReadsInv'
<1>1. /\ UNCHANGED <<setup, round, queue, graphs>> /\ AllDrained /\ at' = Idle /\ round \in Nat
      /\ user' = [k \in DOMAIN user |-> 0] /\ slots' = [k \in DOMAIN slots |-> 0]
      /\ result' = [k \in DOMAIN result |-> 0]
  BY DEF SchedReserve, HeldInv, TypeInv, Garbage
<1>2. DOMAIN scheds = setup.scheds
  BY DEF HeldInv, TypeInv
<1>3. PICK place \in MayMove(MainSched) : scheds' = [d \in DOMAIN scheds |-> [NewSched EXCEPT !.place = place]]
  BY DEF SchedReserve
<1>4. \A d \in setup.scheds : scheds'[d].uid = 0 /\ scheds'[d].alloc = FALSE
  BY <1>2, <1>3 DEF NewSched
<1>5. 0 \in 0 .. round
  BY <1>1
<1>6. CapturesInv'
  BY <1>1, <1>4, <1>5, CapturesStand
<1>7. /\ slots' \in [setup.scheds \X Copied \X AllCopies -> 0 .. round]
      /\ result' \in [SplitsOf -> 0 .. round] /\ user' \in [setup.scheds \X AllCopies -> Nat]
  BY <1>1, <1>5 DEF ReadsInv, BoundInv
<1> QED
  BY <1>1, <1>6, <1>7, ReadsStand

\* What is on its way stays as it is while the host takes up another graph or leaves this one.
LEMMA ComputesStand ==
  ASSUME HeldInv, ReadsInv, UNCHANGED <<setup, copies, queue>>, round' = round + 1 \/ at' = Idle,
         \/ AllDrained
         \/ /\ UNCHANGED <<slots, result>>
            /\ \A d \in setup.scheds : scheds'[d].place = scheds[d].place
  PROVE  ComputesInv'
<1> SUFFICES ASSUME NEW b \in Devices, NEW i \in DOMAIN queue[b], queue[b][i].op = "compute"
             PROVE  /\ SlotsOK(queue[b], b, i)' /\ DirectOK(queue[b], b, i)'
                    /\ PlacedOK(queue[b], i)' /\ EventsOK(queue[b], b, i)'
  BY DEF ComputesInv
<1>1. /\ UNCHANGED <<slots, result>> /\ \A d \in setup.scheds : scheds'[d].place = scheds[d].place
  BY DEF AllDrained, Drained
<1>2. Splits' = Splits /\ Plan' = Plan
  BY DEF Splits, Plan
<1>3. /\ SlotsOK(queue[b], b, i) /\ DirectOK(queue[b], b, i)
      /\ PlacedOK(queue[b], i) /\ EventsOK(queue[b], b, i)
  BY DEF ReadsInv, ComputesInv
<1>4. queue[b][i].sched \in setup.scheds
  BY DEF HeldInv, SentInv, SentOK
<1>5. SlotsOK(queue[b], b, i)' /\ DirectOK(queue[b], b, i)'
  BY <1>1, <1>2, <1>3 DEF SlotsOK, DirectOK
<1>6. PlacedOK(queue[b], i)'
  BY <1>1, <1>3, <1>4 DEF PlacedOK
<1>7. ~(at' # Idle /\ queue[b][i].value = round')
  <2>1. queue[b][i].value \in 0 .. round /\ round \in Nat
    BY DEF ReadsInv, BoundInv, HeldInv, TypeInv
  <2> QED
    BY <2>1
<1>8. EventsOK(queue[b], b, i)'
  BY <1>2, <1>3, <1>7 DEF EventsOK, Followed
<1> QED
  BY <1>5, <1>6, <1>8

\* A graph begins: the user's tensors are set for it, and nothing has been copied.
LEMMA GraphBegins ==
  ASSUME HeldInv, ReadsInv, NEW d \in setup.scheds, Begin(d), UNCHANGED <<setup, copies, queue>>,
         slots' \in [setup.scheds \X Copied \X AllCopies -> 0 .. round],
         result' \in [SplitsOf -> 0 .. round],
         NEW home \in AllCopies, NEW rotated, InputsSet(d, home, rotated),
         scheds'[d].built = home, scheds'[d].alloc,
         ComputesInv', CapturesInv'
  PROVE  ReadsInv'
<1>1. /\ round' = round + 1 /\ round \in Nat /\ Idle.ids = NotRead
      /\ at' = [Idle EXCEPT !.sched = d, !.split = 1, !.input = 1]
  BY DEF Begin, HeldInv, TypeInv, Idle
<1>2. at'.sched = d /\ at'.split = 1 /\ at'.input = 1 /\ at'.ids = NotRead
  BY <1>1 DEF Idle
<1>3. Copied' = Copied /\ AllCopies' = AllCopies /\ SplitsOf' = SplitsOf /\ Splits' = Splits
  BY DEF Copied, AllCopies, SplitsOf, Splits, Plan
<1>4. user \in [setup.scheds \X AllCopies -> Nat]
  BY DEF ReadsInv, BoundInv
<1>5. user' \in [setup.scheds \X AllCopies -> Nat] /\ user'[<<d, home>>] = round + 1
  BY <1>1, <1>4 DEF InputsSet
<1>6. BoundInv'
  <2>1. 0 .. round \subseteq 0 .. round'
    BY <1>1
  <2>2. /\ slots' \in [setup.scheds \X Copied \X AllCopies -> 0 .. round']
        /\ result' \in [SplitsOf -> 0 .. round']
    BY <2>1
  <2>3. \A b \in Devices : \A i \in DOMAIN queue[b] :
          LET o == queue[b][i]
          IN /\ o.op # "copy"
             /\ o.op \in {"set", "compute"} => o.value \in 0 .. round /\ o.to.slot \in AllCopies
             /\ o.op = "set" => o.split \in DOMAIN Splits /\ Splits[o.split].on = b
    BY DEF ReadsInv, BoundInv
  <2> QED
    BY <1>3, <1>5, <2>1, <2>2, <2>3 DEF BoundInv
<1>7. BegunInv'
  BY <1>1, <1>2, <1>5 DEF BegunInv, D, NotRead
<1>8. CopiedInv'
  <2>1. \A s \in 1 .. 1 : \A i \in DOMAIN Splits[s].inputs : ~(s < 1 \/ (s = 1 /\ i < 1))
    <3>1. 1 \in DOMAIN Splits /\ IsSeq(Splits[1].inputs)
      BY SetupIs DEF HeldInv, TypeInv
    <3>2. \A i \in DOMAIN Splits[1].inputs : i \in Nat /\ i >= 1
      BY <3>1, SequenceIs
    <3> QED
      BY <3>2
  <2> QED
    BY <1>2, <1>3, <2>1 DEF CopiedInv, Past
<1>9. MadeInv'
  BY <1>2 DEF MadeInv
<1>10. CopiedByHost(setup)'
  BY DEF ReadsInv, CopiedByHost
<1> QED
  BY <1>6, <1>7, <1>8, <1>9, <1>10 DEF ReadsInv

LEMMA RebuildReads ==
  ASSUME HeldInv, ReadsInv, NEW d \in setup.scheds, Rebuild(d)
  PROVE  ReadsInv'
<1>1. /\ UNCHANGED <<setup, copies, queue, graphs>> /\ Begin(d) /\ round' = round + 1
      /\ InputsSet(d, scheds[d].next, FALSE)
  BY DEF Rebuild, streams, Begin
<1>2. /\ scheds \in [setup.scheds -> SchedRec] /\ round \in Nat /\ copies \in 1 .. setup.copies
      /\ setup.copies \in Nat
  BY SetupIs DEF HeldInv, TypeInv
<1>3. PICK shape \in setup.shapes, place \in MayMove(d) :
        /\ scheds' = [scheds EXCEPT ![d] =
             [Advanced(d) EXCEPT !.alloc = TRUE, !.built = scheds[d].next, !.uid = round + 1,
                                 !.shape = shape, !.place = place]]
        /\ \/ place = scheds[d].place /\ UNCHANGED <<slots, result>>
           \/ AllDrained /\ MemoryLost(d)
  BY DEF Rebuild
<1>4. /\ scheds'[d].alloc /\ scheds'[d].built = scheds[d].next /\ scheds'[d].uid = round + 1
      /\ scheds'[d].place = place
      /\ \A e \in setup.scheds : e # d => scheds'[e] = scheds[e]
  <2>1. scheds[d] \in SchedRec
    BY <1>2
  <2> QED
    BY <1>2, <1>3, <2>1 DEF SchedRec, Advanced
<1>5. /\ slots \in [setup.scheds \X Copied \X AllCopies -> 0 .. round]
      /\ result \in [SplitsOf -> 0 .. round]
  BY DEF ReadsInv, BoundInv
<1>6. /\ slots' \in [setup.scheds \X Copied \X AllCopies -> 0 .. round]
      /\ result' \in [SplitsOf -> 0 .. round]
  BY <1>2, <1>3, <1>5, LostBounded DEF MemoryLost
<1>7. scheds[d].next \in AllCopies
  BY <1>2 DEF SchedRec, AllCopies
<1>8. ComputesInv'
  <2>1. CASE AllDrained
    BY <1>1, <2>1, ComputesStand
  <2>2. CASE place = scheds[d].place /\ UNCHANGED <<slots, result>>
    BY <1>1, <1>4, <2>2, ComputesStand
  <2> QED
    BY <1>3, <2>1, <2>2
<1>9. CapturesInv'
  <2>1. SplitsOf' = SplitsOf /\ Splits' = Splits
    BY <1>1 DEF SplitsOf, Splits, Plan
  <2>2. \A e \in setup.scheds : scheds[e].uid \in Nat /\ scheds[e].uid <= round
    BY <1>2 DEF ReadsInv, CapturesInv, SchedRec
  <2>3. \A e \in setup.scheds : scheds'[e].uid <= round + 1 /\ (scheds'[e].alloc => scheds'[e].uid > 0)
    <3>1. \A e \in setup.scheds : scheds[e].alloc => scheds[e].uid > 0
      BY DEF ReadsInv, CapturesInv
    <3> QED
      BY <1>2, <1>4, <2>2, <3>1
  <2>4. ASSUME setup.captures # {}, NEW k \in SplitsOf
        PROVE  /\ graphs[k].uid \in 0 .. round + 1
               /\ (graphs[k].warm => graphs[k].instance = graphs[k].props)
               /\ scheds'[k[1]].alloc /\ graphs[k].uid = scheds'[k[1]].uid =>
                    graphs[k].props = PropsOf(k[1], k[2])'
    <3>1. k[1] \in setup.scheds
      BY DEF SplitsOf
    <3>2. /\ graphs[k].uid \in 0 .. round /\ (graphs[k].warm => graphs[k].instance = graphs[k].props)
          /\ scheds[k[1]].alloc /\ graphs[k].uid = scheds[k[1]].uid =>
               graphs[k].props = PropsOf(k[1], k[2])
      BY <2>4 DEF ReadsInv, CapturesInv
    <3>3. CASE k[1] = d
      BY <1>2, <1>4, <3>2, <3>3
    <3>4. CASE k[1] # d
      <4>1. scheds'[k[1]] = scheds[k[1]]
        BY <1>4, <3>1, <3>4
      <4>2. PropsOf(k[1], k[2])' = PropsOf(k[1], k[2])
        BY <2>1, <4>1 DEF PropsOf
      <4> QED
        BY <1>2, <3>2, <4>1, <4>2
    <3> QED
      BY <3>3, <3>4
  <2>5. graphs' \in [SplitsOf' -> Kept']
    BY <1>1, <2>1 DEF ReadsInv, CapturesInv, Kept, Addresses
  <2> QED
    BY <1>1, <2>1, <2>3, <2>4, <2>5 DEF CapturesInv
<1> QED
  BY <1>1, <1>4, <1>6, <1>7, <1>8, <1>9, GraphBegins

LEMMA ReuseReads ==
  ASSUME HeldInv, ReadsInv, NEW d \in setup.scheds, Reuse(d)
  PROVE  ReadsInv'
<1> DEFINE rotated == setup.mode = "rotate" /\ copies > 1 /\ CanAdvance(d)
           new == NextNonzero(scheds[d].next)
<1>1. /\ UNCHANGED <<setup, copies, queue, slots, result, graphs>> /\ Begin(d) /\ round' = round + 1
      /\ InputsSet(d, scheds[d].built, rotated) /\ scheds[d].alloc
      /\ scheds' = IF rotated THEN [scheds EXCEPT ![d].cur = new, ![d].next = NextNonzero(new + 1)]
                   ELSE scheds
  BY DEF Reuse, streams, Begin
<1>2. scheds \in [setup.scheds -> SchedRec] /\ round \in Nat
  BY DEF HeldInv, TypeInv
<1> HIDE DEF rotated, new
<1>3. ASSUME NEW e \in setup.scheds
      PROVE  /\ scheds'[e].alloc = scheds[e].alloc /\ scheds'[e].built = scheds[e].built
             /\ scheds'[e].uid = scheds[e].uid /\ scheds'[e].place = scheds[e].place
             /\ scheds'[e].shape = scheds[e].shape
  <2>1. scheds[e] \in SchedRec
    BY <1>2
  <2>2. CASE ~rotated
    BY <1>1, <2>2
  <2>3. CASE rotated
    BY <1>1, <1>2, <2>1, <2>3 DEF SchedRec
  <2> QED
    BY <2>2, <2>3
<1>4. /\ slots' \in [setup.scheds \X Copied \X AllCopies -> 0 .. round]
      /\ result' \in [SplitsOf -> 0 .. round]
  BY <1>1 DEF ReadsInv, BoundInv
<1>5. ComputesInv'
  BY <1>1, <1>3, ComputesStand
<1>6. CapturesInv'
  <2>1. SplitsOf' = SplitsOf /\ Splits' = Splits
    BY <1>1 DEF SplitsOf, Splits, Plan
  <2>2. \A e \in setup.scheds : /\ scheds[e].uid \in Nat /\ scheds[e].uid <= round
                               /\ (scheds[e].alloc => scheds[e].uid > 0)
    BY <1>2 DEF ReadsInv, CapturesInv, SchedRec
  <2>3. \A e \in setup.scheds : scheds'[e].uid <= round + 1 /\ (scheds'[e].alloc => scheds'[e].uid > 0)
    BY <1>2, <1>3, <2>2
  <2>4. ASSUME setup.captures # {}, NEW k \in SplitsOf
        PROVE  /\ graphs[k].uid \in 0 .. round + 1
               /\ (graphs[k].warm => graphs[k].instance = graphs[k].props)
               /\ scheds'[k[1]].alloc /\ graphs[k].uid = scheds'[k[1]].uid =>
                    graphs[k].props = PropsOf(k[1], k[2])'
    <3>1. ~rotated
      BY <2>4 DEF rotated, ReadsInv, CopiedByHost
    <3>2. scheds' = scheds
      BY <1>1, <3>1
    <3>3. PropsOf(k[1], k[2])' = PropsOf(k[1], k[2])
      BY <2>1, <3>2 DEF PropsOf
    <3>4. /\ graphs[k].uid \in 0 .. round /\ (graphs[k].warm => graphs[k].instance = graphs[k].props)
          /\ scheds[k[1]].alloc /\ graphs[k].uid = scheds[k[1]].uid =>
               graphs[k].props = PropsOf(k[1], k[2])
      BY <2>4 DEF ReadsInv, CapturesInv
    <3> QED
      BY <1>2, <3>2, <3>3, <3>4
  <2>5. graphs' \in [SplitsOf' -> Kept']
    BY <1>1, <2>1 DEF ReadsInv, CapturesInv, Kept, Addresses
  <2> QED
    BY <1>1, <2>1, <2>3, <2>4, <2>5 DEF CapturesInv
<1>7. scheds[d].built \in AllCopies
  BY <1>2 DEF SchedRec
<1> QED
  BY <1>1, <1>3, <1>4, <1>5, <1>6, <1>7, GraphBegins

\* What neither the host's place nor the events are part of stays.
LEMMA RestStands ==
  ASSUME ReadsInv, UNCHANGED <<setup, round, copies, scheds, user, slots, result, queue, graphs>>
  PROVE  BoundInv' /\ CapturesInv' /\ CopiedByHost(setup)'
<1>1. SplitsOf' = SplitsOf /\ Splits' = Splits /\ Copied' = Copied /\ AllCopies' = AllCopies
  BY DEF SplitsOf, Splits, Plan, Copied, AllCopies
<1>2. BoundInv'
  BY <1>1 DEF ReadsInv, BoundInv
<1>3. \A d, s : PropsOf(d, s)' = PropsOf(d, s)
  BY <1>1 DEF PropsOf
<1>4. CapturesInv'
  BY <1>1, <1>3 DEF ReadsInv, CapturesInv, Kept, Addresses
<1>5. CopiedByHost(setup)'
  BY DEF ReadsInv, CopiedByHost
<1> QED
  BY <1>2, <1>4, <1>5

\* Nothing but the place of the host changes.
LEMMA FailsReads ==
  ASSUME HeldInv, ReadsInv, ComputeFails
  PROVE  ReadsInv'
<1>1. /\ UNCHANGED <<setup, round, copies, scheds, user, slots, result, queue, graphs>> /\ at' = Idle
  BY DEF ComputeFails, host, memory, streams
<1>2. ComputesInv'
  BY <1>1, ComputesStand
<1>3. BoundInv' /\ CapturesInv' /\ CopiedByHost(setup)'
  BY <1>1, RestStands
<1> QED
  BY <1>1, <1>2, <1>3 DEF ReadsInv, BegunInv, CopiedInv, MadeInv

LEMMA WaitsReads ==
  ASSUME HeldInv, ReadsInv, UNCHANGED vars
  PROVE  ReadsInv'
<1>1. UNCHANGED <<setup, round, copies, scheds, at, user, slots, result, queue, graphs>>
  BY DEF vars, host, memory, streams
<1>2. D' = D /\ Cur' = Cur /\ Splits' = Splits /\ Plan' = Plan
  BY <1>1 DEF D, Cur, Splits, Plan
<1>3. BoundInv' /\ CapturesInv' /\ CopiedByHost(setup)'
  BY <1>1, RestStands
<1>4. ComputesInv'
  BY <1>1, <1>2 DEF ReadsInv, ComputesInv, SlotsOK, DirectOK, PlacedOK, EventsOK, Followed
<1>5. BegunInv' /\ CopiedInv' /\ MadeInv'
  BY <1>1, <1>2 DEF ReadsInv, BegunInv, CopiedInv, MadeInv, Past, QueueLen
<1> QED
  BY <1>3, <1>4, <1>5 DEF ReadsInv

\* A split of the graph under way, on a device that has done its work or the CPU, has its result.
LEMMA MadeHere ==
  ASSUME HeldInv, ReadsInv, at # Idle, NEW s \in 1 .. at.split - 1, Drained(Splits[s].on)
  PROVE  result[<<D, s>>] = round
<1>1. Splits[s].on \in Devices \cup {Cpu} /\ Cpu \notin Devices
  <2>1. at.split \in DOMAIN Splits /\ DOMAIN Splits = 1 .. Len(Splits) /\ Len(Splits) \in Nat
    BY GraphUnderWay, SetupIs DEF HeldInv, TypeInv
  <2>2. s \in DOMAIN Splits
    BY <2>1
  <2> QED
    BY <2>2, SetupIs DEF HeldInv, TypeInv
<1>2. QueueLen(Splits[s].on) = 0
  BY <1>1, ShortSequences DEF QueueLen, Drained
<1>3. Made(result[<<D, s>>], queue[Splits[s].on], 0, D, s, round)
  BY <1>2 DEF ReadsInv, MadeInv
<1> QED
  BY <1>3 DEF Made

\* A copy of the graph under way is there once the device that holds it has done its work.
LEMMA CopiedHere ==
  ASSUME HeldInv, ReadsInv, at # Idle, NEW s \in 1 .. at.split, NEW i \in DOMAIN Splits[s].inputs,
         Past(s, i), Drained(Splits[s].on)
  PROVE  slots[<<D, <<Splits[s].on, Splits[s].inputs[i]>>, Cur>>] = round
<1>1. Splits[s].on \in Devices \cup {Cpu} /\ Cpu \notin Devices
  <2>1. at.split \in DOMAIN Splits /\ DOMAIN Splits = 1 .. Len(Splits) /\ Len(Splits) \in Nat
    BY GraphUnderWay, SetupIs DEF HeldInv, TypeInv
  <2>2. s \in DOMAIN Splits
    BY <2>1
  <2> QED
    BY <2>2, SetupIs DEF HeldInv, TypeInv
<1>2. QueueLen(Splits[s].on) = 0
  BY <1>1, ShortSequences DEF QueueLen, Drained
<1>3. Held(slots[<<D, <<Splits[s].on, Splits[s].inputs[i]>>, Cur>>], queue[Splits[s].on], 0,
           D, Splits[s].inputs[i], Cur, round)
  BY <1>2 DEF ReadsInv, CopiedInv
<1> QED
  BY <1>3 DEF Held

\* The split reads copies that are past, once it has copied its inputs.
LEMMA InputsCopied ==
  ASSUME HeldInv, ReadsInv, at # Idle, NEW t \in Split.copied,
         ~CopiesInput \/ \A i \in at.input .. Len(Split.inputs) : Split.inputs[i] # t
  PROVE  \E r \in 1 .. at.split : /\ r \in DOMAIN Splits /\ Splits[r].on = B
                                  /\ \E i \in DOMAIN Splits[r].inputs : Splits[r].inputs[i] = t /\ Past(r, i)
<1>1. /\ at.split \in DOMAIN Splits /\ IsSeq(Split.inputs) /\ setup \in Setups
      /\ at.input \in 1 .. Len(Split.inputs) + 1 /\ Len(Split.inputs) \in Nat
      /\ DOMAIN Split.inputs = 1 .. Len(Split.inputs) /\ at.split \in Nat
  <2>1. at.split \in DOMAIN Splits /\ IsSeq(Split.inputs) /\ setup \in Setups
        /\ at.input \in 1 .. Len(Split.inputs) + 1
    BY GraphUnderWay DEF HeldInv, TypeInv
  <2>2. DOMAIN Splits = 1 .. Len(Splits)
    BY <2>1, SetupIs
  <2> QED
    BY <2>1, <2>2, SequenceIs
<1>2. PICK r \in 1 .. at.split : r \in DOMAIN Splits /\ Splits[r].on = B /\ t \in Range(Splits[r].inputs)
  BY <1>1, PlanIs DEF Split, B
<1>3. PICK i \in DOMAIN Splits[r].inputs : Splits[r].inputs[i] = t
  BY <1>2 DEF Range
<1>4. Past(r, i)
  <2>1. CASE r = at.split
    <3>1. i \in 1 .. Len(Split.inputs) /\ Split.inputs[i] = t
      BY <1>1, <1>3, <2>1 DEF Split
    <3>2. i < at.input
      BY <1>1, <3>1 DEF CopiesInput
    <3> QED
      BY <2>1, <3>2 DEF Past
  <2>2. CASE r # at.split
    BY <1>1, <1>2, <2>2 DEF Past
  <2> QED
    BY <2>1, <2>2
<1> QED
  BY <1>2, <1>3, <1>4

\* The experts that the host reads are those of this graph's tokens.
LEMMA IdsAreRead ==
  ASSUME HeldInv, ReadsInv, CopiesMade, OfExperts
  PROVE  IdsRead.value = round
<1>1. /\ at # Idle /\ D \in setup.scheds /\ at.split \in DOMAIN Splits /\ IsSeq(Split.inputs)
      /\ at.input \in 1 .. Len(Split.inputs) /\ Len(Split.inputs) \in Nat
      /\ setup \in Setups /\ DOMAIN Split.inputs = 1 .. Len(Split.inputs)
  BY GraphUnderWay, SequenceIs DEF CopiesMade, CopiesInput, HeldInv, TypeInv
<1>2. Tensor \in Range(Split.inputs)
  BY <1>1 DEF Tensor, Range
<1>3. /\ Split.experts.weights # NoTensor
      /\ IdsTensor \in Split.copied \cup Split.direct
      /\ IdsTensor # NoTensor /\ IdsTensor # Tensor
  BY <1>1, <1>2, PlanIs DEF OfExperts, Split, IdsTensor
<1>4. CASE IdsKnown
  <2>1. at.ids.value = round
    BY <1>1, <1>3, <1>4 DEF IdsKnown, ReadsInv, BegunInv
  <2> QED
    BY <1>4, <2>1 DEF IdsRead
<1>5. CASE ~IdsKnown /\ IdsCopied
  <2>1. Drained(B) /\ ~IdsLater /\ IdsTensor \in Split.copied
    BY <1>5 DEF CopiesMade, ReadsIds, IdsBackend, IdsCopied
  <2>2. \A i \in at.input .. Len(Split.inputs) : Split.inputs[i] # IdsTensor
    <3>1. \A i \in at.input .. Len(Split.inputs) : i = at.input \/ i \in at.input + 1 .. Len(Split.inputs)
      BY <1>1
    <3> QED
      BY <1>3, <2>1, <3>1 DEF IdsLater, Tensor
  <2>3. PICK r \in 1 .. at.split :
          /\ r \in DOMAIN Splits /\ Splits[r].on = B
          /\ \E i \in DOMAIN Splits[r].inputs : Splits[r].inputs[i] = IdsTensor /\ Past(r, i)
    BY <1>1, <2>1, <2>2, InputsCopied
  <2>4. PICK i \in DOMAIN Splits[r].inputs : Splits[r].inputs[i] = IdsTensor /\ Past(r, i)
    BY <2>3
  <2>5. slots[<<D, <<B, IdsTensor>>, Cur>>] = round
    BY <1>1, <2>1, <2>3, <2>4, CopiedHere
  <2>6. Current(B, IdsTensor) = <<D, <<B, IdsTensor>>, Cur>>
    BY DEF Current, Place, ReadsInv, CopiedByHost
  <2> QED
    BY <1>5, <2>5, <2>6 DEF IdsRead
<1>6. CASE ~IdsKnown /\ ~IdsCopied /\ IdsTensor \in Plan.user
  BY <1>1, <1>6 DEF IdsRead, ReadsInv, BegunInv
<1>7. CASE ~IdsKnown /\ ~IdsCopied /\ IdsTensor \notin Plan.user
  <2>1. Drained(IdsBackend)
    BY <1>7 DEF CopiesMade, ReadsIds
  <2>2. CASE Plan.maker[IdsTensor] = 0
    BY <1>7, <2>2 DEF IdsRead, Holds
  <2>3. CASE Plan.maker[IdsTensor] # 0
    <3>1. Plan.maker[IdsTensor] \in 1 .. at.split - 1 /\ Splits[Plan.maker[IdsTensor]].on = IdsBackend
      <4>1. CASE IdsLater
        <5>1. IdsTensor \in Range(Split.inputs)
          BY <1>1, <4>1 DEF IdsLater, Range
        <5> QED
          BY <1>1, <1>7, <2>3, <4>1, <5>1, PlanIs DEF Split, IdsBackend
      <4>2. CASE ~IdsLater
        <5>1. IdsTensor \in Split.direct
          BY <1>3, <1>7, <4>2 DEF IdsCopied
        <5> QED
          BY <1>1, <1>7, <2>3, <4>2, <5>1, PlanIs DEF Split, IdsBackend, B
      <4> QED
        BY <4>1, <4>2
    <3>2. result[<<D, Plan.maker[IdsTensor]>>] = round
      BY <1>1, <2>1, <3>1, MadeHere
    <3> QED
      BY <1>7, <2>3, <3>2 DEF IdsRead, Holds
  <2> QED
    BY <2>2, <2>3
<1> QED
  BY <1>4, <1>5, <1>6, <1>7

\* While a graph copies its inputs, what is added to a stream copies experts for this graph.
Added(o, b) ==
  /\ o.op \notin {"copy", "compute", "record"}
  /\ o.op = "set" => o.value = round /\ o.to.slot \in AllCopies /\ o.split \in DOMAIN Splits /\ Splits[o.split].on = b
Grown(b) ==
  /\ IsSeq(queue'[b])
  /\ \A i \in DOMAIN queue[b] : i \in DOMAIN queue'[b] /\ queue'[b][i] = queue[b][i]
  /\ \A i \in DOMAIN queue'[b] : i \in DOMAIN queue[b] \/ Added(queue'[b][i], b)

LEMMA GrownSame ==
  ASSUME NEW b, IsSeq(queue[b]), queue'[b] = queue[b]
  PROVE  Grown(b)
BY DEF Grown

LEMMA GrownBy ==
  ASSUME NEW b, NEW r, IsSeq(queue[b]), IsSeq(r), queue'[b] = queue[b] \o r,
         \A i \in 1 .. Len(r) : Added(r[i], b)
  PROVE  Grown(b) /\ DOMAIN queue'[b] = 1 .. Len(queue[b]) + Len(r)
<1>1. /\ IsSeq(queue'[b]) /\ DOMAIN queue'[b] = 1 .. Len(queue[b]) + Len(r)
      /\ \A i \in 1 .. Len(queue[b]) : queue'[b][i] = queue[b][i]
      /\ \A i \in 1 .. Len(r) : queue'[b][Len(queue[b]) + i] = r[i]
  BY Concatenated
<1>2. Len(queue[b]) \in Nat /\ DOMAIN queue[b] = 1 .. Len(queue[b]) /\ Len(r) \in Nat
  BY SequenceIs
<1>3. \A i \in DOMAIN queue[b] : i \in DOMAIN queue'[b] /\ queue'[b][i] = queue[b][i]
  BY <1>1, <1>2
<1>4. ASSUME NEW i \in DOMAIN queue'[b], i \notin DOMAIN queue[b]
      PROVE  Added(queue'[b][i], b)
  <2>1. i - Len(queue[b]) \in 1 .. Len(r) /\ i = Len(queue[b]) + (i - Len(queue[b]))
    BY <1>1, <1>2, <1>4
  <2>2. queue'[b][i] = r[i - Len(queue[b])]
    BY <1>1, <2>1
  <2> QED
    BY <2>1, <2>2
<1> QED
  BY <1>1, <1>3, <1>4 DEF Grown

LEMMA GrownIs ==
  ASSUME NEW b, IsSeq(queue[b]), Grown(b)
  PROVE  /\ Len(queue[b]) \in Nat /\ Len(queue'[b]) \in Nat /\ Len(queue[b]) <= Len(queue'[b])
         /\ DOMAIN queue[b] = 1 .. Len(queue[b]) /\ DOMAIN queue'[b] = 1 .. Len(queue'[b])
         /\ \A i \in 1 .. Len(queue[b]) : queue'[b][i] = queue[b][i]
         /\ \A i \in Len(queue[b]) + 1 .. Len(queue'[b]) : Added(queue'[b][i], b)
<1>1. /\ Len(queue[b]) \in Nat /\ Len(queue'[b]) \in Nat
      /\ DOMAIN queue[b] = 1 .. Len(queue[b]) /\ DOMAIN queue'[b] = 1 .. Len(queue'[b])
  BY SequenceIs DEF Grown
<1>2. Len(queue[b]) <= Len(queue'[b])
  <2>1. CASE Len(queue[b]) = 0
    BY <1>1, <2>1
  <2>2. CASE Len(queue[b]) # 0
    <3>1. Len(queue[b]) \in DOMAIN queue[b]
      BY <1>1, <2>2
    <3>2. Len(queue[b]) \in 1 .. Len(queue'[b])
      BY <1>1, <3>1 DEF Grown
    <3> QED
      BY <1>1, <3>2
  <2> QED
    BY <2>1, <2>2
<1>3. \A i \in Len(queue[b]) + 1 .. Len(queue'[b]) : i \in 1 .. Len(queue'[b]) /\ i \notin 1 .. Len(queue[b])
  BY <1>1
<1> QED
  BY <1>1, <1>2, <1>3 DEF Grown

\* What is held or made at the end of a stream is so when the stream has grown.
LEMMA GrownHeld ==
  ASSUME HeldInv, ReadsInv, NEW b \in Devices \cup {Cpu}, \A e \in Devices : Grown(e),
         NEW t, NEW v, Held(v, queue[b], QueueLen(b), D, t, Cur, round)
  PROVE  Held(v, queue'[b], QueueLen(b)', D, t, Cur, round)
<1>1. round \in Nat /\ Cpu \notin Devices /\ \A e \in Devices : IsSeq(queue[e])
  BY SetupIs DEF HeldInv, TypeInv
<1>2. CASE b = Cpu
  <2>1. QueueLen(b) = 0 /\ QueueLen(b)' = 0
    BY <1>2 DEF QueueLen
  <2> QED
    BY <2>1 DEF Held
<1>3. CASE b \in Devices
  <2>1. QueueLen(b) = Len(queue[b]) /\ QueueLen(b)' = Len(queue'[b])
    BY <1>1, <1>3 DEF QueueLen
  <2>2. /\ Len(queue[b]) \in Nat /\ Len(queue'[b]) \in Nat /\ Len(queue[b]) <= Len(queue'[b])
        /\ \A i \in 1 .. Len(queue[b]) : queue'[b][i] = queue[b][i]
        /\ \A i \in Len(queue[b]) + 1 .. Len(queue'[b]) : Added(queue'[b][i], b)
    BY <1>1, <1>3, GrownIs
  <2>3. \A i \in Len(queue[b]) + 1 .. Len(queue'[b]) :
          Sets(queue'[b][i], D, t, Cur) => queue'[b][i].value = round
    BY <2>2 DEF Added, Sets
  <2> QED
    BY <1>1, <2>1, <2>2, <2>3, HeldLonger
<1> QED
  BY <1>2, <1>3

LEMMA GrownMade ==
  ASSUME HeldInv, ReadsInv, NEW b \in Devices \cup {Cpu}, \A e \in Devices : Grown(e),
         NEW s, NEW v, Made(v, queue[b], QueueLen(b), D, s, round)
  PROVE  Made(v, queue'[b], QueueLen(b)', D, s, round)
<1>1. round \in Nat /\ Cpu \notin Devices /\ \A e \in Devices : IsSeq(queue[e])
  BY SetupIs DEF HeldInv, TypeInv
<1>2. CASE b = Cpu
  <2>1. QueueLen(b) = 0 /\ QueueLen(b)' = 0
    BY <1>2 DEF QueueLen
  <2> QED
    BY <2>1 DEF Made
<1>3. CASE b \in Devices
  <2>1. QueueLen(b) = Len(queue[b]) /\ QueueLen(b)' = Len(queue'[b])
    BY <1>1, <1>3 DEF QueueLen
  <2>2. /\ Len(queue[b]) \in Nat /\ Len(queue'[b]) \in Nat /\ Len(queue[b]) <= Len(queue'[b])
        /\ \A i \in 1 .. Len(queue[b]) : queue'[b][i] = queue[b][i]
        /\ \A i \in Len(queue[b]) + 1 .. Len(queue'[b]) : Added(queue'[b][i], b)
    BY <1>1, <1>3, GrownIs
  <2>3. \A i \in Len(queue[b]) + 1 .. Len(queue'[b]) : ~Computes(queue'[b][i], D, s)
    BY <2>2 DEF Added, Computes
  <2> QED
    BY <1>1, <2>1, <2>2, <2>3, MadeLonger
<1> QED
  BY <1>2, <1>3

\* No computation on its way reads the slot in use on the split's device.
Unread ==
  \A i \in DOMAIN queue[B] :
    LET o == queue[B][i]
    IN o.op = "compute" /\ o.sched = D /\ Splits[o.split].copied # {} => o.to.slot # Cur

\* The host goes on to the next input: it was copied, or will be.
LEMMA NextInputReads ==
  ASSUME HeldInv, ReadsInv, CopiesInput, NextInput,
         UNCHANGED <<setup, round, copies, scheds, user, result, graphs>>,
         \A e \in Devices : Grown(e),
         \/ slots' = slots
         \/ /\ slots' = [slots EXCEPT ![<<D, <<B, Tensor>>, Cur>>] = round]
            /\ B \in Devices => Unread,
         \/ slots'[<<D, <<B, Tensor>>, Cur>>] = round
         \/ /\ B \in Devices
            /\ \E j \in DOMAIN queue'[B] : Sets(queue'[B][j], D, Tensor, Cur) /\ queue'[B][j].value = round,
         OfExperts => IdsRead.value = round
  PROVE  ReadsInv'
<1> DEFINE key == <<D, <<B, Tensor>>, Cur>>
<1>1. /\ at # Idle /\ D \in setup.scheds /\ at.split \in DOMAIN Splits /\ IsSeq(Split.inputs)
      /\ at.input \in 1 .. Len(Split.inputs) /\ Len(Split.inputs) \in Nat
      /\ setup \in Setups /\ DOMAIN Split.inputs = 1 .. Len(Split.inputs)
      /\ Cur \in 0 .. copies - 1 /\ round \in Nat /\ copies \in 1 .. setup.copies /\ setup.copies \in Nat
  BY GraphUnderWay, SequenceIs, SetupIs DEF CopiesInput, HeldInv, TypeInv
<1>2. Splits' = Splits /\ Plan' = Plan /\ AllCopies' = AllCopies /\ Copied' = Copied /\ SplitsOf' = SplitsOf
  BY DEF Splits, Plan, AllCopies, Copied, SplitsOf
<1>3. PICK ids : at' = [at EXCEPT !.input = at.input + 1, !.ids = ids]
                 /\ ids = IF OfExperts THEN IdsRead ELSE at.ids
  BY DEF NextInput
<1>4. at'.sched = at.sched /\ at'.split = at.split /\ at'.input = at.input + 1 /\ at'.ids = ids
  <2>1. at = [sched |-> at.sched, split |-> at.split, input |-> at.input, ids |-> at.ids]
    BY <1>1 DEF HeldInv, TypeInv
  <2> QED
    BY <1>3, <2>1
<1>5. D' = D /\ Cur' = Cur
  BY <1>4 DEF D, Cur
<1>6. \A b \in Devices :
        /\ IsSeq(queue[b]) /\ Len(queue[b]) \in Nat /\ Len(queue'[b]) \in Nat
        /\ Len(queue[b]) <= Len(queue'[b])
        /\ DOMAIN queue[b] = 1 .. Len(queue[b]) /\ DOMAIN queue'[b] = 1 .. Len(queue'[b])
        /\ \A i \in 1 .. Len(queue[b]) : queue'[b][i] = queue[b][i]
        /\ \A i \in Len(queue[b]) + 1 .. Len(queue'[b]) : Added(queue'[b][i], b)
  BY GrownIs DEF HeldInv, TypeInv
<1>7. /\ slots \in [setup.scheds \X Copied \X AllCopies -> 0 .. round]
      /\ key \in setup.scheds \X Copied \X AllCopies
  <2>1. slots \in [setup.scheds \X Copied \X AllCopies -> 0 .. round]
    BY DEF ReadsInv, BoundInv
  <2>2. Tensor \in Range(Splits[at.split].inputs)
    BY <1>1 DEF Tensor, Split, Range
  <2>3. <<B, Tensor>> \in Copied
    BY <1>1, <2>2 DEF Copied, B, Split
  <2>4. Cur \in AllCopies
    BY <1>1 DEF AllCopies
  <2> QED
    BY <1>1, <2>1, <2>3, <2>4
<1> HIDE DEF key
<1>8. slots' = slots \/ slots' = [slots EXCEPT ![key] = round]
  BY DEF key
<1>9. slots' \in [setup.scheds \X Copied \X AllCopies -> 0 .. round]
  <2>1. round \in 0 .. round
    BY <1>1
  <2> QED
    BY <1>7, <1>8, <2>1
<1>10. BoundInv'
  <2>1. ASSUME NEW b \in Devices, NEW i \in DOMAIN queue'[b]
        PROVE  /\ queue'[b][i].op # "copy"
               /\ queue'[b][i].op \in {"set", "compute"} =>
                    queue'[b][i].value \in 0 .. round /\ queue'[b][i].to.slot \in AllCopies
               /\ queue'[b][i].op = "set" =>
                    queue'[b][i].split \in DOMAIN Splits /\ Splits[queue'[b][i].split].on = b
    <3>1. CASE i \in DOMAIN queue[b]
      <4>1. queue'[b][i] = queue[b][i]
        BY <1>6, <3>1
      <4> QED
        BY <3>1, <4>1 DEF ReadsInv, BoundInv
    <3>2. CASE i \notin DOMAIN queue[b]
      <4>1. Added(queue'[b][i], b)
        BY <3>2 DEF Grown
      <4> QED
        BY <1>1, <4>1 DEF Added
    <3> QED
      BY <3>1, <3>2
  <2> QED
    BY <1>2, <1>9, <2>1 DEF ReadsInv, BoundInv
<1>11. ComputesInv'
  <2> SUFFICES ASSUME NEW b \in Devices, NEW i \in DOMAIN queue'[b], queue'[b][i].op = "compute"
               PROVE  /\ SlotsOK(queue[b], b, i)' /\ DirectOK(queue[b], b, i)'
                      /\ PlacedOK(queue[b], i)' /\ EventsOK(queue[b], b, i)'
    BY DEF ComputesInv
  <2>1. i \in DOMAIN queue[b]
    BY DEF Grown, Added
  <2>2. PICK o : o = queue[b][i] /\ queue'[b][i] = o
    BY <1>6, <2>1
  <2>3. i \in 1 .. Len(queue[b]) /\ i \in Nat /\ i - 1 \in Nat /\ \A j \in 1 .. i - 1 : queue'[b][j] = queue[b][j]
    BY <1>6, <2>1
  <2>4. /\ SlotsOK(queue[b], b, i) /\ DirectOK(queue[b], b, i)
        /\ PlacedOK(queue[b], i) /\ EventsOK(queue[b], b, i)
    BY <2>1, <2>2 DEF ReadsInv, ComputesInv
  <2>5. o.sched \in setup.scheds /\ o.split \in DOMAIN Splits /\ Splits[o.split].on = b
    BY <2>1, <2>2 DEF HeldInv, SentInv, SentOK
  <2>6. o.to.slot \in AllCopies /\ o.value \in 0 .. round
    BY <2>1, <2>2 DEF ReadsInv, BoundInv
  <2>7. SlotsOK(queue[b], b, i)'
    <3> SUFFICES ASSUME NEW t \in Splits[o.split].copied
                 PROVE  Held(slots'[<<o.sched, <<b, t>>, o.to.slot>>], queue'[b], i - 1,
                             o.sched, t, o.to.slot, o.value)
      BY <1>2, <2>2 DEF SlotsOK
    <3> DEFINE k == <<o.sched, <<b, t>>, o.to.slot>>
    <3>1. Held(slots[k], queue[b], i - 1, o.sched, t, o.to.slot, o.value)
      BY <2>2, <2>4 DEF SlotsOK
    <3>2. slots'[k] = slots[k]
      <4>1. k \in setup.scheds \X Copied \X AllCopies
        <5>1. PICK s \in 1 .. o.split : s \in DOMAIN Splits /\ Splits[s].on = b /\ t \in Range(Splits[s].inputs)
          BY <1>1, <2>5, PlanIs
        <5>2. <<b, t>> \in Copied
          BY <5>1 DEF Copied
        <5> QED
          BY <2>5, <2>6, <5>2
      <4>2. slots' = slots \/ k # key
        BY <2>1, <2>2 DEF key, Unread
      <4> QED
        BY <1>7, <1>8, <4>1, <4>2
    <3>3. Held(slots[k], queue'[b], i - 1, o.sched, t, o.to.slot, o.value)
      <4>1. o.value \in Nat
        BY <2>6
      <4> QED
        BY <2>3, <3>1, <4>1, HeldLonger
    <3> QED
      BY <3>2, <3>3
  <2>8. DirectOK(queue[b], b, i)'
    <3> SUFFICES ASSUME NEW t \in Splits[o.split].direct, Plan.maker[t] # 0
                 PROVE  Made(result[<<o.sched, Plan.maker[t]>>], queue'[b], i - 1,
                             o.sched, Plan.maker[t], o.value)
      BY <1>2, <2>2 DEF DirectOK
    <3>1. Made(result[<<o.sched, Plan.maker[t]>>], queue[b], i - 1, o.sched, Plan.maker[t], o.value)
      BY <2>2, <2>4 DEF DirectOK
    <3> QED
      BY <2>3, <3>1, MadeLonger
  <2>9. PlacedOK(queue[b], i)'
    BY <2>2, <2>4 DEF PlacedOK
  <2>10. ASSUME NEW c, Followed(queue[b], b, i, c)
         PROVE  Followed(queue[b], b, i, c)'
    <3>1. i + 1 \in 1 .. Len(queue[b]) /\ i + 1 \in 1 .. Len(queue'[b])
      BY <1>6, <2>3, <2>10 DEF Followed
    <3>2. queue'[b][i + 1] = queue[b][i + 1]
      BY <1>6, <3>1
    <3> QED
      BY <1>6, <2>2, <2>10, <3>1, <3>2 DEF Followed
  <2>11. EventsOK(queue[b], b, i)'
    BY <1>1, <1>2, <1>5, <2>2, <2>4, <2>10 DEF EventsOK
  <2> QED
    BY <2>7, <2>8, <2>9, <2>11
<1>12. BegunInv'
  <2>1. user[<<D, scheds[D].built>>] = round /\ scheds[D].alloc
        /\ (at.ids.tensor # NoTensor => at.ids.value = round)
    BY <1>1 DEF ReadsInv, BegunInv
  <2>2. at'.ids.tensor # NoTensor => at'.ids.value = round
    BY <1>3, <1>4, <2>1
  <2> QED
    BY <1>5, <2>1, <2>2 DEF BegunInv
<1>13. CopiedInv'
  <2> SUFFICES ASSUME NEW s \in 1 .. at.split, NEW i \in DOMAIN Splits[s].inputs, Past(s, i)',
                      NEW b, b = Splits[s].on, NEW t, t = Splits[s].inputs[i]
               PROVE  Held(slots'[<<D, <<b, t>>, Cur>>], queue'[b], QueueLen(b)', D, t, Cur, round)
    BY <1>2, <1>4, <1>5 DEF CopiedInv, QueueLen
  <2> DEFINE k == <<D, <<b, t>>, Cur>>
  <2>1. s \in DOMAIN Splits /\ b \in Devices \cup {Cpu} /\ Cpu \notin Devices /\ IsSeq(Splits[s].inputs)
    <3>1. DOMAIN Splits = 1 .. Len(Splits) /\ Len(Splits) \in Nat
      BY <1>1, SetupIs
    <3>2. s \in DOMAIN Splits
      BY <1>1, <3>1
    <3> QED
      BY <1>1, <3>2, SetupIs
  <2>2. k \in setup.scheds \X Copied \X AllCopies
    <3>1. <<b, t>> \in Copied
      BY <2>1 DEF Copied, Range
    <3>2. Cur \in AllCopies
      BY <1>1 DEF AllCopies
    <3> QED
      BY <1>1, <3>1, <3>2
  <2>3. slots'[k] \in 0 .. round
    BY <1>9, <2>2
  <2>4. CASE k = key
    <3>1. b = B /\ t = Tensor
      BY <2>4 DEF key
    <3>2. \A j \in 1 .. QueueLen(b)' : Sets(queue'[b][j], D, t, Cur) => queue'[b][j].value <= round
      <4>1. CASE b = Cpu
        BY <4>1 DEF QueueLen
      <4>2. CASE b # Cpu
        <5>1. b \in Devices /\ QueueLen(b)' = Len(queue'[b]) /\ DOMAIN queue'[b] = 1 .. Len(queue'[b])
          BY <1>6, <2>1, <4>2 DEF QueueLen
        <5>2. \A j \in DOMAIN queue'[b] : queue'[b][j].op = "set" => queue'[b][j].value \in 0 .. round
          BY <1>10, <5>1 DEF BoundInv
        <5> QED
          BY <1>1, <5>1, <5>2 DEF Sets
      <4> QED
        BY <4>1, <4>2
    <3>3. slots'[k] = round \/ \E j \in 1 .. QueueLen(b)' : Sets(queue'[b][j], D, t, Cur) /\ queue'[b][j].value = round
      <4>1. CASE slots'[key] = round
        BY <2>4, <4>1
      <4>2. CASE /\ B \in Devices
                 /\ \E j \in DOMAIN queue'[B] : Sets(queue'[B][j], D, Tensor, Cur) /\ queue'[B][j].value = round
        <5>1. QueueLen(b)' = Len(queue'[b]) /\ DOMAIN queue'[b] = 1 .. Len(queue'[b])
          BY <1>6, <2>1, <3>1, <4>2 DEF QueueLen
        <5> QED
          BY <3>1, <4>2, <5>1
      <4> QED
        BY <4>1, <4>2 DEF key
    <3>4. slots'[k] <= round
      BY <1>1, <2>3
    <3> QED
      BY <3>2, <3>3, <3>4 DEF Held
  <2>5. CASE k # key
    <3>1. slots'[k] = slots[k]
      BY <1>7, <1>8, <2>2, <2>5
    <3>2. Past(s, i)
      <4>1. s < at.split \/ (s = at.split /\ i < at.input + 1)
        BY <1>4 DEF Past
      <4>2. s = at.split => i # at.input
        BY <2>5 DEF key, B, Split, Tensor
      <4>3. i \in Nat
        BY <2>1, SequenceIs
      <4> QED
        BY <1>1, <4>1, <4>2, <4>3 DEF Past
    <3>3. Held(slots[k], queue[b], QueueLen(b), D, t, Cur, round)
      BY <1>1, <3>2 DEF ReadsInv, CopiedInv
    <3>4. Held(slots[k], queue'[b], QueueLen(b)', D, t, Cur, round)
      BY <2>1, <3>3, GrownHeld
    <3> QED
      BY <3>1, <3>4
  <2> QED
    BY <2>4, <2>5
<1>14. MadeInv'
  <2> SUFFICES ASSUME NEW s \in 1 .. at.split - 1, NEW b, b = Splits[s].on
               PROVE  Made(result[<<D, s>>], queue'[b], QueueLen(b)', D, s, round)
    BY <1>2, <1>4, <1>5 DEF MadeInv, QueueLen
  <2>1. b \in Devices \cup {Cpu}
    <3>1. DOMAIN Splits = 1 .. Len(Splits) /\ Len(Splits) \in Nat
      BY <1>1, SetupIs
    <3>2. s \in DOMAIN Splits
      BY <1>1, <3>1
    <3> QED
      BY <1>1, <3>2, SetupIs
  <2>2. Made(result[<<D, s>>], queue[b], QueueLen(b), D, s, round)
    BY <1>1 DEF ReadsInv, MadeInv
  <2> QED
    BY <2>1, <2>2, GrownMade
<1>15. CapturesInv' /\ CopiedByHost(setup)'
  <2>1. \A d, s : PropsOf(d, s)' = PropsOf(d, s)
    BY <1>2 DEF PropsOf
  <2>2. CapturesInv'
    BY <1>2, <2>1 DEF ReadsInv, CapturesInv, Kept, Addresses
  <2> QED
    BY <2>2 DEF ReadsInv, CopiedByHost
<1> QED
  BY <1>10, <1>11, <1>12, <1>13, <1>14, <1>15 DEF ReadsInv

\* The slot that the host fills is one there is.
LEMMA KeyIs ==
  ASSUME HeldInv, ReadsInv, CopiesInput
  PROVE  <<D, <<B, Tensor>>, Cur>> \in DOMAIN slots
<1>1. /\ D \in setup.scheds /\ at.split \in DOMAIN Splits /\ IsSeq(Split.inputs)
      /\ at.input \in 1 .. Len(Split.inputs) /\ DOMAIN Split.inputs = 1 .. Len(Split.inputs)
      /\ Cur \in 0 .. copies - 1 /\ copies \in 1 .. setup.copies /\ setup.copies \in Nat
  BY GraphUnderWay, SequenceIs, SetupIs DEF CopiesInput, HeldInv, TypeInv
<1>2. Tensor \in Range(Splits[at.split].inputs)
  BY <1>1 DEF Tensor, Split, Range
<1>3. <<B, Tensor>> \in Copied /\ Cur \in AllCopies
  BY <1>1, <1>2 DEF Copied, B, Split, AllCopies
<1>4. DOMAIN slots = setup.scheds \X Copied \X AllCopies
  BY DEF ReadsInv, BoundInv
<1> QED
  BY <1>1, <1>3, <1>4

\* Once an event is reached no stream is still to record it.
LEMMA ReachedIsClear ==
  ASSUME HeldInv, at # Idle, NEW b \in Devices, Reached(SlotEvent(b))
  PROVE  Recs(queue[b], <<b, D, Cur>>) = {}
<1>1. /\ D \in setup.scheds /\ Cur \in 0 .. copies - 1 /\ copies \in 1 .. setup.copies
      /\ copies \in Nat \ {0} /\ setup.copies \in Nat
  BY GraphUnderWay, SetupIs DEF HeldInv, TypeInv
<1>2. SlotEvent(b) \in Events /\ SlotEvent(b)[1] = b
  BY <1>1 DEF SlotEvent, Events, AllCopies
<1>3. recorded[SlotEvent(b)] = passed[SlotEvent(b)] + Cardinality(Recs(queue[b], SlotEvent(b)))
  BY <1>2 DEF HeldInv, EventsInv
<1>4. IsSeq(queue[b]) /\ passed[SlotEvent(b)] \in Nat
  BY <1>2 DEF HeldInv, TypeInv
<1>5. Cardinality(Recs(queue[b], SlotEvent(b))) \in Nat
  BY <1>4, RecsFinite
<1>6. Cardinality(Recs(queue[b], SlotEvent(b))) = 0
  BY <1>3, <1>4, <1>5 DEF Reached
<1> QED
  BY <1>4, <1>6, NoneLeft DEF SlotEvent

\* Before the slot is overwritten, what was sent has read it.
LEMMA FreeIsUnread ==
  ASSUME HeldInv, ReadsInv, at # Idle, B \in Devices, FreeOf(B)
  PROVE  Unread
<1> SUFFICES ASSUME NEW i \in DOMAIN queue[B], queue[B][i].op = "compute", queue[B][i].sched = D,
                    Splits[queue[B][i].split].copied # {}, queue[B][i].to.slot = Cur
             PROVE  FALSE
  BY DEF Unread
<1>1. Clear(B, D, Cur)
  BY FreeIsClear
<1>2. copies > 1
  BY <1>1 DEF Clear
<1>3. Followed(queue[B], B, i, Cur)
  BY <1>2 DEF ReadsInv, ComputesInv, EventsOK
<1>4. i + 1 \in Recs(queue[B], <<B, D, Cur>>)
  BY <1>3 DEF Followed, Recs
<1> QED
  BY <1>1, <1>2, <1>4 DEF Clear

\* What the host copies is of this graph when the source has been waited for: the whole stream,
\* or the event that follows the split that makes it.
LEMMA SourceHolds ==
  ASSUME HeldInv, ReadsInv, CopiesMade, SourceWaits
  PROVE  Holds(D, Tensor, round) = round
<1>1. /\ at # Idle /\ D \in setup.scheds /\ at.split \in DOMAIN Splits /\ IsSeq(Split.inputs)
      /\ at.input \in 1 .. Len(Split.inputs) /\ DOMAIN Split.inputs = 1 .. Len(Split.inputs)
      /\ setup \in Setups /\ Tensor \notin Plan.user /\ DOMAIN Splits = 1 .. Len(Splits)
      /\ Len(Splits) \in Nat
  BY GraphUnderWay, SequenceIs, SetupIs DEF CopiesMade, CopiesInput, HeldInv, TypeInv
<1>2. Tensor \in Range(Split.inputs)
  BY <1>1 DEF Tensor, Range
<1> SUFFICES ASSUME NEW m, m = Plan.maker[Tensor], m # 0
             PROVE  result[<<D, m>>] = round
  BY DEF Holds
<1>3. m \in 1 .. at.split - 1 /\ Splits[m].on = From
  BY <1>1, <1>2, PlanIs DEF Split, From
<1>4. CASE Drained(From)
  BY <1>1, <1>3, <1>4, MadeHere
<1>5. CASE setup.sourceEvent /\ HasEvent(From) /\ Reached(SlotEvent(From))
  <2>1. m \in DOMAIN Splits
    BY <1>1, <1>3
  <2>2. copies > 1 /\ From # Cpu /\ From \in Devices
    BY <1>1, <1>3, <1>5, <2>1, SetupIs DEF HasEvent
  <2>3. PICK b \in Devices : b = From
    BY <2>2
  <2>4. Recs(queue[b], <<b, D, Cur>>) = {}
    BY <1>1, <1>5, <2>3, ReachedIsClear
  <2>5. Made(result[<<D, m>>], queue[b], Len(queue[b]), D, m, round)
    BY <1>1, <1>3, <2>2, <2>3 DEF ReadsInv, MadeInv, QueueLen
  <2>6. ASSUME NEW j \in 1 .. Len(queue[b]), Computes(queue[b][j], D, m), queue[b][j].value = round
        PROVE  FALSE
    <3>1. IsSeq(queue[b])
      BY DEF HeldInv, TypeInv
    <3>2. j \in DOMAIN queue[b]
      BY <3>1, SequenceIs
    <3>3. Followed(queue[b], b, j, Cur)
      BY <1>1, <1>5, <2>2, <2>6, <3>2 DEF ReadsInv, ComputesInv, EventsOK, Computes
    <3>4. j + 1 \in Recs(queue[b], <<b, D, Cur>>)
      BY <2>6, <3>3 DEF Followed, Recs, Computes
    <3> QED
      BY <2>4, <3>4
  <2> QED
    BY <2>5, <2>6 DEF Made
<1> QED
  BY <1>4, <1>5 DEF SourceWaits

LEMMA OnlyWaits ==
  IsSeq(WaitForSlot) /\ \A i \in 1 .. Len(WaitForSlot) : WaitForSlot[i].op = "wait"
<1>1. \A e : WaitOp(e).op = "wait"
  BY DEF WaitOp, RecordOp, Operation
<1>2. CASE WaitForSlot = <<>>
  BY <1>2, ShortSequences
<1>3. CASE WaitForSlot = <<WaitOp(SlotEvent(B))>>
  BY <1>1, <1>3, ShortSequences
<1> QED
  BY <1>2, <1>3 DEF WaitForSlot

LEMMA CurrentIs ==
  ASSUME ReadsInv
  PROVE  Current(B, Tensor) = <<D, <<B, Tensor>>, Cur>> /\ Here.slot = Cur
BY DEF Current, Here, Place, ReadsInv, CopiedByHost

LEMMA CopyUserReads ==
  ASSUME HeldInv, ReadsInv, CopyUser
  PROVE  ReadsInv'
<1>1. /\ UNCHANGED <<setup, round, copies, scheds, user, result, queue, graphs>> /\ CopiesInput /\ NextInput
      /\ at # Idle /\ Tensor \in Plan.user /\ FreeOf(B)
      /\ slots' = [slots EXCEPT ![<<D, <<B, Tensor>>, Cur>>] = user[<<D, scheds[D].built>>]]
  BY CurrentIs DEF CopyUser, host, streams, CopiesInput
<1>2. user[<<D, scheds[D].built>>] = round
  BY <1>1 DEF ReadsInv, BegunInv
<1>3. \A e \in Devices : Grown(e)
  BY <1>1, GrownSame DEF HeldInv, TypeInv
<1>4. ~OfExperts
  <2>1. /\ at.split \in DOMAIN Splits /\ IsSeq(Split.inputs) /\ setup \in Setups
        /\ at.input \in 1 .. Len(Split.inputs) /\ DOMAIN Split.inputs = 1 .. Len(Split.inputs)
    BY <1>1, GraphUnderWay, SequenceIs DEF CopiesInput, HeldInv, TypeInv
  <2>2. Tensor \in Range(Split.inputs)
    BY <2>1 DEF Tensor, Range
  <2> QED
    BY <1>1, <2>1, <2>2, PlanIs DEF OfExperts, Split
<1>5. B \in Devices => Unread
  BY <1>1, FreeIsUnread
<1>6. slots'[<<D, <<B, Tensor>>, Cur>>] = round
  <2>1. <<D, <<B, Tensor>>, Cur>> \in DOMAIN slots
    BY <1>1, KeyIs
  <2> QED
    BY <1>1, <1>2, <2>1
<1> QED
  BY <1>1, <1>2, <1>3, <1>4, <1>5, <1>6, NextInputReads

LEMMA CopyBlockingReads ==
  ASSUME HeldInv, ReadsInv, CopyBlocking
  PROVE  ReadsInv'
<1>1. /\ UNCHANGED <<setup, round, copies, scheds, user, result, graphs>> /\ CopiesInput /\ NextInput
      /\ at # Idle /\ FreeOf(B) /\ CopiesMade /\ SourceWaits
      /\ slots' = [slots EXCEPT ![<<D, <<B, Tensor>>, Cur>>] = Holds(D, Tensor, round)]
  BY CurrentIs DEF CopyBlocking, CopiesMade, host, CopiesInput
<1>2. Holds(D, Tensor, round) = round
  BY <1>1, SourceHolds
<1>3. ASSUME NEW e \in Devices PROVE Grown(e)
  <2>1. IsSeq(queue[e]) /\ DOMAIN queue = Devices
    BY DEF HeldInv, TypeInv
  <2>2. CASE e = B
    <3>1. queue'[e] = queue[e] \o WaitForSlot
      BY <2>1, <2>2, SetupIs DEF CopyBlocking, HeldInv, TypeInv
    <3>2. IsSeq(WaitForSlot) /\ \A i \in 1 .. Len(WaitForSlot) : Added(WaitForSlot[i], e)
      BY OnlyWaits DEF Added
    <3> QED
      BY <2>1, <3>1, <3>2, GrownBy
  <2>3. CASE e # B
    <3>1. queue'[e] = queue[e]
      BY <2>1, <2>3 DEF CopyBlocking
    <3> QED
      BY <2>1, <3>1, GrownSame
  <2> QED
    BY <2>2, <2>3
<1>4. OfExperts => IdsRead.value = round
  BY <1>1, IdsAreRead
<1>5. B \in Devices => Unread
  BY <1>1, FreeIsUnread
<1>6. slots'[<<D, <<B, Tensor>>, Cur>>] = round
  <2>1. <<D, <<B, Tensor>>, Cur>> \in DOMAIN slots
    BY <1>1, KeyIs
  <2> QED
    BY <1>1, <1>2, <2>1
<1> QED
  BY <1>1, <1>2, <1>3, <1>4, <1>5, <1>6, NextInputReads

LEMMA CopyExpertsReads ==
  ASSUME HeldInv, ReadsInv, CopyExperts
  PROVE  ReadsInv'
<1>1. /\ UNCHANGED <<setup, round, copies, scheds, user, slots, result, graphs>> /\ CopiesInput /\ NextInput
      /\ at # Idle /\ CopiesMade /\ OfExperts
      /\ queue' = [queue EXCEPT ![B] = (queue[B] \o WaitForSlot) \o <<CopyOp("set", IdsRead.value)>>]
  BY DEF CopyExperts, CopiesMade, host, memory, CopiesInput
<1>2. IdsRead.value = round
  BY <1>1, IdsAreRead
<1>3. PICK o : o = CopyOp("set", IdsRead.value)
  OBVIOUS
<1>4. B \in Devices /\ at.split \in DOMAIN Splits /\ Cur \in AllCopies
  <2>3. CopiesInput /\ OfExperts
    BY <1>1
  <2>1. /\ at.split \in DOMAIN Splits /\ IsSeq(Split.inputs) /\ setup \in Setups
        /\ at.input \in 1 .. Len(Split.inputs) /\ DOMAIN Split.inputs = 1 .. Len(Split.inputs)
        /\ Cur \in 0 .. copies - 1 /\ copies \in 1 .. setup.copies /\ setup.copies \in Nat
    BY <2>3, GraphUnderWay, SequenceIs, SetupIs DEF CopiesInput, HeldInv, TypeInv
  <2>2. Tensor \in Range(Split.inputs)
    BY <2>1 DEF Tensor, Range
  <2> QED
    BY <2>3, <2>1, <2>2, PlanIs DEF OfExperts, Split, B, AllCopies
<1>5. Sets(o, D, Tensor, Cur) /\ o.value = round /\ Added(o, B)
  <2>1. o.op = "set" /\ o.sched = D /\ o.tensor = Tensor /\ o.to = Here /\ o.value = round /\ o.split = at.split
    BY <1>2, <1>3 DEF CopyOp, Operation
  <2> QED
    BY <1>4, <2>1, CurrentIs DEF Sets, Added, B, Split
<1>6. PICK w, t, r : w = WaitForSlot /\ t = <<o>> /\ r = w \o t
  OBVIOUS
<1>7. IsSeq(queue[B]) /\ IsSeq(w) /\ IsSeq(t) /\ Len(t) = 1 /\ t[1] = o /\ DOMAIN queue = Devices
  BY <1>4, <1>6, OnlyWaits, ShortSequences DEF HeldInv, TypeInv
<1>8. queue'[B] = queue[B] \o r
  <2>1. PICK q : q = queue[B]
    OBVIOUS
  <2>2. IsSeq(q) /\ IsSeq(w) /\ IsSeq(t)
    BY <1>7, <2>1
  <2>3. (q \o w) \o t = q \o (w \o t)
    BY <2>2, Appended
  <2>4. queue' = [queue EXCEPT ![B] = (q \o w) \o t]
    BY <1>1, <1>3, <1>6, <2>1
  <2>5. queue' = [queue EXCEPT ![B] = q \o r]
    BY <1>6, <2>3, <2>4
  <2> QED
    BY <1>4, <1>7, <2>1, <2>5
<1>9. /\ IsSeq(r) /\ Len(w) \in Nat /\ Len(r) = Len(w) + 1
      /\ \A i \in 1 .. Len(w) : r[i] = w[i]
      /\ r[Len(w) + 1] = o
  <2>1. IsSeq(r) /\ Len(r) = Len(w) + Len(t)
    BY <1>6, <1>7, Concatenated
  <2>2. \A i \in 1 .. Len(w) : r[i] = w[i]
    BY <1>6, <1>7, Concatenated
  <2>3. \A i \in 1 .. Len(t) : r[Len(w) + i] = t[i]
    BY <1>6, <1>7, Concatenated
  <2>4. Len(w) \in Nat /\ 1 \in 1 .. Len(t)
    BY <1>7, SequenceIs
  <2> QED
    BY <1>7, <2>1, <2>2, <2>3, <2>4
<1>10. \A i \in 1 .. Len(r) : Added(r[i], B)
  <2> SUFFICES ASSUME NEW i \in 1 .. Len(r) PROVE Added(r[i], B)
    OBVIOUS
  <2>1. CASE i = Len(w) + 1
    BY <1>5, <1>9, <2>1
  <2>2. CASE i # Len(w) + 1
    <3>1. i \in 1 .. Len(w)
      BY <1>9, <2>2
    <3>2. r[i].op = "wait"
      BY <1>6, <1>9, <3>1, OnlyWaits
    <3> QED
      BY <3>2 DEF Added
  <2> QED
    BY <2>1, <2>2
<1>11. PICK b \in Devices : b = B
  BY <1>4
<1>12. Grown(b) /\ DOMAIN queue'[b] = 1 .. Len(queue[b]) + Len(r)
  BY <1>7, <1>8, <1>9, <1>10, <1>11, GrownBy
<1>13. ASSUME NEW e \in Devices PROVE Grown(e)
  <2>1. CASE e = b
    BY <1>12, <2>1
  <2>2. CASE e # b
    <3>1. queue'[e] = queue[e] /\ IsSeq(queue[e])
      BY <1>1, <1>11, <2>2 DEF HeldInv, TypeInv
    <3> QED
      BY <3>1, GrownSame
  <2> QED
    BY <2>1, <2>2
<1>14. \E j \in DOMAIN queue'[B] : Sets(queue'[B][j], D, Tensor, Cur) /\ queue'[B][j].value = round
  <2>1. Len(queue[b]) \in Nat /\ Len(r) \in 1 .. Len(r)
    BY <1>7, <1>9, <1>11, SequenceIs
  <2>2. queue'[b][Len(queue[b]) + Len(r)] = o
    BY <1>7, <1>8, <1>9, <1>11, <2>1, Concatenated
  <2>3. Len(queue[b]) + Len(r) \in DOMAIN queue'[b]
    BY <1>12, <2>1
  <2> QED
    BY <1>5, <1>11, <2>2, <2>3
<1> QED
  BY <1>1, <1>2, <1>4, <1>13, <1>14, NextInputReads

LEMMA PropsIs ==
  ASSUME HeldInv, ReadsInv, at # Idle
  PROVE  /\ Props = PropsOf(D, at.split) /\ Props \in Addresses
         /\ Props.slot = (IF Split.copied = {} THEN 0 ELSE Cur)
         /\ Props.place = scheds[D].place /\ Props.shape = scheds[D].shape
         /\ Props.slot \in AllCopies
<1>1. /\ scheds[D] \in SchedRec /\ Cur \in 0 .. copies - 1 /\ copies \in 1 .. setup.copies
      /\ setup.copies \in Nat \ {0}
  BY GraphUnderWay, SetupIs DEF HeldInv, TypeInv
<1>2. Here = [slot |-> Cur, place |-> scheds[D].place, shape |-> scheds[D].shape]
  BY DEF Here, Place, ReadsInv, CopiedByHost
<1>3. Here \in Addresses
  BY <1>1, <1>2 DEF Addresses, SchedRec
<1>4. CASE Split.copied = {}
  <2>1. Props = [slot |-> 0, place |-> scheds[D].place, shape |-> scheds[D].shape]
    BY <1>2, <1>4 DEF Props
  <2> QED
    BY <1>1, <1>4, <2>1 DEF PropsOf, Split, Addresses, SchedRec, AllCopies
<1>5. CASE Split.copied # {}
  <2>1. Props = Here
    BY <1>5 DEF Props
  <2> QED
    BY <1>1, <1>2, <1>3, <1>5, <2>1 DEF PropsOf, Split, Cur, AllCopies
<1> QED
  BY <1>4, <1>5

\* A graph is only replayed with the addresses it has now, and what is kept of it is of now.
LEMMA LaunchIs ==
  ASSUME HeldInv, ReadsInv, at # Idle, Captures
  PROVE  /\ Launch.uses = Props
         /\ Launch.keeps \in Kept /\ Launch.keeps.uid = scheds[D].uid /\ Launch.keeps.props = Props
         /\ Launch.keeps.warm => Launch.keeps.instance = Props
<1> DEFINE g == graphs[<<D, at.split>>]
           same == g.uid = scheds[D].uid
           kept == IF same THEN g ELSE [g EXCEPT !.uid = scheds[D].uid, !.props = Props]
<1>1. /\ D \in setup.scheds /\ scheds[D] \in SchedRec /\ at.split \in DOMAIN Splits
      /\ scheds[D].alloc /\ setup.captures # {}
  BY GraphUnderWay DEF HeldInv, TypeInv, ReadsInv, BegunInv, Captures
<1>2. <<D, at.split>> \in SplitsOf
  BY <1>1 DEF SplitsOf
<1>3. /\ g \in Kept /\ (g.warm => g.instance = g.props)
      /\ same => g.props = PropsOf(D, at.split)
  BY <1>1, <1>2 DEF ReadsInv, CapturesInv
<1>4. Props = PropsOf(D, at.split) /\ Props \in Addresses
  BY PropsIs
<1>5. /\ kept \in Kept /\ kept.uid = scheds[D].uid /\ kept.props = Props
      /\ kept.warm = g.warm /\ kept.instance = g.instance
  BY <1>1, <1>3, <1>4 DEF Kept, SchedRec
<1>6. Launch = (IF ~same /\ g.props # Props THEN [keeps |-> [kept EXCEPT !.warm = FALSE], uses |-> Props]
                ELSE IF ~g.warm \/ g.instance = NoAddresses
                THEN [keeps |-> [kept EXCEPT !.warm = TRUE, !.instance = Props], uses |-> Props]
                ELSE [keeps |-> kept, uses |-> g.instance])
  BY DEF Launch
<1> HIDE DEF kept
<1>7. CASE ~same /\ g.props # Props
  <2>1. Launch.keeps = [kept EXCEPT !.warm = FALSE] /\ Launch.uses = Props
    BY <1>6, <1>7
  <2>2. /\ Launch.keeps \in Kept /\ Launch.keeps.uid = kept.uid /\ Launch.keeps.props = kept.props
        /\ ~Launch.keeps.warm
    BY <1>5, <2>1 DEF Kept
  <2> QED
    BY <1>5, <2>1, <2>2
<1>8. CASE ~(~same /\ g.props # Props) /\ (~g.warm \/ g.instance = NoAddresses)
  <2>1. Launch.keeps = [kept EXCEPT !.warm = TRUE, !.instance = Props] /\ Launch.uses = Props
    BY <1>6, <1>8
  <2>2. /\ Launch.keeps \in Kept /\ Launch.keeps.uid = kept.uid /\ Launch.keeps.props = kept.props
        /\ Launch.keeps.instance = Props
    BY <1>4, <1>5, <2>1 DEF Kept
  <2> QED
    BY <1>5, <2>1, <2>2
<1>9. CASE ~(~same /\ g.props # Props) /\ ~(~g.warm \/ g.instance = NoAddresses)
  <2>1. Launch.keeps = kept /\ Launch.uses = g.instance
    BY <1>6, <1>9
  <2>2. g.instance = Props
    BY <1>3, <1>4, <1>9
  <2> QED
    BY <1>5, <2>1, <2>2
<1> QED
  BY <1>7, <1>8, <1>9

\* The computation that is sent uses the slots and the memory of now.
LEMMA ComputeOpIs ==
  ASSUME HeldInv, ReadsInv, at # Idle
  PROVE  /\ ComputeOp.op = "compute" /\ ComputeOp.sched = D /\ ComputeOp.split = at.split
         /\ ComputeOp.to = Props /\ ComputeOp.value = round /\ ComputeOp.count = scheds[D].shape
<1>1. (IF Captures THEN Launch.uses ELSE Props) = Props
  BY LaunchIs
<1> QED
  BY <1>1 DEF ComputeOp, Operation

LEMMA CapturesKept ==
  ASSUME HeldInv, ReadsInv, at # Idle, UNCHANGED <<setup, round, scheds>>,
         graphs' = IF Captures THEN [graphs EXCEPT ![<<D, at.split>>] = Launch.keeps] ELSE graphs
  PROVE  CapturesInv'
<1>1. Splits' = Splits /\ Plan' = Plan /\ SplitsOf' = SplitsOf /\ Kept' = Kept
  BY DEF Splits, Plan, SplitsOf, Kept, Addresses
<1>2. \A d, s : PropsOf(d, s)' = PropsOf(d, s)
  BY <1>1 DEF PropsOf
<1>3. CASE ~Captures
  <2>1. graphs' = graphs
    BY <1>3
  <2> QED
    BY <1>1, <1>2, <2>1 DEF ReadsInv, CapturesInv
<1>4. CASE Captures
  <2>1. graphs' = [graphs EXCEPT ![<<D, at.split>>] = Launch.keeps]
    BY <1>4
  <2>2. /\ Launch.keeps \in Kept /\ Launch.keeps.uid = scheds[D].uid /\ Launch.keeps.props = Props
        /\ Launch.keeps.warm => Launch.keeps.instance = Props
    BY <1>4, LaunchIs
  <2>3. graphs \in [SplitsOf -> Kept]
    BY DEF ReadsInv, CapturesInv
  <2>4. graphs' \in [SplitsOf -> Kept]
    BY <2>1, <2>2, <2>3
  <2>5. ASSUME NEW k \in SplitsOf, setup.captures # {}
        PROVE  /\ graphs'[k].uid \in 0 .. round /\ (graphs'[k].warm => graphs'[k].instance = graphs'[k].props)
               /\ scheds[k[1]].alloc /\ graphs'[k].uid = scheds[k[1]].uid =>
                    graphs'[k].props = PropsOf(k[1], k[2])
    <3>1. CASE k = <<D, at.split>>
      <4>1. graphs'[k] = Launch.keeps
        BY <2>1, <2>3, <3>1
      <4>2. D \in setup.scheds /\ scheds[D] \in SchedRec /\ round \in Nat
        BY GraphUnderWay DEF HeldInv, TypeInv
      <4>3. scheds[D].uid \in 0 .. round
        BY <4>2 DEF ReadsInv, CapturesInv, SchedRec
      <4> QED
        BY <2>2, <3>1, <4>1, <4>3, PropsIs
    <3>2. CASE k # <<D, at.split>>
      <4>1. graphs'[k] = graphs[k]
        BY <2>1, <2>3, <3>2
      <4> QED
        BY <2>5, <4>1 DEF ReadsInv, CapturesInv
    <3> QED
      BY <3>1, <3>2
  <2>6. \A d \in setup.scheds : scheds[d].uid <= round /\ (scheds[d].alloc => scheds[d].uid > 0)
    BY DEF ReadsInv, CapturesInv
  <2> QED
    BY <1>1, <1>2, <2>4, <2>5, <2>6 DEF CapturesInv
<1> QED
  BY <1>3, <1>4

\* What is on its way stays as it is when a split is computed or sent.
LEMMA SentStand ==
  ASSUME HeldInv, ReadsInv, UNCHANGED <<setup, round, copies, scheds, slots>>, at # Idle,
         at' # Idle => at'.sched = at.sched,
         \A d \in setup.scheds, s \in DOMAIN Splits :
           Splits[s].on # Cpu => result'[<<d, s>>] = result[<<d, s>>],
         NEW b \in Devices, \A j \in DOMAIN queue[b] : j \in DOMAIN queue'[b] /\ queue'[b][j] = queue[b][j],
         NEW i \in DOMAIN queue[b], queue[b][i].op = "compute"
  PROVE  /\ SlotsOK(queue[b], b, i)' /\ DirectOK(queue[b], b, i)'
         /\ PlacedOK(queue[b], i)' /\ EventsOK(queue[b], b, i)'
<1>1. PICK o : o = queue[b][i] /\ queue'[b][i] = o
  OBVIOUS
<1>2. IsSeq(queue[b]) /\ DOMAIN queue[b] = 1 .. Len(queue[b]) /\ Len(queue[b]) \in Nat /\ setup \in Setups
  BY SequenceIs DEF HeldInv, TypeInv
<1>3. i - 1 \in Nat /\ \A j \in 1 .. i - 1 : queue'[b][j] = queue[b][j]
  BY <1>2
<1>4. /\ SlotsOK(queue[b], b, i) /\ DirectOK(queue[b], b, i)
      /\ PlacedOK(queue[b], i) /\ EventsOK(queue[b], b, i)
  BY DEF ReadsInv, ComputesInv
<1>5. /\ o.sched \in setup.scheds /\ o.split \in DOMAIN Splits /\ Splits[o.split].on = b
      /\ o.value \in Nat
  <2>1. o.value \in 0 .. round
    BY <1>1 DEF ReadsInv, BoundInv
  <2> QED
    BY <1>1, <2>1 DEF HeldInv, SentInv, SentOK
<1>6. Splits' = Splits /\ Plan' = Plan
  BY DEF Splits, Plan
<1>7. SlotsOK(queue[b], b, i)'
  <2> SUFFICES ASSUME NEW t \in Splits[o.split].copied
               PROVE  Held(slots[<<o.sched, <<b, t>>, o.to.slot>>], queue'[b], i - 1,
                           o.sched, t, o.to.slot, o.value)
    BY <1>1, <1>6 DEF SlotsOK
  <2>1. Held(slots[<<o.sched, <<b, t>>, o.to.slot>>], queue[b], i - 1, o.sched, t, o.to.slot, o.value)
    BY <1>1, <1>4 DEF SlotsOK
  <2> QED
    BY <1>3, <1>5, <2>1, HeldLonger
<1>8. DirectOK(queue[b], b, i)'
  <2> SUFFICES ASSUME NEW t \in Splits[o.split].direct, NEW m, m = Plan.maker[t], m # 0
               PROVE  Made(result'[<<o.sched, m>>], queue'[b], i - 1, o.sched, m, o.value)
    BY <1>1, <1>6 DEF DirectOK
  <2>1. Made(result[<<o.sched, m>>], queue[b], i - 1, o.sched, m, o.value)
    BY <1>1, <1>4 DEF DirectOK
  <2>2. result'[<<o.sched, m>>] = result[<<o.sched, m>>]
    <3>1. b # Cpu /\ DOMAIN Splits = 1 .. Len(Splits) /\ Len(Splits) \in Nat
      BY <1>2, SetupIs
    <3>2. m \in 1 .. o.split - 1 /\ Splits[m].on = b
      BY <1>2, <1>5, <3>1, PlanIs
    <3>3. m \in DOMAIN Splits
      BY <1>5, <3>1, <3>2
    <3> QED
      BY <1>5, <3>1, <3>2, <3>3
  <2> QED
    BY <1>3, <2>1, <2>2, MadeLonger
<1>9. PlacedOK(queue[b], i)'
  BY <1>1, <1>4 DEF PlacedOK
<1>10. \A c : Followed(queue[b], b, i, c) => Followed(queue[b], b, i, c)'
  BY <1>1 DEF Followed
<1>11. at' # Idle => D' = D /\ Cur' = Cur
  BY DEF D, Cur
<1>12. EventsOK(queue[b], b, i)'
  BY <1>1, <1>4, <1>6, <1>10, <1>11 DEF EventsOK
<1> QED
  BY <1>7, <1>8, <1>9, <1>12

\* The split that is sent finds its inputs: what was copied before it, and what was made.
LEMMA SentReads ==
  ASSUME HeldInv, ReadsInv, Compute, B # Cpu
  PROVE  LET n == Len(queue[B])
         IN /\ SlotsOK(queue'[B], B, n + 1) /\ DirectOK(queue'[B], B, n + 1)
            /\ PlacedOK(queue'[B], n + 1)
            /\ copies > 1 /\ (Split.copied # {} \/ setup.sourceEvent) => Followed(queue'[B], B, n + 1, Cur)
<1> DEFINE n == Len(queue[B])
           q == queue'[B]
           o == q[n + 1]
<1>1. /\ at # Idle /\ ~CopiesInput /\ D \in setup.scheds /\ at.split \in DOMAIN Splits
      /\ setup \in Setups /\ round \in Nat /\ B \in Devices
      /\ DOMAIN Splits = 1 .. Len(Splits) /\ Len(Splits) \in Nat
  BY GraphUnderWay, SetupIs DEF Compute, HeldInv, TypeInv
<1>2. /\ n \in Nat /\ \A i \in 1 .. n : q[i] = queue[B][i]
      /\ o = ComputeOp
      /\ Recorded => DOMAIN q = 1 .. n + 2 /\ q[n + 2] = RecordOp(SlotEvent(B))
  BY SplitAdded
<1>3. /\ o.op = "compute" /\ o.sched = D /\ o.split = at.split
      /\ o.to = Props /\ o.value = round /\ o.count = scheds[D].shape
  BY <1>1, <1>2, ComputeOpIs
<1>10. PICK k : k = n + 1
  OBVIOUS
<1>11. k - 1 = n
  BY <1>2, <1>10
<1> HIDE DEF q, n
<1>4. /\ Split.copied # {} => o.to.slot = Cur
      /\ o.to.place = scheds[D].place /\ o.to.shape = scheds[D].shape
  BY <1>1, <1>3, PropsIs
<1>5. QueueLen(B) = n
  BY <1>1, SetupIs DEF QueueLen, n
<1>6. SlotsOK(q, B, k)
  <2> SUFFICES ASSUME NEW t \in Splits[q[k].split].copied
               PROVE  Held(slots[<<q[k].sched, <<B, t>>, q[k].to.slot>>], q, k - 1,
                           q[k].sched, t, q[k].to.slot, q[k].value)
    BY DEF SlotsOK
  <2>5. t \in Split.copied /\ q[k].to.slot = Cur
    BY <1>3, <1>4, <1>10 DEF Split
  <2>1. PICK r \in 1 .. at.split :
          /\ r \in DOMAIN Splits /\ Splits[r].on = B
          /\ \E i \in DOMAIN Splits[r].inputs : Splits[r].inputs[i] = t /\ Past(r, i)
    BY <1>1, <2>5, InputsCopied
  <2>2. PICK i \in DOMAIN Splits[r].inputs : Splits[r].inputs[i] = t /\ Past(r, i)
    BY <2>1
  <2>3. Held(slots[<<D, <<B, t>>, Cur>>], queue[B], n, D, t, Cur, round)
    BY <1>1, <1>5, <2>1, <2>2 DEF ReadsInv, CopiedInv
  <2>4. \A j \in n + 1 .. n : Sets(q[j], D, t, Cur) => q[j].value = round
    BY <1>2
  <2>6. Held(slots[<<D, <<B, t>>, Cur>>], q, n, D, t, Cur, round)
    BY <1>1, <1>2, <2>3, <2>4, HeldLonger
  <2> QED
    BY <1>3, <1>10, <1>11, <2>5, <2>6
<1>7. DirectOK(q, B, k)
  <2> SUFFICES ASSUME NEW t \in Splits[q[k].split].direct, NEW m, m = Plan.maker[t], m # 0
               PROVE  Made(result[<<q[k].sched, m>>], q, k - 1, q[k].sched, m, q[k].value)
    BY DEF DirectOK
  <2>4. t \in Split.direct
    BY <1>3, <1>10 DEF Split
  <2>1. m \in 1 .. at.split - 1 /\ Splits[m].on = B
    BY <1>1, <2>4, PlanIs DEF Split, B
  <2>2. Made(result[<<D, m>>], queue[B], n, D, m, round)
    BY <1>1, <1>5, <2>1 DEF ReadsInv, MadeInv
  <2>3. \A j \in n + 1 .. n : ~Computes(q[j], D, m)
    BY <1>2
  <2>5. Made(result[<<D, m>>], q, n, D, m, round)
    BY <1>2, <2>2, <2>3, MadeLonger
  <2> QED
    BY <1>3, <1>10, <1>11, <2>5
<1>8. PlacedOK(q, n + 1)
  BY <1>3, <1>4 DEF PlacedOK
<1>9. ASSUME copies > 1, Split.copied # {} \/ setup.sourceEvent
      PROVE  Followed(q, B, n + 1, Cur)
  <2>1. Split.inputs # <<>>
    BY <1>1, <1>9 DEF ReadsInv, CopiedByHost, Split, B, Splits, Plan
  <2>2. Recorded
    BY <1>9, <2>1 DEF Recorded, HasEvent
  <2>3. n + 1 + 1 \in DOMAIN q /\ n + 1 + 1 = n + 2
    BY <1>2, <2>2
  <2>4. q[n + 2].op = "record" /\ q[n + 2].on = <<B, D, Cur>>
    BY <1>2, <2>2 DEF RecordOp, Operation, SlotEvent
  <2> QED
    BY <1>3, <2>3, <2>4 DEF Followed
<1> QED
  BY <1>6, <1>7, <1>8, <1>9, <1>10 DEF q, n

\* The next split begins with what this one had copied and computed.
LEMMA NextSplitIs ==
  ASSUME HeldInv, Compute, at' # Idle
  PROVE  /\ at'.sched = at.sched /\ at'.split = at.split + 1 /\ at'.input = 1 /\ at'.ids = at.ids
         /\ at.split + 1 \in DOMAIN Splits
         /\ \A s \in 1 .. at.split + 1 : \A i \in DOMAIN Splits[s].inputs :
              Past(s, i)' => s \in 1 .. at.split /\ Past(s, i)
<1>1. at' = [at EXCEPT !.split = at.split + 1, !.input = 1] /\ at.split < Len(Splits)
  BY DEF Compute, NextSplit
<1>2. /\ at # Idle /\ ~CopiesInput /\ at.split \in DOMAIN Splits /\ DOMAIN Splits = 1 .. Len(Splits)
      /\ at = [sched |-> at.sched, split |-> at.split, input |-> at.input, ids |-> at.ids]
      /\ Len(Splits) \in Nat /\ at.input \in 1 .. Len(Split.inputs) + 1
      /\ \A s \in DOMAIN Splits : IsSeq(Splits[s].inputs)
  BY GraphUnderWay, SetupIs DEF HeldInv, TypeInv, Compute
<1>3. at'.sched = at.sched /\ at'.split = at.split + 1 /\ at'.input = 1 /\ at'.ids = at.ids
  BY <1>1, <1>2
<1>4. at.split + 1 \in DOMAIN Splits
  BY <1>1, <1>2
<1>5. ASSUME NEW s \in 1 .. at.split + 1, NEW i \in DOMAIN Splits[s].inputs, Past(s, i)'
      PROVE  s \in 1 .. at.split /\ Past(s, i)
  <2>1. s \in DOMAIN Splits
    BY <1>2, <1>4
  <2>2. i \in 1 .. Len(Splits[s].inputs) /\ Len(Splits[s].inputs) \in Nat
    BY <1>2, <2>1, SequenceIs
  <2>3. s < at.split + 1
    BY <1>3, <1>5, <2>2 DEF Past
  <2>4. s \in 1 .. at.split
    BY <1>2, <2>3
  <2>5. CASE s = at.split
    <3>1. i < at.input
      BY <1>2, <2>2, <2>5 DEF CopiesInput, Split
    <3> QED
      BY <2>4, <2>5, <3>1 DEF Past
  <2>6. CASE s # at.split
    BY <1>2, <2>4, <2>6 DEF Past
  <2> QED
    BY <2>4, <2>5, <2>6
<1> QED
  BY <1>3, <1>4, <1>5

LEMMA ComputeBegun ==
  ASSUME HeldInv, ReadsInv, Compute
  PROVE  BegunInv' /\ CopiedByHost(setup)' /\ CapturesInv'
<1>1. UNCHANGED <<setup, round, copies, scheds, user>> /\ at # Idle
  BY DEF Compute, host
<1>2. BegunInv'
  <2> SUFFICES ASSUME at' # Idle
               PROVE  /\ user'[<<D', scheds'[D'].built>>] = round' /\ scheds'[D'].alloc
                      /\ at'.ids.tensor # NoTensor => at'.ids.value = round'
    BY DEF BegunInv
  <2>1. D' = D /\ at'.ids = at.ids
    BY NextSplitIs DEF D
  <2> QED
    BY <1>1, <2>1 DEF ReadsInv, BegunInv
<1>3. graphs' = graphs \/ (graphs' = IF Captures THEN [graphs EXCEPT ![<<D, at.split>>] = Launch.keeps] ELSE graphs)
  BY DEF Compute
<1>4. CapturesInv'
  <2>1. CASE graphs' = IF Captures THEN [graphs EXCEPT ![<<D, at.split>>] = Launch.keeps] ELSE graphs
    BY <1>1, <2>1, CapturesKept
  <2>2. CASE graphs' = graphs
    BY <1>1, <2>2 DEF ReadsInv, CapturesInv, PropsOf, SplitsOf, Splits, Plan, Kept, Addresses
  <2> QED
    BY <1>3, <2>1, <2>2
<1> QED
  BY <1>1, <1>2, <1>4 DEF ReadsInv, CopiedByHost

\* The CPU computes the split.
LEMMA ComputeHereReads ==
  ASSUME HeldInv, ReadsInv, Compute, B = Cpu
  PROVE  ReadsInv'
<1>1. /\ UNCHANGED <<setup, round, copies, scheds, slots, user, queue>> /\ at # Idle
      /\ result' = [result EXCEPT ![<<D, at.split>>] = round]
      /\ setup \in Setups /\ at.split \in DOMAIN Splits /\ round \in Nat
      /\ DOMAIN Splits = 1 .. Len(Splits) /\ Len(Splits) \in Nat
  BY GraphUnderWay, SetupIs DEF Compute, host, HeldInv, TypeInv
<1>2. Splits' = Splits /\ Plan' = Plan /\ AllCopies' = AllCopies /\ Copied' = Copied /\ SplitsOf' = SplitsOf
  BY <1>1 DEF Splits, Plan, AllCopies, Copied, SplitsOf
<1>3. result \in [SplitsOf -> 0 .. round] /\ result' \in [SplitsOf -> 0 .. round]
  <2>1. result \in [SplitsOf -> 0 .. round]
    BY DEF ReadsInv, BoundInv
  <2>2. round \in 0 .. round
    BY <1>1
  <2> QED
    BY <1>1, <2>1, <2>2
<1>4. \A d, s : <<d, s>> \in SplitsOf /\ s # at.split => result'[<<d, s>>] = result[<<d, s>>]
  <2> SUFFICES ASSUME NEW d, NEW s, <<d, s>> \in SplitsOf, s # at.split
               PROVE  result'[<<d, s>>] = result[<<d, s>>]
    OBVIOUS
  <2>1. PICK k \in SplitsOf : k = <<d, s>>
    OBVIOUS
  <2>2. k # <<D, at.split>>
    BY <2>1
  <2> QED
    BY <1>1, <1>3, <2>1, <2>2
<1>5. BoundInv'
  BY <1>1, <1>2, <1>3 DEF ReadsInv, BoundInv
<1>6. ComputesInv'
  <2>1. \A d \in setup.scheds, s \in DOMAIN Splits : Splits[s].on # Cpu => result'[<<d, s>>] = result[<<d, s>>]
    BY <1>4 DEF SplitsOf, B, Split
  <2>2. at' # Idle => at'.sched = at.sched
    BY NextSplitIs
  <2>3. ASSUME NEW b \in Devices, NEW i \in DOMAIN queue[b], queue[b][i].op = "compute"
        PROVE  /\ SlotsOK(queue[b], b, i)' /\ DirectOK(queue[b], b, i)'
               /\ PlacedOK(queue[b], i)' /\ EventsOK(queue[b], b, i)'
    BY <1>1, <2>1, <2>2, <2>3, SentStand
  <2> QED
    BY <1>1, <2>3 DEF ComputesInv
<1>7. CopiedInv'
  <2> SUFFICES ASSUME at' # Idle, NEW s \in 1 .. at.split + 1, NEW i \in DOMAIN Splits[s].inputs, Past(s, i)',
                      NEW b, b = Splits[s].on, NEW t, t = Splits[s].inputs[i]
               PROVE  Held(slots[<<D, <<b, t>>, Cur>>], queue[b], QueueLen(b), D, t, Cur, round)
    <3>1. at' # Idle => at'.split = at.split + 1 /\ D' = D /\ Cur' = Cur
      BY <1>1, NextSplitIs DEF D, Cur
    <3> QED
      BY <1>1, <1>2, <3>1 DEF CopiedInv, QueueLen
  <2>1. s \in 1 .. at.split /\ Past(s, i)
    BY NextSplitIs
  <2> QED
    BY <1>1, <2>1 DEF ReadsInv, CopiedInv
<1>8. MadeInv'
  <2> SUFFICES ASSUME at' # Idle, NEW s \in 1 .. at.split, NEW b, b = Splits[s].on
               PROVE  Made(result'[<<D, s>>], queue[b], QueueLen(b), D, s, round)
    <3>1. at' # Idle => at'.split = at.split + 1 /\ D' = D
      BY <1>1, NextSplitIs DEF D
    <3>2. at.split + 1 - 1 = at.split
      BY <1>1
    <3> QED
      BY <1>1, <1>2, <3>1, <3>2 DEF MadeInv, QueueLen
  <2>1. D \in setup.scheds /\ s \in DOMAIN Splits
    BY <1>1, GraphUnderWay DEF HeldInv
  <2>2. CASE s = at.split
    <3>1. <<D, at.split>> \in SplitsOf
      BY <2>1, <2>2 DEF SplitsOf
    <3>2. result'[<<D, s>>] = round
      BY <1>1, <1>3, <2>2, <3>1
    <3>3. QueueLen(b) = 0
      BY <2>2 DEF QueueLen, B, Split
    <3> QED
      BY <3>2, <3>3 DEF Made
  <2>3. CASE s # at.split
    <3>1. s \in 1 .. at.split - 1
      BY <1>1, <2>3
    <3>2. result'[<<D, s>>] = result[<<D, s>>]
      BY <1>4, <2>1, <2>3 DEF SplitsOf
    <3> QED
      BY <1>1, <3>1, <3>2 DEF ReadsInv, MadeInv
  <2> QED
    BY <2>2, <2>3
<1> QED
  BY <1>5, <1>6, <1>7, <1>8, ComputeBegun DEF ReadsInv

\* The split is sent to its device.
LEMMA ComputeSentReads ==
  ASSUME HeldInv, ReadsInv, Compute, B # Cpu
  PROVE  ReadsInv'
<1>1. /\ UNCHANGED <<setup, round, copies, scheds, slots, user, result>> /\ at # Idle
      /\ setup \in Setups /\ at.split \in DOMAIN Splits /\ round \in Nat /\ D \in setup.scheds
      /\ DOMAIN Splits = 1 .. Len(Splits) /\ Len(Splits) \in Nat
      /\ \A e \in Devices : IsSeq(queue[e])
  BY GraphUnderWay, SetupIs DEF Compute, host, HeldInv, TypeInv
<1>2. Splits' = Splits /\ Plan' = Plan /\ AllCopies' = AllCopies /\ Copied' = Copied /\ SplitsOf' = SplitsOf
  BY <1>1 DEF Splits, Plan, AllCopies, Copied, SplitsOf
<1>3. PICK e, n, m : e = B /\ n = Len(queue[e]) /\ m = Len(queue'[e])
  OBVIOUS
<1>4. /\ e \in Devices /\ n \in Nat /\ m \in Nat /\ n + 1 <= m /\ DOMAIN queue'[e] = 1 .. m
      /\ DOMAIN queue[e] = 1 .. n
      /\ \A b \in Devices \ {e} : queue'[b] = queue[b]
      /\ \A i \in 1 .. n : queue'[e][i] = queue[e][i]
      /\ queue'[e][n + 1] = ComputeOp
      /\ \A i \in n + 2 .. m : queue'[e][i].op = "record"
  <2>1. /\ e \in Devices /\ IsSeq(queue'[e]) /\ n \in Nat
        /\ DOMAIN queue[e] = 1 .. n
        /\ \A b \in Devices \ {e} : queue'[b] = queue[b]
        /\ \A i \in 1 .. n : queue'[e][i] = queue[e][i]
        /\ queue'[e][n + 1] = ComputeOp
    BY <1>3, SplitAdded
  <2>2. IF Recorded THEN DOMAIN queue'[e] = 1 .. n + 2 /\ queue'[e][n + 2] = RecordOp(SlotEvent(B))
        ELSE DOMAIN queue'[e] = 1 .. n + 1
    BY <1>3, SplitAdded
  <2>3. m \in Nat /\ DOMAIN queue'[e] = 1 .. m
    BY <1>3, <2>1, SequenceIs
  <2>4. n + 1 <= m /\ m <= n + 2 /\ (m = n + 2 => Recorded)
    <3>1. CASE Recorded
      <4>1. 1 .. m = 1 .. n + 2
        BY <2>2, <2>3, <3>1
      <4> QED
        BY <2>1, <2>3, <3>1, <4>1
    <3>2. CASE ~Recorded
      <4>1. 1 .. m = 1 .. n + 1
        BY <2>2, <2>3, <3>2
      <4> QED
        BY <2>1, <2>3, <3>2, <4>1
    <3> QED
      BY <3>1, <3>2
  <2>5. \A i \in n + 2 .. m : queue'[e][i].op = "record"
    <3> SUFFICES ASSUME NEW i \in n + 2 .. m PROVE queue'[e][i].op = "record"
      OBVIOUS
    <3>1. i = n + 2 /\ Recorded
      BY <2>1, <2>3, <2>4
    <3>2. RecordOp(SlotEvent(B)).op = "record"
      BY DEF RecordOp, Operation
    <3> QED
      BY <2>2, <3>1, <3>2
  <2> QED
    BY <2>1, <2>3, <2>4, <2>5
<1>5. PICK o : /\ o = queue'[e][n + 1]
               /\ o.op = "compute" /\ o.sched = D /\ o.split = at.split
               /\ o.to = Props /\ o.value = round /\ o.count = scheds[D].shape
  BY <1>1, <1>4, ComputeOpIs
<1>6. Props.slot \in AllCopies /\ (Split.copied # {} => Props.slot = Cur)
  BY <1>1, PropsIs
<1>7. \A i \in 1 .. m : i \in 1 .. n \/ i = n + 1 \/ i \in n + 2 .. m
  BY <1>4
<1>8. BoundInv'
  <2>1. ASSUME NEW b \in Devices, NEW i \in DOMAIN queue'[b]
        PROVE  /\ queue'[b][i].op # "copy"
               /\ queue'[b][i].op \in {"set", "compute"} =>
                    queue'[b][i].value \in 0 .. round /\ queue'[b][i].to.slot \in AllCopies
               /\ queue'[b][i].op = "set" =>
                    queue'[b][i].split \in DOMAIN Splits /\ Splits[queue'[b][i].split].on = b
    <3>1. CASE i \in DOMAIN queue[b] /\ queue'[b][i] = queue[b][i]
      BY <3>1 DEF ReadsInv, BoundInv
    <3>2. CASE b # e
      BY <1>4, <3>1, <3>2
    <3>3. CASE b = e /\ i \in 1 .. n
      BY <1>4, <3>1, <3>3
    <3>4. CASE b = e /\ i = n + 1
      <4>1. queue'[b][i] = o /\ round \in 0 .. round
        BY <1>1, <1>5, <3>4
      <4> QED
        BY <1>5, <1>6, <4>1
    <3>5. CASE b = e /\ i \in n + 2 .. m
      <4>1. queue'[b][i].op = "record"
        BY <1>4, <3>5
      <4> QED
        BY <4>1
    <3> QED
      BY <1>4, <1>7, <3>2, <3>3, <3>4, <3>5
  <2> QED
    BY <1>1, <1>2, <2>1 DEF ReadsInv, BoundInv
<1>9. at' # Idle => at'.sched = at.sched /\ at'.split = at.split + 1 /\ D' = D /\ Cur' = Cur
  BY <1>1, NextSplitIs DEF D, Cur
<1>10. ComputesInv'
  <2> SUFFICES ASSUME NEW b \in Devices, NEW i \in DOMAIN queue'[b], queue'[b][i].op = "compute"
               PROVE  /\ SlotsOK(queue[b], b, i)' /\ DirectOK(queue[b], b, i)'
                      /\ PlacedOK(queue[b], i)' /\ EventsOK(queue[b], b, i)'
    BY DEF ComputesInv
  <2>1. CASE i \in DOMAIN queue[b] /\ queue'[b][i] = queue[b][i]
    <3>1. \A j \in DOMAIN queue[b] : j \in DOMAIN queue'[b] /\ queue'[b][j] = queue[b][j]
      BY <1>4
    <3> QED
      BY <1>1, <1>9, <2>1, <3>1, SentStand
  <2>2. CASE b # e
    BY <1>4, <2>1, <2>2
  <2>3. CASE b = e /\ i \in 1 .. n
    BY <1>4, <2>1, <2>3
  <2>4. CASE b = e /\ i = n + 1
    <3>1. /\ SlotsOK(queue'[b], b, i) /\ DirectOK(queue'[b], b, i) /\ PlacedOK(queue'[b], i)
          /\ copies > 1 /\ (Split.copied # {} \/ setup.sourceEvent) => Followed(queue'[b], b, i, Cur)
      BY <1>3, <2>4, SentReads
    <3>2. SlotsOK(queue[b], b, i)' /\ DirectOK(queue[b], b, i)' /\ PlacedOK(queue[b], i)'
      BY <1>1, <1>2, <3>1 DEF SlotsOK, DirectOK, PlacedOK
    <3>3. \A c : Followed(queue'[b], b, i, c) => Followed(queue[b], b, i, c)'
      BY DEF Followed
    <3>4. queue'[b][i] = o
      BY <1>5, <2>4
    <3>5. EventsOK(queue[b], b, i)'
      BY <1>1, <1>2, <1>5, <1>6, <1>9, <3>1, <3>3, <3>4 DEF EventsOK, Split
    <3> QED
      BY <3>2, <3>5
  <2>5. CASE b = e /\ i \in n + 2 .. m
    BY <1>4, <2>5
  <2> QED
    BY <1>4, <1>7, <2>2, <2>3, <2>4, <2>5
<1>11. CopiedInv'
  <2> SUFFICES ASSUME at' # Idle, NEW s \in 1 .. at.split + 1, NEW i \in DOMAIN Splits[s].inputs, Past(s, i)',
                      NEW b, b = Splits[s].on, NEW t, t = Splits[s].inputs[i]
               PROVE  Held(slots[<<D, <<b, t>>, Cur>>], queue'[b], QueueLen(b)', D, t, Cur, round)
    BY <1>1, <1>2, <1>9 DEF CopiedInv, QueueLen
  <2>1. s \in 1 .. at.split /\ Past(s, i)
    BY NextSplitIs
  <2>2. Held(slots[<<D, <<b, t>>, Cur>>], queue[b], QueueLen(b), D, t, Cur, round)
    BY <1>1, <2>1 DEF ReadsInv, CopiedInv
  <2>3. CASE b = e
    <3>1. QueueLen(b) = n /\ QueueLen(b)' = m
      BY <1>3, <1>4, <2>3, SetupIs, <1>1 DEF QueueLen
    <3>2. \A j \in n + 1 .. m : ~Sets(queue'[b][j], D, t, Cur)
      <4>1. \A j \in n + 1 .. m : j = n + 1 \/ j \in n + 2 .. m
        BY <1>4
      <4> QED
        BY <1>4, <1>5, <2>3, <4>1 DEF Sets
    <3>3. Held(slots[<<D, <<b, t>>, Cur>>], queue'[b], m, D, t, Cur, round)
      <4>1. Held(slots[<<D, <<b, t>>, Cur>>], queue[b], n, D, t, Cur, round)
        BY <2>2, <3>1
      <4>2. n \in Nat /\ m \in Nat /\ n <= m /\ round \in Nat
        BY <1>1, <1>4
      <4>3. \A j \in 1 .. n : queue'[b][j] = queue[b][j]
        BY <1>4, <2>3
      <4> QED
        BY <3>2, <4>1, <4>2, <4>3, HeldLonger
    <3> QED
      BY <3>1, <3>3
  <2>4. CASE b # e
    <3>1. b \in Devices \cup {Cpu}
      <4>1. s \in DOMAIN Splits
        BY <1>1, <2>1
      <4> QED
        BY <1>1, <4>1, SetupIs
    <3>2. CASE b = Cpu
      <4>1. QueueLen(b) = 0 /\ QueueLen(b)' = 0
        BY <3>2 DEF QueueLen
      <4> QED
        BY <2>2, <4>1 DEF Held
    <3>3. CASE b \in Devices
      <4>1. queue'[b] = queue[b] /\ QueueLen(b)' = QueueLen(b)
        BY <1>4, <2>4, <3>3 DEF QueueLen
      <4> QED
        BY <2>2, <4>1
    <3> QED
      BY <3>1, <3>2, <3>3
  <2> QED
    BY <2>3, <2>4
<1>12. MadeInv'
  <2> SUFFICES ASSUME at' # Idle, NEW s \in 1 .. at.split, NEW b, b = Splits[s].on
               PROVE  Made(result[<<D, s>>], queue'[b], QueueLen(b)', D, s, round)
    <3>1. at.split + 1 - 1 = at.split
      BY <1>1
    <3> QED
      BY <1>1, <1>2, <1>9, <3>1 DEF MadeInv, QueueLen
  <2>1. \A j \in n + 2 .. m : ~Computes(queue'[e][j], D, s)
    BY <1>4 DEF Computes
  <2>2. CASE s = at.split
    <3>1. b = e /\ QueueLen(b)' = m
      BY <1>1, <1>3, <1>4, <2>2, SetupIs DEF QueueLen, B, Split
    <3>2. n + 1 \in 1 .. m /\ Computes(queue'[e][n + 1], D, s) /\ queue'[e][n + 1].value = round
      BY <1>4, <1>5, <2>2 DEF Computes
    <3>3. n + 1 + 1 = n + 2
      BY <1>4
    <3> QED
      BY <2>1, <3>1, <3>2, <3>3 DEF Made
  <2>3. CASE s # at.split
    <3>1. s \in 1 .. at.split - 1 /\ s \in DOMAIN Splits
      BY <1>1, <2>3
    <3>2. Made(result[<<D, s>>], queue[b], QueueLen(b), D, s, round)
      BY <1>1, <3>1 DEF ReadsInv, MadeInv
    <3>3. CASE b = e
      <4>1. QueueLen(b) = n /\ QueueLen(b)' = m
        BY <1>1, <1>3, <1>4, <3>3, SetupIs DEF QueueLen
      <4>2. \A j \in n + 1 .. m : ~Computes(queue'[b][j], D, s)
        <5>1. \A j \in n + 1 .. m : j = n + 1 \/ j \in n + 2 .. m
          BY <1>4
        <5> QED
          BY <1>5, <2>1, <2>3, <3>3, <5>1 DEF Computes
      <4>3. Made(result[<<D, s>>], queue'[b], m, D, s, round)
        BY <1>4, <3>2, <3>3, <4>1, <4>2, MadeLonger
      <4> QED
        BY <4>1, <4>3
    <3>4. CASE b # e
      <4>1. b \in Devices \cup {Cpu}
        BY <1>1, <3>1, SetupIs
      <4>2. CASE b = Cpu
        <5>1. QueueLen(b) = 0 /\ QueueLen(b)' = 0
          BY <4>2 DEF QueueLen
        <5> QED
          BY <3>2, <5>1 DEF Made
      <4>3. CASE b \in Devices
        <5>1. queue'[b] = queue[b] /\ QueueLen(b)' = QueueLen(b)
          BY <1>4, <3>4, <4>3 DEF QueueLen
        <5> QED
          BY <3>2, <5>1
      <4> QED
        BY <4>1, <4>2, <4>3
    <3> QED
      BY <3>3, <3>4
  <2> QED
    BY <2>2, <2>3
<1> QED
  BY <1>8, <1>10, <1>11, <1>12, ComputeBegun DEF ReadsInv

\* A stream does its first operation: experts are set in a slot of its device, which may have
\* been set for a later graph, or a split of its device is computed.
LEMMA PerformIs ==
  ASSUME HeldInv, ReadsInv, NEW b \in Devices, Perform(b), NEW o, o = queue[b][1], NEW n, n = Len(queue[b])
  PROVE  /\ UNCHANGED <<setup, round, copies, scheds, at, user, graphs>>
         /\ n \in Nat \ {0} /\ DOMAIN queue[b] = 1 .. n /\ DOMAIN queue'[b] = 1 .. n - 1
         /\ Len(queue'[b]) = n - 1
         /\ \A i \in 1 .. n - 1 : queue'[b][i] = queue[b][i + 1]
         /\ \A e \in Devices \ {b} : queue'[e] = queue[e]
         /\ slots' \in [setup.scheds \X Copied \X AllCopies -> 0 .. round]
         /\ result' \in [SplitsOf -> 0 .. round]
         /\ \A d, e, t, c : <<d, <<e, t>>, c>> \in setup.scheds \X Copied \X AllCopies =>
              slots'[<<d, <<e, t>>, c>>] =
                IF e = b /\ Sets(o, d, t, c) /\ o.value > slots[<<d, <<e, t>>, c>>] THEN o.value
                ELSE slots[<<d, <<e, t>>, c>>]
         /\ \A d, s : <<d, s>> \in SplitsOf =>
              result'[<<d, s>>] = IF Computes(o, d, s) THEN o.value ELSE result[<<d, s>>]
         /\ o.op = "compute" => Splits[o.split].on = b
         /\ o.op \in {"set", "compute"} => o.value \in 0 .. round
<1>2. /\ IsSeq(queue[b]) /\ queue[b] # <<>> /\ DOMAIN queue = Devices /\ round \in Nat
      /\ UNCHANGED <<setup, round, copies, scheds, at, user, graphs>>
  BY DEF HeldInv, TypeInv, Perform, host
<1>3. /\ n \in Nat \ {0} /\ DOMAIN queue[b] = 1 .. n /\ Head(queue[b]) = o
      /\ Len(Tail(queue[b])) = n - 1 /\ DOMAIN Tail(queue[b]) = 1 .. n - 1
      /\ \A i \in 1 .. n - 1 : Tail(queue[b])[i] = queue[b][i + 1]
  BY <1>2, TailIs, SequenceIs
<1>4. queue' = [queue EXCEPT ![b] = Tail(queue[b])]
  BY DEF Perform
<1>5. /\ DOMAIN queue'[b] = 1 .. n - 1 /\ Len(queue'[b]) = n - 1
      /\ \A i \in 1 .. n - 1 : queue'[b][i] = queue[b][i + 1]
      /\ \A e \in Devices \ {b} : queue'[e] = queue[e]
  <2>1. queue'[b] = Tail(queue[b]) /\ \A e \in Devices \ {b} : queue'[e] = queue[e]
    BY <1>2, <1>4
  <2> QED
    BY <1>3, <2>1
<1>6. /\ slots' = CASE o.op = "copy" -> [slots EXCEPT ![SlotOf(o)] = Holds(o.sched, o.tensor, o.value)]
                    [] o.op = "set" -> [slots EXCEPT ![SlotOf(o)] =
                                          IF o.value > slots[SlotOf(o)] THEN o.value ELSE slots[SlotOf(o)]]
                    [] OTHER -> slots
      /\ result' = IF o.op = "compute" THEN [result EXCEPT ![<<o.sched, o.split>>] = o.value] ELSE result
  BY <1>3 DEF Perform
<1>7. 1 \in DOMAIN queue[b]
  BY <1>3
<1>8. /\ o.op # "copy" /\ (o.op \in {"set", "compute"} => o.value \in 0 .. round)
      /\ o.op = "set" => Splits[o.split].on = b
      /\ o.op = "compute" => Splits[o.split].on = b
  BY <1>7 DEF ReadsInv, BoundInv, HeldInv, SentInv, SentOK
<1>9. /\ slots \in [setup.scheds \X Copied \X AllCopies -> 0 .. round]
      /\ result \in [SplitsOf -> 0 .. round]
  BY DEF ReadsInv, BoundInv
<1>10. /\ slots' \in [setup.scheds \X Copied \X AllCopies -> 0 .. round]
       /\ \A d, e, t, c : <<d, <<e, t>>, c>> \in setup.scheds \X Copied \X AllCopies =>
            slots'[<<d, <<e, t>>, c>>] =
              IF e = b /\ Sets(o, d, t, c) /\ o.value > slots[<<d, <<e, t>>, c>>] THEN o.value
              ELSE slots[<<d, <<e, t>>, c>>]
  <2>1. CASE o.op # "set"
    <3>1. slots' = slots
      BY <1>6, <1>8, <2>1
    <3> QED
      BY <1>9, <2>1, <3>1 DEF Sets
  <2>2. CASE o.op = "set"
    <3>1. PICK key : key = SlotOf(o)
      OBVIOUS
    <3>2. key = <<o.sched, <<b, o.tensor>>, o.to.slot>>
      BY <1>8, <2>2, <3>1 DEF SlotOf
    <3>3. slots' = [slots EXCEPT ![key] = IF o.value > slots[key] THEN o.value ELSE slots[key]]
      BY <1>6, <2>2, <3>1
    <3>4. \A k \in setup.scheds \X Copied \X AllCopies :
            slots'[k] = IF k = key /\ o.value > slots[k] THEN o.value ELSE slots[k]
      BY <1>9, <3>3
    <3>5. slots' \in [setup.scheds \X Copied \X AllCopies -> 0 .. round]
      BY <1>8, <1>9, <2>2, <3>3
    <3>6. \A d, e, t, c : <<d, <<e, t>>, c>> = key <=> e = b /\ Sets(o, d, t, c)
      BY <2>2, <3>2 DEF Sets
    <3>7. ASSUME NEW d, NEW e, NEW t, NEW c, <<d, <<e, t>>, c>> \in setup.scheds \X Copied \X AllCopies
          PROVE  slots'[<<d, <<e, t>>, c>>] =
                   IF e = b /\ Sets(o, d, t, c) /\ o.value > slots[<<d, <<e, t>>, c>>] THEN o.value
                   ELSE slots[<<d, <<e, t>>, c>>]
      <4>1. PICK k \in setup.scheds \X Copied \X AllCopies : k = <<d, <<e, t>>, c>>
        BY <3>7
      <4>2. slots'[k] = IF k = key /\ o.value > slots[k] THEN o.value ELSE slots[k]
        BY <3>4
      <4>3. k = key <=> e = b /\ Sets(o, d, t, c)
        BY <3>6, <4>1
      <4> QED
        BY <4>1, <4>2, <4>3
    <3> QED
      BY <3>5, <3>7
  <2> QED
    BY <2>1, <2>2
<1>11. /\ result' \in [SplitsOf -> 0 .. round]
       /\ \A d, s : <<d, s>> \in SplitsOf =>
            result'[<<d, s>>] = IF Computes(o, d, s) THEN o.value ELSE result[<<d, s>>]
  <2>1. CASE o.op # "compute"
    <3>1. result' = result
      BY <1>6, <2>1
    <3> QED
      BY <1>9, <2>1, <3>1 DEF Computes
  <2>2. CASE o.op = "compute"
    <3>1. PICK key : key = <<o.sched, o.split>>
      OBVIOUS
    <3>2. result' = [result EXCEPT ![key] = o.value]
      BY <1>6, <2>2, <3>1
    <3>3. \A k \in SplitsOf : result'[k] = IF k = key THEN o.value ELSE result[k]
      BY <1>9, <3>2
    <3>4. result' \in [SplitsOf -> 0 .. round]
      BY <1>8, <1>9, <2>2, <3>2
    <3>5. \A d, s : <<d, s>> = key <=> Computes(o, d, s)
      BY <2>2, <3>1 DEF Computes
    <3> QED
      BY <3>3, <3>4, <3>5
  <2> QED
    BY <2>1, <2>2
<1> QED
  BY <1>2, <1>3, <1>5, <1>8, <1>10, <1>11

LEMMA PerformReads ==
  ASSUME HeldInv, ReadsInv, NEW b \in Devices, Perform(b)
  PROVE  ReadsInv'
<1>1. PICK o, n : o = queue[b][1] /\ n = Len(queue[b])
  OBVIOUS
<1>2. /\ UNCHANGED <<setup, round, copies, scheds, at, user, graphs>>
      /\ n \in Nat \ {0} /\ DOMAIN queue[b] = 1 .. n /\ DOMAIN queue'[b] = 1 .. n - 1
      /\ Len(queue'[b]) = n - 1
      /\ \A i \in 1 .. n - 1 : queue'[b][i] = queue[b][i + 1]
      /\ \A e \in Devices \ {b} : queue'[e] = queue[e]
  BY <1>1, PerformIs
<1>3. /\ slots' \in [setup.scheds \X Copied \X AllCopies -> 0 .. round]
      /\ result' \in [SplitsOf -> 0 .. round]
  BY <1>1, PerformIs
<1>4. \A d, e, t, c : <<d, <<e, t>>, c>> \in setup.scheds \X Copied \X AllCopies =>
        slots'[<<d, <<e, t>>, c>>] =
          IF e = b /\ Sets(o, d, t, c) /\ o.value > slots[<<d, <<e, t>>, c>>] THEN o.value
          ELSE slots[<<d, <<e, t>>, c>>]
  BY <1>1, PerformIs
<1>5. /\ \A d, s : <<d, s>> \in SplitsOf =>
           result'[<<d, s>>] = IF Computes(o, d, s) THEN o.value ELSE result[<<d, s>>]
      /\ \A d, s : Computes(o, d, s) => Splits[s].on = b
  <2>1. \A d, s : <<d, s>> \in SplitsOf =>
          result'[<<d, s>>] = IF Computes(o, d, s) THEN o.value ELSE result[<<d, s>>]
    BY <1>1, PerformIs
  <2>2. o.op = "compute" => Splits[o.split].on = b
    BY <1>1, PerformIs
  <2> QED
    BY <2>1, <2>2 DEF Computes
<1>6. o.op \in {"set", "compute"} => o.value \in 0 .. round
  BY <1>1, PerformIs
<1>7. /\ Splits' = Splits /\ Plan' = Plan /\ AllCopies' = AllCopies /\ Copied' = Copied
      /\ SplitsOf' = SplitsOf /\ D' = D /\ Cur' = Cur
  BY <1>2 DEF Splits, Plan, AllCopies, Copied, SplitsOf, D, Cur
<1>8. /\ setup \in Setups /\ round \in Nat /\ DOMAIN Splits = 1 .. Len(Splits) /\ Len(Splits) \in Nat
      /\ \A e \in Devices : IsSeq(queue[e]) /\ DOMAIN queue[e] = 1 .. Len(queue[e]) /\ Len(queue[e]) \in Nat
  BY SequenceIs, SetupIs DEF HeldInv, TypeInv
<1>9. slots \in [setup.scheds \X Copied \X AllCopies -> 0 .. round]
  BY DEF ReadsInv, BoundInv
<1>10. BoundInv'
  <2>1. ASSUME NEW e \in Devices, NEW i \in DOMAIN queue'[e]
        PROVE  \E j \in DOMAIN queue[e] : queue'[e][i] = queue[e][j]
    <3>1. CASE e = b
      <4>1. i \in 1 .. n - 1 /\ i + 1 \in 1 .. n
        BY <1>2, <3>1
      <4> QED
        BY <1>2, <3>1, <4>1
    <3>2. CASE e # b
      BY <1>2, <3>2
    <3> QED
      BY <3>1, <3>2
  <2>2. ASSUME NEW e \in Devices, NEW i \in DOMAIN queue'[e]
        PROVE  /\ queue'[e][i].op # "copy"
               /\ queue'[e][i].op \in {"set", "compute"} =>
                    queue'[e][i].value \in 0 .. round /\ queue'[e][i].to.slot \in AllCopies
               /\ queue'[e][i].op = "set" =>
                    queue'[e][i].split \in DOMAIN Splits /\ Splits[queue'[e][i].split].on = e
    <3>1. PICK j \in DOMAIN queue[e] : queue'[e][i] = queue[e][j]
      BY <2>1
    <3> QED
      BY <3>1 DEF ReadsInv, BoundInv
  <2> QED
    BY <1>2, <1>3, <1>7, <2>2 DEF ReadsInv, BoundInv
\* What a slot or a result will hold, of any device, is the same after one operation less.
<1>11. ASSUME NEW k \in Nat \ {0}, NEW d, NEW t, NEW c, NEW r \in Nat,
              <<d, <<b, t>>, c>> \in setup.scheds \X Copied \X AllCopies, k <= n,
              Held(slots[<<d, <<b, t>>, c>>], queue[b], k, d, t, c, r)
       PROVE  Held(slots'[<<d, <<b, t>>, c>>], queue'[b], k - 1, d, t, c, r)
  <2>1. PICK v, w : v = slots[<<d, <<b, t>>, c>>] /\ w = slots'[<<d, <<b, t>>, c>>]
    OBVIOUS
  <2>2. v \in Int
    BY <1>8, <1>9, <1>11, <2>1
  <2>3. w = IF Sets(o, d, t, c) /\ o.value > v THEN o.value ELSE v
    BY <1>4, <1>11, <2>1
  <2>4. Sets(o, d, t, c) => o.value \in Int
    BY <1>6 DEF Sets
  <2>5. \A j \in 1 .. k - 1 : queue'[b][j] = queue[b][j + 1]
    BY <1>2, <1>11
  <2>6. PICK q, p : q = queue[b] /\ p = queue'[b]
    OBVIOUS
  <2>7. /\ Held(v, q, k, d, t, c, r) /\ \A j \in 1 .. k - 1 : p[j] = q[j + 1]
        /\ (Sets(q[1], d, t, c) => q[1].value \in Int)
        /\ w = IF Sets(q[1], d, t, c) /\ q[1].value > v THEN q[1].value ELSE v
    BY <1>1, <1>11, <2>1, <2>3, <2>4, <2>5, <2>6
  <2>8. Held(w, p, k - 1, d, t, c, r)
    BY <2>2, <2>7, HeldTail
  <2> QED
    BY <2>1, <2>6, <2>8
<1>12. ASSUME NEW k \in Nat \ {0}, NEW d, NEW s, NEW r, <<d, s>> \in SplitsOf, k <= n,
              Made(result[<<d, s>>], queue[b], k, d, s, r)
       PROVE  Made(result'[<<d, s>>], queue'[b], k - 1, d, s, r)
  <2>1. PICK v, w : v = result[<<d, s>>] /\ w = result'[<<d, s>>]
    OBVIOUS
  <2>2. w = IF Computes(o, d, s) THEN o.value ELSE v
    BY <1>5, <1>12, <2>1
  <2>3. \A j \in 1 .. k - 1 : queue'[b][j] = queue[b][j + 1]
    BY <1>2, <1>12
  <2> QED
    BY <1>1, <1>12, <2>1, <2>2, <2>3, MadeTail
<1>13. ASSUME NEW d, NEW e, NEW t, NEW c, <<d, <<e, t>>, c>> \in setup.scheds \X Copied \X AllCopies, e # b
       PROVE  slots'[<<d, <<e, t>>, c>>] = slots[<<d, <<e, t>>, c>>]
  BY <1>4, <1>13
<1>14. ASSUME NEW d, NEW s, <<d, s>> \in SplitsOf, Splits[s].on # b
       PROVE  result'[<<d, s>>] = result[<<d, s>>]
  BY <1>5, <1>14
<1>15. ComputesInv'
  <2> SUFFICES ASSUME NEW e \in Devices, NEW i \in DOMAIN queue'[e], queue'[e][i].op = "compute"
               PROVE  /\ SlotsOK(queue[e], e, i)' /\ DirectOK(queue[e], e, i)'
                      /\ PlacedOK(queue[e], i)' /\ EventsOK(queue[e], e, i)'
    BY DEF ComputesInv
  <2>1. PICK j : j = IF e = b THEN i + 1 ELSE i
    OBVIOUS
  <2>2. j \in DOMAIN queue[e] /\ queue'[e][i] = queue[e][j] /\ i \in Nat \ {0} /\ j \in Nat \ {0}
    <3>1. CASE e = b
      BY <1>2, <2>1, <3>1
    <3>2. CASE e # b
      <4>1. queue'[e] = queue[e] /\ j = i
        BY <1>2, <2>1, <3>2
      <4> QED
        BY <1>8, <4>1
    <3> QED
      BY <3>1, <3>2
  <2>3. PICK p : p = queue[e][j] /\ queue'[e][i] = p /\ p.op = "compute"
    BY <2>2
  <2>4. /\ SlotsOK(queue[e], e, j) /\ DirectOK(queue[e], e, j)
        /\ PlacedOK(queue[e], j) /\ EventsOK(queue[e], e, j)
    BY <2>2, <2>3 DEF ReadsInv, ComputesInv
  <2>5. /\ p.sched \in setup.scheds /\ p.split \in DOMAIN Splits /\ Splits[p.split].on = e
        /\ p.value \in Nat /\ p.to.slot \in AllCopies
    <3>1. p.value \in 0 .. round /\ p.to.slot \in AllCopies
      BY <2>2, <2>3 DEF ReadsInv, BoundInv
    <3> QED
      BY <2>2, <2>3, <3>1 DEF HeldInv, SentInv, SentOK
  <2>6. SlotsOK(queue[e], e, i)'
    <3> SUFFICES ASSUME NEW t \in Splits[p.split].copied
                 PROVE  Held(slots'[<<p.sched, <<e, t>>, p.to.slot>>], queue'[e], i - 1,
                             p.sched, t, p.to.slot, p.value)
      BY <1>7, <2>3 DEF SlotsOK
    <3>1. Held(slots[<<p.sched, <<e, t>>, p.to.slot>>], queue[e], j - 1, p.sched, t, p.to.slot, p.value)
      BY <2>3, <2>4 DEF SlotsOK
    <3>2. <<p.sched, <<e, t>>, p.to.slot>> \in setup.scheds \X Copied \X AllCopies
      <4>1. PICK s \in 1 .. p.split : s \in DOMAIN Splits /\ Splits[s].on = e /\ t \in Range(Splits[s].inputs)
        BY <1>8, <2>5, PlanIs
      <4>2. <<e, t>> \in Copied
        BY <4>1 DEF Copied
      <4> QED
        BY <2>5, <4>2
    <3>3. CASE e = b
      <4>1. j - 1 = i /\ i <= n
        BY <1>2, <2>1, <2>2, <3>3
      <4> QED
        BY <1>11, <2>2, <2>5, <3>1, <3>2, <3>3, <4>1
    <3>4. CASE e # b
      BY <1>2, <1>13, <2>1, <3>1, <3>2, <3>4
    <3> QED
      BY <3>3, <3>4
  <2>7. DirectOK(queue[e], e, i)'
    <3> SUFFICES ASSUME NEW t \in Splits[p.split].direct, NEW m, m = Plan.maker[t], m # 0
                 PROVE  Made(result'[<<p.sched, m>>], queue'[e], i - 1, p.sched, m, p.value)
      BY <1>7, <2>3 DEF DirectOK
    <3>1. Made(result[<<p.sched, m>>], queue[e], j - 1, p.sched, m, p.value)
      BY <2>3, <2>4 DEF DirectOK
    <3>2. <<p.sched, m>> \in SplitsOf /\ Splits[m].on = e
      <4>1. e # Cpu
        BY <1>8, SetupIs
      <4>2. m \in 1 .. p.split - 1 /\ Splits[m].on = e
        BY <1>8, <2>5, <4>1, PlanIs
      <4>3. m \in DOMAIN Splits
        BY <1>8, <2>5, <4>2
      <4> QED
        BY <2>5, <4>2, <4>3 DEF SplitsOf
    <3>3. CASE e = b
      <4>1. j - 1 = i /\ i <= n
        BY <1>2, <2>1, <2>2, <3>3
      <4> QED
        BY <1>12, <2>2, <3>1, <3>2, <3>3, <4>1
    <3>4. CASE e # b
      BY <1>2, <1>14, <2>1, <3>1, <3>2, <3>4
    <3> QED
      BY <3>3, <3>4
  <2>8. PlacedOK(queue[e], i)'
    BY <1>2, <2>3, <2>4 DEF PlacedOK
  <2>9. \A c : Followed(queue[e], e, j, c) => Followed(queue[e], e, i, c)'
    <3>1. CASE e = b
      <4> SUFFICES ASSUME NEW c, Followed(queue[e], e, j, c)
                   PROVE  Followed(queue[e], e, i, c)'
        OBVIOUS
      <4>1. i + 2 \in 1 .. n /\ j = i + 1 /\ j + 1 = i + 2
        BY <1>2, <2>1, <2>2, <3>1 DEF Followed
      <4>2. i + 1 \in DOMAIN queue'[e] /\ i + 1 + 1 = i + 2
        BY <1>2, <2>2, <3>1, <4>1
      <4>3. queue'[e][i + 1] = queue[e][j + 1]
        BY <1>2, <3>1, <4>1, <4>2
      <4> QED
        BY <2>3, <4>2, <4>3 DEF Followed
    <3>2. CASE e # b
      BY <1>2, <2>1, <3>2 DEF Followed
    <3> QED
      BY <3>1, <3>2
  <2>10. EventsOK(queue[e], e, i)'
    BY <1>2, <1>7, <2>3, <2>4, <2>9 DEF EventsOK
  <2> QED
    BY <2>6, <2>7, <2>8, <2>10
<1>16. BegunInv'
  BY <1>2, <1>7 DEF ReadsInv, BegunInv
<1>17. at # Idle => /\ D \in setup.scheds /\ at.split \in DOMAIN Splits /\ Cur \in AllCopies
  <2>1. copies \in 1 .. setup.copies /\ setup.copies \in Nat
    BY SetupIs DEF HeldInv, TypeInv
  <2> QED
    BY <2>1, GraphUnderWay DEF HeldInv, AllCopies
<1>18. CopiedInv'
  <2> SUFFICES ASSUME at # Idle, NEW s \in 1 .. at.split, NEW i \in DOMAIN Splits[s].inputs, Past(s, i),
                      NEW e, e = Splits[s].on, NEW t, t = Splits[s].inputs[i]
               PROVE  Held(slots'[<<D, <<e, t>>, Cur>>], queue'[e], QueueLen(e)', D, t, Cur, round)
    BY <1>2, <1>7 DEF CopiedInv, QueueLen, Past
  <2>1. Held(slots[<<D, <<e, t>>, Cur>>], queue[e], QueueLen(e), D, t, Cur, round)
    BY DEF ReadsInv, CopiedInv
  <2>2. s \in DOMAIN Splits /\ e \in Devices \cup {Cpu} /\ b # Cpu
    <3>1. s \in DOMAIN Splits
      BY <1>8, <1>17
    <3> QED
      BY <1>8, <3>1, SetupIs
  <2>3. <<D, <<e, t>>, Cur>> \in setup.scheds \X Copied \X AllCopies
    <3>1. <<e, t>> \in Copied
      BY <2>2 DEF Copied, Range
    <3> QED
      BY <1>17, <3>1
  <2>4. CASE e = b
    <3>1. QueueLen(e) = n /\ QueueLen(e)' = n - 1
      BY <1>1, <1>2, <2>2, <2>4 DEF QueueLen
    <3>2. Held(slots'[<<D, <<b, t>>, Cur>>], queue'[b], n - 1, D, t, Cur, round)
      BY <1>2, <1>8, <1>11, <2>1, <2>3, <2>4, <3>1
    <3> QED
      BY <2>4, <3>1, <3>2
  <2>5. CASE e # b
    <3>1. slots'[<<D, <<e, t>>, Cur>>] = slots[<<D, <<e, t>>, Cur>>]
      BY <1>13, <2>3, <2>5
    <3>2. CASE e = Cpu
      <4>1. QueueLen(e) = 0 /\ QueueLen(e)' = 0
        BY <3>2 DEF QueueLen
      <4> QED
        BY <2>1, <3>1, <4>1 DEF Held
    <3>3. CASE e \in Devices
      <4>1. queue'[e] = queue[e] /\ QueueLen(e)' = QueueLen(e)
        BY <1>2, <2>5, <3>3 DEF QueueLen
      <4> QED
        BY <2>1, <3>1, <4>1
    <3> QED
      BY <2>2, <3>2, <3>3
  <2> QED
    BY <2>4, <2>5
<1>19. MadeInv'
  <2> SUFFICES ASSUME at # Idle, NEW s \in 1 .. at.split - 1, NEW e, e = Splits[s].on
               PROVE  Made(result'[<<D, s>>], queue'[e], QueueLen(e)', D, s, round)
    BY <1>2, <1>7 DEF MadeInv, QueueLen
  <2>1. Made(result[<<D, s>>], queue[e], QueueLen(e), D, s, round)
    BY DEF ReadsInv, MadeInv
  <2>2. s \in DOMAIN Splits /\ e \in Devices \cup {Cpu} /\ b # Cpu
    <3>1. s \in DOMAIN Splits
      BY <1>8, <1>17
    <3> QED
      BY <1>8, <3>1, SetupIs
  <2>3. <<D, s>> \in SplitsOf
    BY <1>17, <2>2 DEF SplitsOf
  <2>4. CASE e = b
    <3>1. QueueLen(e) = n /\ QueueLen(e)' = n - 1
      BY <1>1, <1>2, <2>2, <2>4 DEF QueueLen
    <3>2. Made(result'[<<D, s>>], queue'[b], n - 1, D, s, round)
      BY <1>2, <1>12, <2>1, <2>3, <2>4, <3>1
    <3> QED
      BY <2>4, <3>1, <3>2
  <2>5. CASE e # b
    <3>1. result'[<<D, s>>] = result[<<D, s>>]
      BY <1>14, <2>3, <2>5
    <3>2. CASE e = Cpu
      <4>1. QueueLen(e) = 0 /\ QueueLen(e)' = 0
        BY <3>2 DEF QueueLen
      <4> QED
        BY <2>1, <3>1, <4>1 DEF Made
    <3>3. CASE e \in Devices
      <4>1. queue'[e] = queue[e] /\ QueueLen(e)' = QueueLen(e)
        BY <1>2, <2>5, <3>3 DEF QueueLen
      <4> QED
        BY <2>1, <3>1, <4>1
    <3> QED
      BY <2>2, <3>2, <3>3
  <2> QED
    BY <2>4, <2>5
<1>20. CapturesInv' /\ CopiedByHost(setup)'
  <2>1. \A d, s : PropsOf(d, s)' = PropsOf(d, s)
    BY <1>2, <1>7 DEF PropsOf
  <2>2. CapturesInv'
    BY <1>2, <1>7, <2>1 DEF ReadsInv, CapturesInv, Kept, Addresses
  <2> QED
    BY <1>2, <1>7, <2>2 DEF ReadsInv, CopiedByHost
<1> QED
  BY <1>10, <1>15, <1>16, <1>18, <1>19, <1>20 DEF ReadsInv

LEMMA ReadsKeeps ==
  ASSUME HeldInv, ReadsInv, [Next]_vars
  PROVE  ReadsInv'
<1>1. CASE Client
  <2>1. ASSUME NEW d \in setup.scheds, Rebuild(d) \/ AllocFails(d) \/ Reuse(d)
        PROVE  ReadsInv'
    BY <2>1, RebuildReads, AllocFailsReads, ReuseReads
  <2> QED
    BY <1>1, <2>1, SynchronizeReads, ReserveReads, SchedReserveReads DEF Client
<1>2. CASE InGraph
  <2>1. ~CopyPeer
    BY DEF CopyPeer, Peers, ReadsInv, CopiedByHost
  <2>2. CASE Compute
    BY <2>2, ComputeHereReads, ComputeSentReads
  <2> QED
    BY <1>2, <2>1, <2>2, CopyUserReads, CopyExpertsReads, CopyBlockingReads DEF InGraph
<1>3. CASE ComputeFails
  BY <1>3, FailsReads
<1>4. CASE Streams
  BY <1>4, PerformReads DEF Streams
<1>5. CASE UNCHANGED vars
  BY <1>5, WaitsReads
<1> QED
  BY <1>1, <1>2, <1>3, <1>4, <1>5 DEF Next, Waits

\* The first operation of a stream has nothing before it, and the CPU has no stream.
LEMMA ReadsTheirGraph ==
  ASSUME HeldInv, ReadsInv
  PROVE  SplitsReadTheirGraph
<1>1. setup \in Setups /\ Cpu \notin Devices
  BY SetupIs DEF HeldInv, TypeInv
<1>2. ASSUME NEW b \in Devices, queue[b] # <<>>, NEW o, o = Head(queue[b]), o.op = "compute"
      PROVE  ReadsOwn(o.sched, o.split, o.to, o.value) /\ o.to.shape = o.count
  <2>1. o = queue[b][1] /\ 1 \in DOMAIN queue[b]
    <3>1. IsSeq(queue[b])
      BY DEF HeldInv, TypeInv
    <3> QED
      BY <1>2, <3>1, TailIs, SequenceIs
  <2>2. /\ SlotsOK(queue[b], b, 1) /\ DirectOK(queue[b], b, 1) /\ PlacedOK(queue[b], 1)
    BY <1>2, <2>1 DEF ReadsInv, ComputesInv
  <2>3. o.split \in DOMAIN Splits /\ Splits[o.split].on = b
    BY <1>2, <2>1 DEF HeldInv, SentInv, SentOK
  <2>4. ASSUME NEW t \in Splits[o.split].copied
        PROVE  slots[<<o.sched, <<b, t>>, o.to.slot>>] = o.value
    <3>1. Held(slots[<<o.sched, <<b, t>>, o.to.slot>>], queue[b], 1 - 1, o.sched, t, o.to.slot, o.value)
      BY <2>1, <2>2 DEF SlotsOK
    <3> QED
      BY <3>1 DEF Held
  <2>5. ASSUME NEW t \in Splits[o.split].direct
        PROVE  t \in Splits[o.split].usable /\ Own(o.sched, t, o.value)
    <3>1. t \in Splits[o.split].usable /\ t \notin Plan.user
      BY <1>1, <2>3, PlanIs
    <3>2. CASE Plan.maker[t] = 0
      BY <3>1, <3>2 DEF Own, Holds
    <3>3. CASE Plan.maker[t] # 0
      <4>1. Made(result[<<o.sched, Plan.maker[t]>>], queue[b], 1 - 1, o.sched, Plan.maker[t], o.value)
        BY <2>1, <2>2, <3>3 DEF DirectOK
      <4>2. result[<<o.sched, Plan.maker[t]>>] = o.value
        BY <4>1 DEF Made
      <4> QED
        BY <3>1, <3>3, <4>2 DEF Own, Holds
    <3> QED
      BY <3>2, <3>3
  <2>6. o.to.place = scheds[o.sched].place /\ o.to.shape = o.count
    BY <2>1, <2>2 DEF PlacedOK
  <2> QED
    BY <2>3, <2>4, <2>5, <2>6 DEF ReadsOwn
<1>3. ASSUME at # Idle, ~CopiesInput, B = Cpu
      PROVE  ReadsOwn(D, at.split, Here, round)
  <2>1. at.split \in DOMAIN Splits /\ Drained(B)
    BY <1>1, <1>3, GraphUnderWay DEF HeldInv, Drained
  <2>2. Here.place = scheds[D].place /\ Here.slot = Cur
    BY CurrentIs DEF Here
  <2>3. ASSUME NEW t \in Split.copied
        PROVE  slots[<<D, <<B, t>>, Cur>>] = round
    <3>1. PICK r \in 1 .. at.split :
            /\ r \in DOMAIN Splits /\ Splits[r].on = B
            /\ \E i \in DOMAIN Splits[r].inputs : Splits[r].inputs[i] = t /\ Past(r, i)
      BY <1>3, InputsCopied
    <3>2. PICK i \in DOMAIN Splits[r].inputs : Splits[r].inputs[i] = t /\ Past(r, i)
      BY <3>1
    <3>3. Drained(Splits[r].on)
      BY <2>1, <3>1
    <3> QED
      BY <1>3, <3>1, <3>2, <3>3, CopiedHere
  <2>4. ASSUME NEW t \in Split.direct
        PROVE  t \in Split.usable /\ Own(D, t, round)
    <3>1. /\ t \in Split.usable
          /\ t \notin Plan.user /\ Plan.maker[t] # 0 =>
               Plan.maker[t] \in 1 .. at.split - 1 /\ Splits[Plan.maker[t]].on = B
      BY <1>1, <2>1, PlanIs DEF Split, B
    <3>2. CASE t \in Plan.user
      BY <1>3, <3>1, <3>2 DEF Own, ReadsInv, BegunInv
    <3>3. CASE t \notin Plan.user /\ Plan.maker[t] = 0
      BY <3>1, <3>3 DEF Own, Holds
    <3>4. CASE t \notin Plan.user /\ Plan.maker[t] # 0
      <4>1. Drained(Splits[Plan.maker[t]].on)
        BY <2>1, <3>1, <3>4
      <4>2. result[<<D, Plan.maker[t]>>] = round
        BY <1>3, <3>1, <3>4, <4>1, MadeHere
      <4> QED
        BY <3>1, <3>4, <4>2 DEF Own, Holds
    <3> QED
      BY <3>2, <3>3, <3>4
  <2> QED
    BY <2>2, <2>3, <2>4 DEF ReadsOwn, Split, B
<1> QED
  BY <1>2, <1>3 DEF SplitsReadTheirGraph

LEMMA SetupStays ==
  ASSUME [Next]_vars
  PROVE  setup' = setup
<1>1. CASE Client
  BY <1>1 DEF Client, Rebuild, AllocFails, Reuse, Synchronize, Reserve, SchedReserve
<1>2. CASE InGraph
  BY <1>2 DEF InGraph, CopyUser, CopyExperts, CopyPeer, CopyBlocking, Compute
<1>3. CASE ComputeFails \/ Streams \/ UNCHANGED vars
  BY <1>3 DEF ComputeFails, Streams, Perform, vars
<1> QED
  BY <1>1, <1>2, <1>3 DEF Next, Waits

\* Where the host copies between devices, each split reads the inputs, experts and results of its
\* own graph, whatever the plan, the slots, the schedulers and the settings are: no copy is
\* overwritten before what was sent has read it, and none is left from an earlier graph, with the
\* waits of compute_splits_range, and a graph is replayed with the addresses of now.
THEOREM ReadsOwnGraph == Spec => [](CopiedByHost(setup) => SplitsReadTheirGraph)
<1> DEFINE Inv == HeldInv /\ (CopiedByHost(setup) => ReadsInv)
<1>1. Init => Inv
  BY HeldBegins, ReadsBegins
<1>2. Inv /\ [Next]_vars => Inv'
  <2> SUFFICES ASSUME Inv, [Next]_vars PROVE Inv'
    OBVIOUS
  <2>1. HeldInv'
    BY NextKeeps
  <2>2. CopiedByHost(setup)' => CopiedByHost(setup)
    BY SetupStays DEF CopiedByHost
  <2>3. CopiedByHost(setup) => ReadsInv'
    BY ReadsKeeps
  <2> QED
    BY <2>1, <2>2, <2>3
<1>3. Inv => (CopiedByHost(setup) => SplitsReadTheirGraph)
  BY ReadsTheirGraph
<1> HIDE DEF Inv
<1> QED
  BY <1>1, <1>2, <1>3, PTL DEF Spec
=============================================================================
