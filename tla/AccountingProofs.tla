-------------------------- MODULE AccountingProofs --------------------------
(***************************************************************************)
(* Proofs about Accounting: no late report is counted in another run, and   *)
(* the counters of a run are always those of its message records.           *)
(*                                                                          *)
(* IdInv carries the first: a packet the firmware may still speak of holds  *)
(* its id in used while its run is current, and in the quarantine, for long *)
(* enough, from then on.  CountInv and ResultInv carry the second: counters *)
(* are cardinalities of sets of records, every handler changes one record   *)
(* and the counters to match (Fits), and once reports are refused nothing   *)
(* the metrics were computed from changes.                                  *)
(***************************************************************************)
EXTENDS Accounting, FiniteSetTheorems, SequenceTheorems, WellFoundedInduction, TLAPS

-----------------------------------------------------------------------------
(* The inductive invariant *)

Message ==
    [id : Ids, dest : Receivers \cup {"broadcast"}, submitted : BOOLEAN, error : BOOLEAN,
     transmitted : BOOLEAN, acked : BOOLEAN, delivered : SUBSET Receivers, pending : BOOLEAN]

Allocation == [id : Ids, at : Nat]
Retirement == [expiry : Nat, id : Ids]
Aired == [id : Ids, run : Nat, fate : Fates, until : Nat]

Counters ==
    [generated : Int, submitted : Int, failed : Int, transmitted : Int, unique : Int,
     deliveries : Int, opportunities : Int, acks : Int, rf : Int]

Types ==
    /\ run \in Nat /\ now \in Nat /\ earlier \in Nat
    /\ kind \in {"direct", "broadcast"} /\ asked \in BOOLEAN
    /\ step \in {"idle", "generate", "drain", "sample", "metrics", "done"}
    /\ msgs \in Seq(Message) /\ counts \in Counters
    /\ used \in Seq(Allocation) /\ quarantine \in Seq(Retirement)
    /\ air \subseteq Aired

\* The packet p holds its id: while its run is current the run's own messages
\* avoid it, and afterwards it is in quarantine until p is silent.
Holds(p) ==
    /\ p.run <= run
    /\ (now < p.until /\ p.run = run) =>
         \E k \in DOMAIN used : used[k].id = p.id /\ p.until <= used[k].at + Lateness
    /\ (now < p.until /\ p.run # run) =>
         \E k \in DOMAIN quarantine : quarantine[k].id = p.id /\ p.until <= quarantine[k].expiry

IdInv ==
    /\ Len(msgs) = Len(used)
    /\ \A i \in DOMAIN msgs : msgs[i].id = used[i].id
    /\ \A p \in air : Holds(p)
    /\ NoCrossRun

\* A message is pending, submitted or failed, and only one of them; a failed one
\* was never transmitted; a direct one is delivered to its destination only.
Consistent(m) ==
    /\ m.pending => ~m.submitted /\ ~m.error
    /\ ~m.pending => (m.submitted <=> ~m.error)
    /\ m.transmitted => m.submitted
    /\ m.acked => m.transmitted
    /\ kind = "direct" => m.delivered \subseteq {m.dest}

SubmittedIn(ms) == {i \in DOMAIN ms : ms[i].submitted}
FailedIn(ms) == {i \in DOMAIN ms : ms[i].error}
TransmittedIn(ms) == {i \in DOMAIN ms : ms[i].transmitted}
AckedIn(ms) == {i \in DOMAIN ms : ms[i].acked}
ReachedIn(ms) == {i \in DOMAIN ms : ms[i].delivered # {}}
DeliveriesIn(ms) == {d \in (DOMAIN ms) \X Receivers : d[2] \in ms[d[1]].delivered}

\* Counters c are those of the records ms.
Tally(c, ms) ==
    /\ c.generated = Len(ms)
    /\ c.submitted = Cardinality(SubmittedIn(ms))
    /\ c.failed = Cardinality(FailedIn(ms))
    /\ c.transmitted = Cardinality(TransmittedIn(ms))
    /\ c.acks = Cardinality(AckedIn(ms))
    /\ c.unique = Cardinality(ReachedIn(ms))
    /\ c.deliveries = Cardinality(DeliveriesIn(ms))
    /\ c.transmitted <= c.rf

CountInv ==
    /\ Tally(counts, msgs)
    /\ \A i \in DOMAIN msgs : Consistent(msgs[i])

ResultInv ==
    /\ step = "metrics" =>
         /\ Pending = {}
         /\ result.delivered = ReachedIn(msgs)
         /\ result.acks = counts.acks
         /\ result.expected = IF ExpectsAcks THEN counts.submitted ELSE 0
    /\ step = "done" =>
         /\ ResultConsistent
         /\ result.requested = result.submitted + result.failed

Inv == Types /\ IdInv /\ CountInv /\ ResultInv

-----------------------------------------------------------------------------
(* Popping a queue up to its first live position keeps what is live *)

\* A non-empty set of naturals has a least member.
LEMMA LeastMember ==
    ASSUME NEW K \in SUBSET Nat, K # {}
    PROVE  /\ Min(K) \in K
           /\ \A k \in K : Min(K) <= k
<1> DEFINE R == OpToRel(<, Nat)
<1>1. IsWellFoundedOn(R, Nat)
  BY NatLessThanWellFounded
<1> HIDE DEF R
<1>2. PICK m \in K : \A k \in K : ~(<<k, m>> \in R)
  BY <1>1, WFMin
<1>3. \A k \in K : ~(k < m)
  BY <1>2 DEF R, OpToRel
<1>4. \A k \in K : m <= k
  BY <1>3
<1> QED
  BY <1>2, <1>4 DEF Min

\* Popped is a sequence over the same set, and no live element is lost.
LEMMA PoppedKeeps ==
    ASSUME NEW S, NEW s \in Seq(S), NEW live \in SUBSET DOMAIN s
    PROVE  /\ Popped(s, live) \in Seq(S)
           /\ \A k \in live : \E j \in DOMAIN Popped(s, live) : Popped(s, live)[j] = s[k]
<1>1. CASE live = {}
  BY <1>1, EmptySeq DEF Popped
<1>2. CASE live # {}
  <2>1. /\ Len(s) \in Nat /\ DOMAIN s = 1 .. Len(s)
    BY LenProperties
  <2>2. PICK m : /\ m = Min(live) /\ m \in live
                 /\ \A k \in live : m <= k
    BY <1>2, <2>1, LeastMember
  <2>3. /\ Popped(s, live) = SubSeq(s, m, Len(s))
        /\ m \in 1 .. Len(s)
    BY <1>2, <2>1, <2>2 DEF Popped
  <2>4. /\ SubSeq(s, m, Len(s)) \in Seq(S)
        /\ Len(SubSeq(s, m, Len(s))) = Len(s) - m + 1
        /\ \A j \in 1 .. Len(s) - m + 1 : SubSeq(s, m, Len(s))[j] = s[m + j - 1]
    BY <2>1, <2>3, SubSeqProperties
  <2>5. ASSUME NEW k \in live
        PROVE  \E j \in DOMAIN Popped(s, live) : Popped(s, live)[j] = s[k]
    <3>1. /\ k \in 1 .. Len(s) /\ m <= k
      BY <2>1, <2>2
    <3>2. /\ k - m + 1 \in 1 .. Len(s) - m + 1
          /\ m + (k - m + 1) - 1 = k
      BY <2>1, <2>3, <3>1
    <3>3. DOMAIN Popped(s, live) = 1 .. Len(s) - m + 1
      BY <2>3, <2>4, LenProperties
    <3> QED
      BY <2>3, <2>4, <3>2, <3>3
  <2> QED
    BY <2>3, <2>4, <2>5
<1> QED
  BY <1>1, <1>2

\* Purging drops expired ids only.
LEMMA PurgedKeeps ==
    ASSUME Types
    PROVE  /\ Purged \in Seq(Retirement)
           /\ \A k \in DOMAIN quarantine : quarantine[k].expiry > now =>
                \E j \in DOMAIN Purged : Purged[j] = quarantine[k]
<1> DEFINE live == {k \in DOMAIN quarantine : quarantine[k].expiry > now}
<1>1. quarantine \in Seq(Retirement) /\ live \in SUBSET DOMAIN quarantine
  BY DEF Types
<1>2. Purged = Popped(quarantine, live)
  BY DEF Purged
<1>3. \A k \in DOMAIN quarantine : quarantine[k].expiry > now => k \in live
  OBVIOUS
<1> HIDE DEF live
<1> QED
  BY <1>1, <1>2, <1>3, PoppedKeeps

\* Retiring keeps every id allocated less than Quarantine ago.
LEMMA RetainedKeeps ==
    ASSUME Types
    PROVE  /\ Retained \in Seq(Retirement)
           /\ \A k \in DOMAIN used : used[k].at + Quarantine > now =>
                \E j \in DOMAIN Retained : /\ Retained[j].id = used[k].id
                                           /\ Retained[j].expiry = used[k].at + Quarantine
<1> DEFINE live == {k \in DOMAIN used : used[k].at + Quarantine > now}
           u == Popped(used, live)
<1>1. used \in Seq(Allocation) /\ live \in SUBSET DOMAIN used
  BY DEF Types
<1>2. \A k \in DOMAIN used : used[k].at + Quarantine > now => k \in live
  OBVIOUS
<1>3. Retained = [k \in DOMAIN u |-> [expiry |-> u[k].at + Quarantine, id |-> u[k].id]]
  BY DEF Retained
<1> HIDE DEF live
<1>4. /\ u \in Seq(Allocation)
      /\ \A k \in live : \E j \in DOMAIN u : u[j] = used[k]
  BY <1>1, PoppedKeeps
<1> HIDE DEF u
<1>5. /\ Len(u) \in Nat /\ DOMAIN u = 1 .. Len(u)
      /\ \A k \in DOMAIN u : u[k] \in Allocation
  BY <1>4, LenProperties, ElementOfSeq
<1>6. \A k \in DOMAIN u : [expiry |-> u[k].at + Quarantine, id |-> u[k].id] \in Retirement
  BY <1>5, AccountingAssumption DEF Allocation, Retirement
<1>7. Retained \in Seq(Retirement)
  <2>1. Retained \in [1 .. Len(u) -> Retirement]
    BY <1>3, <1>5, <1>6
  <2> QED
    BY <1>5, <2>1, SeqDef
<1> QED
  BY <1>4, <1>2, <1>3, <1>7

\* What the elements of the typed sequences are.
LEMMA Elements ==
    ASSUME Types
    PROVE  /\ \A k \in DOMAIN quarantine : quarantine[k].expiry \in Nat
           /\ \A k \in DOMAIN used : used[k].at \in Nat
           /\ \A i \in DOMAIN msgs : msgs[i] \in Message
<1>1. /\ quarantine \in Seq(Retirement) /\ used \in Seq(Allocation) /\ msgs \in Seq(Message)
  BY DEF Types
<1>2. /\ \A k \in DOMAIN quarantine : quarantine[k] \in Retirement
      /\ \A k \in DOMAIN used : used[k] \in Allocation
      /\ \A i \in DOMAIN msgs : msgs[i] \in Message
  BY <1>1, ElementOfSeq, LenProperties
<1> QED
  BY <1>2 DEF Retirement, Allocation

-----------------------------------------------------------------------------
(* The ids of late packets *)

\* A step that leaves ids, air and run alone and keeps each message's id.
LEMMA IdsUntouched ==
    ASSUME Types, IdInv, msgs' \in Seq(Message), Len(msgs') = Len(msgs),
           \A i \in DOMAIN msgs : msgs'[i].id = msgs[i].id,
           UNCHANGED <<run, used, quarantine, air>>, now' \in Nat, now <= now'
    PROVE  IdInv'
<1>1. DOMAIN msgs' = DOMAIN msgs
  BY LenProperties DEF Types
<1>2. /\ Len(msgs') = Len(used')
      /\ \A i \in DOMAIN msgs' : msgs'[i].id = used'[i].id
  BY <1>1 DEF IdInv
<1>3. ASSUME NEW p \in air
      PROVE  /\ now' < p.until => now < p.until
             /\ Holds(p)
  <2>1. p.until \in Nat /\ now \in Nat
    BY DEF Types, Aired
  <2> QED
    BY <2>1 DEF IdInv
<1>4. ASSUME NEW p \in air'
      PROVE  Holds(p)'
  <2>1. p \in air
    OBVIOUS
  <2>2. /\ now' < p.until => now < p.until
        /\ Holds(p)
    BY <1>3, <2>1
  <2> QED
    BY <2>2 DEF Holds
<1>5. NoCrossRun'
  BY <1>1, <1>3 DEF IdInv, NoCrossRun
<1> QED
  BY <1>2, <1>4, <1>5 DEF IdInv

\* Submit: the new id is in no quarantine, and the packet's id is now in used.
LEMMA IdsSubmit ==
    ASSUME Types, IdInv, Submit, Types'
    PROVE  IdInv'
<1>1. PICK id, m :
          /\ id \in FreeIds
          /\ used' = Append(used, [id |-> id, at |-> now])
          /\ msgs' = Append(msgs, m) /\ m.id = id
          /\ \/ air' = air
             \/ \E fate \in Fates : air' = air \cup {Packet(id, fate)}
          /\ quarantine' = Purged /\ run' = run /\ now' = now
  BY DEF Submit, NewMessage, Resolved
<1>2. /\ Purged \in Seq(Retirement)
      /\ \A k \in DOMAIN quarantine : quarantine[k].expiry > now =>
           \E j \in DOMAIN Purged : Purged[j] = quarantine[k]
  BY PurgedKeeps
<1>3. /\ Len(msgs) \in Nat /\ DOMAIN msgs = 1 .. Len(msgs)
      /\ DOMAIN used = 1 .. Len(msgs)
      /\ Len(msgs') = Len(msgs) + 1 /\ Len(used') = Len(msgs) + 1
      /\ DOMAIN msgs' = 1 .. Len(msgs) + 1 /\ DOMAIN used' = 1 .. Len(msgs) + 1
      /\ \A i \in 1 .. Len(msgs) : msgs'[i] = msgs[i] /\ used'[i] = used[i]
      /\ msgs'[Len(msgs) + 1] = m
      /\ used'[Len(msgs) + 1] = [id |-> id, at |-> now]
  <2>1. /\ msgs \in Seq(Message) /\ used \in Seq(Allocation) /\ Len(msgs) = Len(used)
        /\ msgs' \in Seq(Message) /\ used' \in Seq(Allocation)
    BY DEF Types, IdInv
  <2>2. /\ Len(msgs) \in Nat /\ DOMAIN msgs = 1 .. Len(msgs)
        /\ DOMAIN used = 1 .. Len(msgs)
        /\ DOMAIN msgs' = 1 .. Len(msgs') /\ DOMAIN used' = 1 .. Len(used')
    BY <2>1, LenProperties
  <2>3. /\ Len(Append(msgs, m)) = Len(msgs) + 1
        /\ \A i \in 1 .. Len(msgs) : Append(msgs, m)[i] = msgs[i]
        /\ Append(msgs, m)[Len(msgs) + 1] = m
    BY <2>1, <2>2, AppendProperties
  <2>4. /\ Len(Append(used, [id |-> id, at |-> now])) = Len(used) + 1
        /\ \A i \in 1 .. Len(used) : Append(used, [id |-> id, at |-> now])[i] = used[i]
        /\ Append(used, [id |-> id, at |-> now])[Len(used) + 1] = [id |-> id, at |-> now]
    BY <2>1, <2>2, AppendProperties
  <2> QED
    BY <1>1, <2>1, <2>2, <2>3, <2>4
<1>4. \A i \in DOMAIN msgs' : msgs'[i].id = used'[i].id
  <2> SUFFICES ASSUME NEW i \in DOMAIN msgs'
               PROVE  msgs'[i].id = used'[i].id
    OBVIOUS
  <2>1. CASE i \in 1 .. Len(msgs)
    BY <1>3, <2>1 DEF IdInv
  <2>2. CASE i = Len(msgs) + 1
    BY <1>1, <1>3, <2>2
  <2> QED
    BY <1>3, <2>1, <2>2
<1>5. ASSUME NEW p \in air'
      PROVE  Holds(p)'
  <2>1. CASE p \in air
    <3>1. /\ Holds(p) /\ p.until \in Nat /\ now \in Nat
      BY <2>1 DEF IdInv, Types, Aired
    <3>2. (now < p.until /\ p.run = run) =>
            \E k \in DOMAIN used' : used'[k].id = p.id /\ p.until <= used'[k].at + Lateness
      BY <1>3, <3>1 DEF Holds
    <3>3. ASSUME now < p.until, p.run # run
          PROVE  \E j \in DOMAIN Purged : Purged[j].id = p.id /\ p.until <= Purged[j].expiry
      <4>1. PICK k \in DOMAIN quarantine :
              quarantine[k].id = p.id /\ p.until <= quarantine[k].expiry
        BY <3>1, <3>3 DEF Holds
      <4>2. quarantine[k].expiry \in Nat
        BY Elements
      <4>3. quarantine[k].expiry > now
        BY <3>1, <3>3, <4>1, <4>2
      <4> QED
        BY <1>2, <4>1, <4>3
    <3> QED
      BY <1>1, <3>1, <3>2, <3>3 DEF Holds
  <2>2. ASSUME NEW fate \in Fates, p = Packet(id, fate)
        PROVE  Holds(p)'
    <3>1. /\ p.id = id /\ p.run = run /\ p.until = now + Lateness /\ run \in Nat
          /\ now \in Nat /\ Lateness \in Nat
      BY <2>2, AccountingAssumption DEF Packet, Types
    <3>2. /\ Len(msgs) + 1 \in DOMAIN used' /\ used'[Len(msgs) + 1].id = p.id
          /\ p.until <= used'[Len(msgs) + 1].at + Lateness
      BY <1>3, <3>1
    <3> QED
      BY <1>1, <3>1, <3>2 DEF Holds
  <2> QED
    BY <1>1, <2>1, <2>2
<1>6. NoCrossRun'
  <2> SUFFICES ASSUME NEW p \in air', now' < p.until, p.run # run',
                      NEW i \in DOMAIN msgs'
               PROVE  msgs'[i].id # p.id
    BY DEF NoCrossRun
  <2>1. p \in air
    BY <1>1 DEF Packet
  <2>2. CASE i \in 1 .. Len(msgs)
    BY <1>1, <1>3, <2>1, <2>2 DEF IdInv, NoCrossRun
  <2>3. CASE i = Len(msgs) + 1
    <3>1. Holds(p)'
      BY <1>5
    <3>2. \E j \in DOMAIN Purged : Purged[j].id = p.id
      BY <1>1, <3>1 DEF Holds
    <3>3. \A j \in DOMAIN Purged : Purged[j].id # id
      BY <1>1 DEF FreeIds, QuarantinedIds
    <3> QED
      BY <1>1, <1>3, <2>3, <3>2, <3>3
  <2> QED
    BY <1>3, <2>2, <2>3
<1> QED
  BY <1>3, <1>4, <1>5, <1>6 DEF IdInv

\* StartRun: the ids of the run that ended are retired for long enough.
LEMMA IdsStart ==
    ASSUME Types, IdInv, StartRun, Types'
    PROVE  IdInv'
<1>1. /\ Purged \in Seq(Retirement)
      /\ \A k \in DOMAIN quarantine : quarantine[k].expiry > now =>
           \E j \in DOMAIN Purged : Purged[j] = quarantine[k]
  BY PurgedKeeps
<1>2. /\ Retained \in Seq(Retirement)
      /\ \A k \in DOMAIN used : used[k].at + Quarantine > now =>
           \E j \in DOMAIN Retained : /\ Retained[j].id = used[k].id
                                      /\ Retained[j].expiry = used[k].at + Quarantine
  BY RetainedKeeps
<1> DEFINE q == Purged \o Retained
<1>3. /\ \A k \in DOMAIN Purged : \E j \in DOMAIN q : q[j] = Purged[k]
      /\ \A k \in DOMAIN Retained : \E j \in DOMAIN q : q[j] = Retained[k]
  <2>1. Purged \in Seq(Retirement) /\ Retained \in Seq(Retirement) /\ q = Purged \o Retained
    BY <1>1, <1>2
  <2> HIDE DEF q
  <2>2. /\ q \in Seq(Retirement) /\ Len(q) = Len(Purged) + Len(Retained)
        /\ \A i \in 1 .. Len(Purged) + Len(Retained) :
             q[i] = IF i <= Len(Purged) THEN Purged[i] ELSE Retained[i - Len(Purged)]
    BY <2>1, ConcatProperties
  <2>3. /\ Len(Purged) \in Nat /\ DOMAIN Purged = 1 .. Len(Purged)
        /\ Len(Retained) \in Nat /\ DOMAIN Retained = 1 .. Len(Retained)
        /\ DOMAIN q = 1 .. Len(Purged) + Len(Retained)
    BY <2>1, <2>2, LenProperties
  <2>4. ASSUME NEW k \in DOMAIN Purged
        PROVE  \E j \in DOMAIN q : q[j] = Purged[k]
    BY <2>2, <2>3
  <2>5. ASSUME NEW k \in DOMAIN Retained
        PROVE  \E j \in DOMAIN q : q[j] = Retained[k]
    <3>1. /\ k + Len(Purged) \in 1 .. Len(Purged) + Len(Retained)
          /\ ~(k + Len(Purged) <= Len(Purged)) /\ k + Len(Purged) - Len(Purged) = k
      BY <2>3
    <3> QED
      BY <2>2, <2>3, <3>1
  <2> QED
    BY <2>4, <2>5
<1> HIDE DEF q
<1>4. ASSUME NEW p \in air, now < p.until, p.run # run
      PROVE  \E j \in DOMAIN Purged : Purged[j].id = p.id /\ p.until <= Purged[j].expiry
  <2>1. /\ Holds(p) /\ p.until \in Nat /\ now \in Nat
    BY DEF IdInv, Types, Aired
  <2>2. PICK k \in DOMAIN quarantine :
          quarantine[k].id = p.id /\ p.until <= quarantine[k].expiry
    BY <1>4, <2>1 DEF Holds
  <2>3. quarantine[k].expiry \in Nat
    BY Elements
  <2>4. quarantine[k].expiry > now
    BY <1>4, <2>1, <2>2, <2>3
  <2> QED
    BY <1>1, <2>2, <2>4
<1>5. ASSUME NEW p \in air, now < p.until, p.run = run
      PROVE  \E j \in DOMAIN Retained : Retained[j].id = p.id /\ p.until <= Retained[j].expiry
  <2>1. /\ Holds(p) /\ p.until \in Nat /\ now \in Nat
    BY DEF IdInv, Types, Aired
  <2>2. PICK k \in DOMAIN used :
          used[k].id = p.id /\ p.until <= used[k].at + Lateness
    BY <1>5, <2>1 DEF Holds
  <2>3. used[k].at \in Nat
    BY Elements
  <2>4. /\ used[k].at + Quarantine > now /\ p.until <= used[k].at + Quarantine
    BY <1>5, <2>1, <2>2, <2>3, AccountingAssumption
  <2>5. PICK j \in DOMAIN Retained : /\ Retained[j].id = used[k].id
                                     /\ Retained[j].expiry = used[k].at + Quarantine
    BY <1>2, <2>4
  <2> QED
    BY <2>2, <2>4, <2>5
<1>6. CASE Len(q) > Capacity
  <2>1. /\ quarantine' = Purged /\ UNCHANGED <<run, msgs, used, air, now>>
    BY <1>6 DEF StartRun, q
  <2>2. ASSUME NEW p \in air'
        PROVE  Holds(p)'
    <3>1. p \in air /\ Holds(p)
      BY <2>1 DEF IdInv
    <3> QED
      BY <1>4, <2>1, <3>1 DEF Holds
  <2>3. NoCrossRun'
    BY <2>1 DEF IdInv, NoCrossRun
  <2> QED
    BY <2>1, <2>2, <2>3 DEF IdInv
<1>7. CASE ~(Len(q) > Capacity)
  <2>1. /\ quarantine' = q /\ used' = <<>> /\ msgs' = <<>>
        /\ run' = run + 1 /\ air' = air /\ now' = now
    BY <1>7 DEF StartRun, q
  <2>2. ASSUME NEW p \in air'
        PROVE  Holds(p)'
    <3>1. p \in air /\ Holds(p) /\ p.run \in Nat /\ run \in Nat
      BY <2>1 DEF IdInv, Types, Aired
    <3>2. p.run <= run' /\ p.run # run'
      BY <2>1, <3>1 DEF Holds
    <3>3. now < p.until =>
            \E j \in DOMAIN quarantine' :
               quarantine'[j].id = p.id /\ p.until <= quarantine'[j].expiry
      <4>1. CASE p.run # run
        BY <1>3, <1>4, <2>1, <3>1, <4>1
      <4>2. CASE p.run = run
        BY <1>3, <1>5, <2>1, <3>1, <4>2
      <4> QED
        BY <4>1, <4>2
    <3> QED
      BY <2>1, <3>2, <3>3 DEF Holds
  <2>3. /\ DOMAIN msgs' = {} /\ Len(msgs') = Len(used')
    BY <2>1
  <2> QED
    BY <2>2, <2>3 DEF IdInv, NoCrossRun
<1> QED
  BY <1>6, <1>7

-----------------------------------------------------------------------------
(* Counting *)

One(b) == IF b THEN 1 ELSE 0

\* Sets of positions that differ at i only.
LEMMA OnePositionChanges ==
    ASSUME NEW D, IsFiniteSet(D), NEW S, S \subseteq D, NEW T, T \subseteq D,
           NEW i \in D, \A j \in D : j # i => (j \in S <=> j \in T)
    PROVE  /\ Cardinality(S) \in Nat /\ Cardinality(T) \in Nat
           /\ (i \in S <=> i \in T) => Cardinality(T) = Cardinality(S)
           /\ (i \in T /\ i \notin S) => Cardinality(T) = Cardinality(S) + 1
           /\ (i \in S /\ i \notin T) => Cardinality(T) = Cardinality(S) - 1
<1>1. /\ IsFiniteSet(S) /\ IsFiniteSet(T)
      /\ Cardinality(S) \in Nat /\ Cardinality(T) \in Nat
  BY FS_Subset, FS_CardinalityType
<1>2. CASE (i \in S) <=> (i \in T)
  <2>1. \A j \in D : j \in S <=> j \in T
    BY <1>2
  <2>2. S = T
    BY <2>1
  <2> QED
    BY <1>1, <1>2, <2>2
<1>3. CASE i \in T /\ i \notin S
  <2>1. T = S \cup {i}
    BY <1>3
  <2>2. Cardinality(S \cup {i}) = Cardinality(S) + 1
    BY <1>1, <1>3, FS_AddElement
  <2> QED
    BY <1>1, <1>3, <2>1, <2>2
<1>4. CASE i \in S /\ i \notin T
  <2>1. T = S \ {i}
    BY <1>4
  <2>2. Cardinality(S \ {i}) = Cardinality(S) - 1
    BY <1>1, <1>4, FS_RemoveElement
  <2> QED
    BY <1>1, <1>4, <2>1, <2>2
<1> QED
  BY <1>2, <1>3, <1>4

\* The record m and the counters c may replace those of message i.
Fits(i, m, c) ==
    /\ m \in Message /\ c \in Counters
    /\ m.id = msgs[i].id
    /\ Consistent(m)
    /\ c.generated = counts.generated
    /\ c.submitted = counts.submitted + One(m.submitted) - One(msgs[i].submitted)
    /\ c.failed = counts.failed + One(m.error) - One(msgs[i].error)
    /\ c.transmitted = counts.transmitted + One(m.transmitted) - One(msgs[i].transmitted)
    /\ c.acks = counts.acks + One(m.acked) - One(msgs[i].acked)
    /\ c.unique = counts.unique + One(m.delivered # {}) - One(msgs[i].delivered # {})
    /\ c.transmitted <= c.rf
    /\ \/ m.delivered = msgs[i].delivered /\ c.deliveries = counts.deliveries
       \/ \E node \in Receivers \ msgs[i].delivered :
             /\ m.delivered = msgs[i].delivered \cup {node}
             /\ c.deliveries = counts.deliveries + 1

\* Such a change keeps the tally.
LEMMA ChangeKeepsTally ==
    ASSUME Types, CountInv, NEW i \in DOMAIN msgs, NEW m, NEW c, Fits(i, m, c),
           Change(i, m, c), kind' = kind
    PROVE  /\ msgs' \in Seq(Message) /\ counts' \in Counters /\ Len(msgs') = Len(msgs)
           /\ \A j \in DOMAIN msgs : msgs'[j].id = msgs[j].id
           /\ CountInv'
<1> DEFINE n == Len(msgs)
<1>1. PICK ms : msgs' = ms /\ ms = [msgs EXCEPT ![i] = m] /\ counts' = c
  BY DEF Change
<1>2. /\ msgs \in Seq(Message) /\ n \in Nat /\ DOMAIN msgs = 1 .. n
  BY LenProperties DEF Types
<1>3. m \in Message
  BY DEF Fits
<1>4. /\ ms \in Seq(Message) /\ Len(ms) = n
      /\ \A j \in 1 .. n : ms[j] = IF j = i THEN m ELSE msgs[j]
  BY <1>1, <1>2, <1>3, ExceptSeq
<1>5. DOMAIN ms = 1 .. n
  BY <1>2, <1>4, LenProperties
<1>6. /\ \A j \in DOMAIN msgs : ms[j].id = msgs[j].id
      /\ \A j \in DOMAIN msgs : Consistent(ms[j])
  BY <1>2, <1>4 DEF Fits, CountInv
<1>7. IsFiniteSet(DOMAIN msgs) /\ DOMAIN ms = DOMAIN msgs
  BY <1>2, <1>5, FS_Interval
<1> HIDE DEF n
<1>8. /\ ms[i] = m /\ i \in DOMAIN msgs
      /\ \A j \in DOMAIN msgs : j # i => ms[j] = msgs[j]
  BY <1>2, <1>4
<1>9. Cardinality(SubmittedIn(ms)) =
         Cardinality(SubmittedIn(msgs)) + One(m.submitted) - One(msgs[i].submitted)
  <2> DEFINE D == DOMAIN msgs
             S == SubmittedIn(msgs)
             T == SubmittedIn(ms)
  <2>1. /\ IsFiniteSet(D) /\ S \subseteq D /\ T \subseteq D /\ i \in D
        /\ \A j \in D : j # i => (j \in S <=> j \in T)
        /\ (i \in T) <=> m.submitted
        /\ (i \in S) <=> msgs[i].submitted
    BY <1>7, <1>8 DEF SubmittedIn
  <2> HIDE DEF D, S, T
  <2>2. /\ Cardinality(S) \in Nat
        /\ (i \in S <=> i \in T) => Cardinality(T) = Cardinality(S)
        /\ (i \in T /\ i \notin S) => Cardinality(T) = Cardinality(S) + 1
        /\ (i \in S /\ i \notin T) => Cardinality(T) = Cardinality(S) - 1
    BY <2>1, OnePositionChanges
  <2>3. Cardinality(T) = Cardinality(S) + One(m.submitted) - One(msgs[i].submitted)
    BY <2>1, <2>2 DEF One
  <2> QED
    BY <2>3 DEF S, T
<1>10. Cardinality(FailedIn(ms)) =
         Cardinality(FailedIn(msgs)) + One(m.error) - One(msgs[i].error)
  <2> DEFINE D == DOMAIN msgs
             S == FailedIn(msgs)
             T == FailedIn(ms)
  <2>1. /\ IsFiniteSet(D) /\ S \subseteq D /\ T \subseteq D /\ i \in D
        /\ \A j \in D : j # i => (j \in S <=> j \in T)
        /\ (i \in T) <=> m.error
        /\ (i \in S) <=> msgs[i].error
    BY <1>7, <1>8 DEF FailedIn
  <2> HIDE DEF D, S, T
  <2>2. /\ Cardinality(S) \in Nat
        /\ (i \in S <=> i \in T) => Cardinality(T) = Cardinality(S)
        /\ (i \in T /\ i \notin S) => Cardinality(T) = Cardinality(S) + 1
        /\ (i \in S /\ i \notin T) => Cardinality(T) = Cardinality(S) - 1
    BY <2>1, OnePositionChanges
  <2>3. Cardinality(T) = Cardinality(S) + One(m.error) - One(msgs[i].error)
    BY <2>1, <2>2 DEF One
  <2> QED
    BY <2>3 DEF S, T
<1>11. Cardinality(TransmittedIn(ms)) =
         Cardinality(TransmittedIn(msgs)) + One(m.transmitted) - One(msgs[i].transmitted)
  <2> DEFINE D == DOMAIN msgs
             S == TransmittedIn(msgs)
             T == TransmittedIn(ms)
  <2>1. /\ IsFiniteSet(D) /\ S \subseteq D /\ T \subseteq D /\ i \in D
        /\ \A j \in D : j # i => (j \in S <=> j \in T)
        /\ (i \in T) <=> m.transmitted
        /\ (i \in S) <=> msgs[i].transmitted
    BY <1>7, <1>8 DEF TransmittedIn
  <2> HIDE DEF D, S, T
  <2>2. /\ Cardinality(S) \in Nat
        /\ (i \in S <=> i \in T) => Cardinality(T) = Cardinality(S)
        /\ (i \in T /\ i \notin S) => Cardinality(T) = Cardinality(S) + 1
        /\ (i \in S /\ i \notin T) => Cardinality(T) = Cardinality(S) - 1
    BY <2>1, OnePositionChanges
  <2>3. Cardinality(T) = Cardinality(S) + One(m.transmitted) - One(msgs[i].transmitted)
    BY <2>1, <2>2 DEF One
  <2> QED
    BY <2>3 DEF S, T
<1>12. Cardinality(AckedIn(ms)) =
         Cardinality(AckedIn(msgs)) + One(m.acked) - One(msgs[i].acked)
  <2> DEFINE D == DOMAIN msgs
             S == AckedIn(msgs)
             T == AckedIn(ms)
  <2>1. /\ IsFiniteSet(D) /\ S \subseteq D /\ T \subseteq D /\ i \in D
        /\ \A j \in D : j # i => (j \in S <=> j \in T)
        /\ (i \in T) <=> m.acked
        /\ (i \in S) <=> msgs[i].acked
    BY <1>7, <1>8 DEF AckedIn
  <2> HIDE DEF D, S, T
  <2>2. /\ Cardinality(S) \in Nat
        /\ (i \in S <=> i \in T) => Cardinality(T) = Cardinality(S)
        /\ (i \in T /\ i \notin S) => Cardinality(T) = Cardinality(S) + 1
        /\ (i \in S /\ i \notin T) => Cardinality(T) = Cardinality(S) - 1
    BY <2>1, OnePositionChanges
  <2>3. Cardinality(T) = Cardinality(S) + One(m.acked) - One(msgs[i].acked)
    BY <2>1, <2>2 DEF One
  <2> QED
    BY <2>3 DEF S, T
<1>13. Cardinality(ReachedIn(ms)) =
         Cardinality(ReachedIn(msgs)) + One(m.delivered # {}) - One(msgs[i].delivered # {})
  <2> DEFINE D == DOMAIN msgs
             S == ReachedIn(msgs)
             T == ReachedIn(ms)
  <2>1. /\ IsFiniteSet(D) /\ S \subseteq D /\ T \subseteq D /\ i \in D
        /\ \A j \in D : j # i => (j \in S <=> j \in T)
        /\ (i \in T) <=> (m.delivered # {})
        /\ (i \in S) <=> (msgs[i].delivered # {})
    BY <1>7, <1>8 DEF ReachedIn
  <2> HIDE DEF D, S, T
  <2>2. /\ Cardinality(S) \in Nat
        /\ (i \in S <=> i \in T) => Cardinality(T) = Cardinality(S)
        /\ (i \in T /\ i \notin S) => Cardinality(T) = Cardinality(S) + 1
        /\ (i \in S /\ i \notin T) => Cardinality(T) = Cardinality(S) - 1
    BY <2>1, OnePositionChanges
  <2>3. Cardinality(T) = Cardinality(S) + One(m.delivered # {}) - One(msgs[i].delivered # {})
    BY <2>1, <2>2 DEF One
  <2> QED
    BY <2>3 DEF S, T
<1>14. c.deliveries = Cardinality(DeliveriesIn(ms))
  <2> DEFINE S == DeliveriesIn(msgs)
             T == DeliveriesIn(ms)
  <2>1. IsFiniteSet((DOMAIN msgs) \X Receivers)
    BY <1>7, FS_Product, AccountingAssumption
  <2>2. S \subseteq (DOMAIN msgs) \X Receivers
    BY DEF DeliveriesIn
  <2>3. IsFiniteSet(S)
    BY <2>1, <2>2, FS_Subset
  <2>4. counts.deliveries = Cardinality(S)
    BY DEF CountInv, Tally
  <2>5. CASE m.delivered = msgs[i].delivered /\ c.deliveries = counts.deliveries
    <3>1. \A j \in DOMAIN msgs : ms[j].delivered = msgs[j].delivered
      BY <1>8, <2>5
    <3>2. S = T
      BY <1>7, <3>1 DEF DeliveriesIn
    <3> QED
      BY <2>4, <2>5, <3>2
  <2>6. ASSUME NEW node \in Receivers \ msgs[i].delivered,
               m.delivered = msgs[i].delivered \cup {node},
               c.deliveries = counts.deliveries + 1
        PROVE  c.deliveries = Cardinality(DeliveriesIn(ms))
    <3>1. ASSUME NEW d \in (DOMAIN msgs) \X Receivers
          PROVE  d \in T <=> d \in S \cup {<<i, node>>}
      <4>1. PICK j \in DOMAIN msgs, r \in Receivers : d = <<j, r>>
        OBVIOUS
      <4>2. d \in T <=> r \in ms[j].delivered
        BY <1>7, <4>1 DEF DeliveriesIn
      <4>3. d \in S <=> r \in msgs[j].delivered
        BY <4>1 DEF DeliveriesIn
      <4>4. d = <<i, node>> <=> (j = i /\ r = node)
        BY <4>1
      <4>5. r \in ms[j].delivered <=> (r \in msgs[j].delivered \/ (j = i /\ r = node))
        BY <1>8, <2>6
      <4> HIDE DEF S, T
      <4> QED
        BY <4>2, <4>3, <4>4, <4>5
    <3>2. /\ T \subseteq (DOMAIN msgs) \X Receivers
          /\ <<i, node>> \in (DOMAIN msgs) \X Receivers
          /\ <<i, node>> \notin S
      BY <1>7 DEF DeliveriesIn
    <3> HIDE DEF S, T
    <3>3. T = S \cup {<<i, node>>}
      BY <2>2, <3>1, <3>2
    <3>4. Cardinality(T) = Cardinality(S) + 1
      BY <2>3, <3>2, <3>3, FS_AddElement
    <3> QED
      BY <2>4, <2>6, <3>4 DEF T
  <2> QED
    BY <2>5, <2>6 DEF Fits
<1>15. Tally(c, ms)
  <2>1. /\ c.generated = counts.generated
        /\ c.submitted = counts.submitted + One(m.submitted) - One(msgs[i].submitted)
        /\ c.failed = counts.failed + One(m.error) - One(msgs[i].error)
        /\ c.transmitted = counts.transmitted + One(m.transmitted) - One(msgs[i].transmitted)
        /\ c.acks = counts.acks + One(m.acked) - One(msgs[i].acked)
        /\ c.unique = counts.unique + One(m.delivered # {}) - One(msgs[i].delivered # {})
        /\ c.transmitted <= c.rf
    BY DEF Fits
  <2>2. Tally(counts, msgs)
    BY DEF CountInv
  <2> QED
    BY <1>4, <1>9, <1>10, <1>11, <1>12, <1>13, <1>14, <2>1, <2>2 DEF Tally, n
<1>16. ASSUME NEW j \in DOMAIN msgs'
       PROVE  Consistent(msgs[j])'
  <2>1. Consistent(ms[j])
    BY <1>1, <1>7, <1>6
  <2> QED
    BY <1>1, <2>1 DEF Consistent
<1>17. Tally(counts, msgs)'
  BY <1>1, <1>15, Zenon
<1>18. CountInv'
  BY <1>16, <1>17 DEF CountInv
<1> QED
  BY <1>1, <1>4, <1>6, <1>18 DEF n, Fits

-----------------------------------------------------------------------------
(* Each report changes one message and the counters accordingly, or nothing *)

Counted(i) ==
    \/ UNCHANGED <<msgs, counts>>
    \/ \E m, c : Fits(i, m, c) /\ Change(i, m, c)

\* What the invariant says of one message and of the counters.
LEMMA OneMessage ==
    ASSUME Types, CountInv, NEW i \in DOMAIN msgs
    PROVE  /\ msgs[i] \in Message /\ Consistent(msgs[i]) /\ counts \in Counters
           /\ counts.transmitted <= counts.rf
           /\ counts.submitted \in Int /\ counts.failed \in Int /\ counts.transmitted \in Int
           /\ counts.acks \in Int /\ counts.unique \in Int /\ counts.rf \in Int
           /\ counts.deliveries \in Int
<1>1. /\ msgs[i] \in Message /\ Consistent(msgs[i]) /\ counts \in Counters
      /\ counts.transmitted <= counts.rf
  BY Elements DEF CountInv, Tally, Types
<1> QED
  BY <1>1 DEF Counters

\* A queue status resolves a pending submission once.
LEMMA QueueStatusCounts ==
    ASSUME Types, CountInv, NEW i \in DOMAIN msgs, NEW failed \in BOOLEAN,
           QueueStatus(i, failed)
    PROVE  Counted(i)
<1> DEFINE m0 == msgs[i]
           m == [Resolved(m0, failed) EXCEPT !.pending = FALSE]
           c == ResolvedCounts(counts, m0, failed)
<1>1. /\ m0 \in Message /\ Consistent(m0) /\ counts \in Counters
      /\ counts.transmitted <= counts.rf
  BY OneMessage
<1>2. CASE ~m0.pending
  BY <1>2 DEF QueueStatus, Counted
<1>3. CASE m0.pending
  <2>1. Change(i, m, c)
    BY <1>3 DEF QueueStatus
  <2>2. ~m0.submitted /\ ~m0.error /\ ~m0.transmitted /\ ~m0.acked
    BY <1>1, <1>3 DEF Consistent
  <2>3. /\ m \in Message /\ m.id = m0.id /\ m.dest = m0.dest /\ ~m.pending
        /\ m.submitted = ~failed /\ m.error = failed /\ m.transmitted = m0.transmitted
        /\ m.acked = m0.acked /\ m.delivered = m0.delivered
    BY <1>1, <2>2 DEF Resolved, Message
  <2>4. /\ c \in Counters /\ c.generated = counts.generated
        /\ c.submitted = counts.submitted + One(~failed) /\ c.failed = counts.failed + One(failed)
        /\ c.transmitted = counts.transmitted /\ c.acks = counts.acks
        /\ c.unique = counts.unique /\ c.deliveries = counts.deliveries /\ c.rf = counts.rf
    BY <1>1, <2>2 DEF ResolvedCounts, Counters, One
  <2> HIDE DEF m, c
  <2>5. Consistent(m)
    BY <1>1, <2>2, <2>3 DEF Consistent
  <2>6. Fits(i, m, c)
    <3>1. /\ One(m.submitted) = One(~failed) /\ One(m0.submitted) = 0
          /\ One(m.error) = One(failed) /\ One(m0.error) = 0
          /\ One(m.transmitted) = 0 /\ One(m0.transmitted) = 0
          /\ One(m.acked) = 0 /\ One(m0.acked) = 0
      BY <2>2, <2>3 DEF One
    <3>2. /\ One(~failed) \in Int /\ One(failed) \in Int
          /\ One(m.delivered # {}) = One(m0.delivered # {}) /\ One(m0.delivered # {}) \in Int
      BY <2>3 DEF One
    <3>3. /\ counts.submitted \in Int /\ counts.failed \in Int /\ counts.transmitted \in Int
          /\ counts.acks \in Int /\ counts.unique \in Int
      BY OneMessage
    <3> QED
      BY <1>1, <2>3, <2>4, <2>5, <3>1, <3>2, <3>3 DEF Fits
  <2> QED
    BY <2>1, <2>6 DEF Counted
<1> QED
  BY <1>2, <1>3

\* An RF transmission counts a submitted message once, and every transmission.
LEMMA RFTransmissionCounts ==
    ASSUME Types, CountInv, NEW i \in DOMAIN msgs, RFTransmission(i)
    PROVE  Counted(i)
<1> DEFINE m0 == msgs[i]
           m == [m0 EXCEPT !.transmitted = TRUE]
           c == [counts EXCEPT !.transmitted = @ + IF m0.transmitted THEN 0 ELSE 1,
                               !.rf = @ + 1]
<1>1. CASE ~m0.submitted
  BY <1>1 DEF RFTransmission, Counted
<1>2. CASE m0.submitted
  <2>1. Change(i, m, c)
    BY <1>2 DEF RFTransmission
  <2>2. /\ m \in Message /\ m.id = m0.id /\ m.dest = m0.dest /\ m.pending = m0.pending
        /\ m.submitted = m0.submitted /\ m.error = m0.error /\ m.transmitted
        /\ m.acked = m0.acked /\ m.delivered = m0.delivered
    BY OneMessage DEF Message
  <2>3. /\ c \in Counters /\ c.generated = counts.generated
        /\ c.submitted = counts.submitted /\ c.failed = counts.failed
        /\ c.transmitted = counts.transmitted + One(~m0.transmitted) /\ c.acks = counts.acks
        /\ c.unique = counts.unique /\ c.deliveries = counts.deliveries /\ c.rf = counts.rf + 1
    <3>1. PICK k \in Int : k = One(~m0.transmitted) /\ k = IF m0.transmitted THEN 0 ELSE 1
      BY DEF One
    <3>2. /\ counts \in Counters
          /\ c = [[counts EXCEPT !.transmitted = counts.transmitted + k]
                  EXCEPT !.rf = counts.rf + 1]
      BY <3>1, OneMessage
    <3> HIDE DEF c
    <3> DEFINE c1 == [counts EXCEPT !.transmitted = counts.transmitted + k]
    <3>3. /\ c1 \in Counters /\ c1.transmitted = counts.transmitted + k
          /\ \A f \in DOMAIN counts : f # "transmitted" => c1[f] = counts[f]
      BY <3>2 DEF Counters
    <3>4. c = [c1 EXCEPT !.rf = counts.rf + 1]
      BY <3>2
    <3> HIDE DEF c1
    <3>5. /\ c \in Counters /\ c.generated = counts.generated
          /\ c.submitted = counts.submitted /\ c.failed = counts.failed
          /\ c.transmitted = counts.transmitted + k /\ c.acks = counts.acks
          /\ c.unique = counts.unique /\ c.deliveries = counts.deliveries /\ c.rf = counts.rf + 1
      BY <3>2, <3>3, <3>4 DEF Counters
    <3> QED
      BY <3>1, <3>5
  <2> HIDE DEF m, c
  <2>4. Consistent(m)
    BY <1>2, <2>2, OneMessage DEF Consistent
  <2>5. Fits(i, m, c)
    <3>1. /\ One(m.submitted) = One(m0.submitted) /\ One(m.error) = One(m0.error)
          /\ One(m.acked) = One(m0.acked) /\ One(m.delivered # {}) = One(m0.delivered # {})
          /\ One(~m0.transmitted) = One(m.transmitted) - One(m0.transmitted)
          /\ One(~m0.transmitted) \in 0 .. 1
      BY <2>2 DEF One
    <3>2. /\ One(m0.submitted) \in Int /\ One(m0.error) \in Int /\ One(m0.acked) \in Int
          /\ One(m0.delivered # {}) \in Int
          /\ One(m0.transmitted) \in Int /\ One(m.transmitted) \in Int
      BY DEF One
    <3>3. /\ counts.submitted \in Int /\ counts.failed \in Int /\ counts.transmitted \in Int
          /\ counts.acks \in Int /\ counts.unique \in Int /\ counts.rf \in Int
          /\ counts.transmitted <= counts.rf
      BY OneMessage
    <3>4. /\ c.submitted = counts.submitted + One(m.submitted) - One(m0.submitted)
          /\ c.failed = counts.failed + One(m.error) - One(m0.error)
          /\ c.transmitted = counts.transmitted + One(m.transmitted) - One(m0.transmitted)
          /\ c.acks = counts.acks + One(m.acked) - One(m0.acked)
          /\ c.unique = counts.unique + One(m.delivered # {}) - One(m0.delivered # {})
          /\ c.transmitted <= c.rf
      BY <2>3, <3>1, <3>2, <3>3
    <3> QED
      BY <2>2, <2>3, <2>4, <3>4 DEF Fits
  <2> QED
    BY <2>1, <2>5 DEF Counted
<1> QED
  BY <1>1, <1>2

\* A received text counts once per node.
LEMMA TextCounts ==
    ASSUME Types, CountInv, NEW i \in DOMAIN msgs, NEW node \in Receivers, Text(i, node)
    PROVE  Counted(i)
<1> DEFINE m0 == msgs[i]
           counted == /\ m0.submitted /\ (kind = "direct" => node = m0.dest)
                      /\ node \notin m0.delivered
           m == [m0 EXCEPT !.delivered = @ \cup {node}]
           c == [counts EXCEPT !.deliveries = @ + 1,
                               !.unique = @ + IF m0.delivered = {} THEN 1 ELSE 0]
<1>1. CASE ~counted
  BY <1>1 DEF Text, Counted
<1>2. CASE counted
  <2>1. Change(i, m, c)
    BY <1>2 DEF Text
  <2>2. /\ m \in Message /\ m.id = m0.id /\ m.dest = m0.dest /\ m.pending = m0.pending
        /\ m.submitted = m0.submitted /\ m.error = m0.error /\ m.transmitted = m0.transmitted
        /\ m.acked = m0.acked /\ m.delivered = m0.delivered \cup {node}
    BY OneMessage DEF Message
  <2>3. /\ c \in Counters /\ c.generated = counts.generated
        /\ c.submitted = counts.submitted /\ c.failed = counts.failed
        /\ c.transmitted = counts.transmitted /\ c.acks = counts.acks
        /\ c.unique = counts.unique + One(m0.delivered = {})
        /\ c.deliveries = counts.deliveries + 1 /\ c.rf = counts.rf
    <3>1. PICK k \in Int : k = One(m0.delivered = {}) /\ k = IF m0.delivered = {} THEN 1 ELSE 0
      BY DEF One
    <3>2. /\ counts \in Counters
          /\ c = [[counts EXCEPT !.deliveries = counts.deliveries + 1]
                  EXCEPT !.unique = counts.unique + k]
      BY <3>1, OneMessage
    <3> HIDE DEF c
    <3> DEFINE c1 == [counts EXCEPT !.deliveries = counts.deliveries + 1]
    <3>3. /\ c1 \in Counters /\ c1.deliveries = counts.deliveries + 1
          /\ \A f \in DOMAIN counts : f # "deliveries" => c1[f] = counts[f]
      BY <3>2 DEF Counters
    <3>4. c = [c1 EXCEPT !.unique = counts.unique + k]
      BY <3>2
    <3> HIDE DEF c1
    <3>5. /\ c \in Counters /\ c.generated = counts.generated
          /\ c.submitted = counts.submitted /\ c.failed = counts.failed
          /\ c.transmitted = counts.transmitted /\ c.acks = counts.acks
          /\ c.unique = counts.unique + k
          /\ c.deliveries = counts.deliveries + 1 /\ c.rf = counts.rf
      BY <3>2, <3>3, <3>4 DEF Counters
    <3> QED
      BY <3>1, <3>5
  <2> HIDE DEF m, c
  <2>4. Consistent(m)
    BY <1>2, <2>2, OneMessage DEF Consistent
  <2>5. Fits(i, m, c)
    <3>1. /\ One(m.submitted) = One(m0.submitted) /\ One(m.error) = One(m0.error)
          /\ One(m.acked) = One(m0.acked) /\ One(m.transmitted) = One(m0.transmitted)
          /\ One(m0.delivered = {}) = One(m.delivered # {}) - One(m0.delivered # {})
      BY <2>2 DEF One
    <3>2. /\ One(m0.submitted) \in Int /\ One(m0.error) \in Int /\ One(m0.acked) \in Int
          /\ One(m0.delivered # {}) \in Int /\ One(m.delivered # {}) \in Int
          /\ One(m0.transmitted) \in Int
      BY DEF One
    <3>3. node \in Receivers \ m0.delivered
      BY <1>2
    <3> QED
      BY <2>2, <2>3, <2>4, <3>1, <3>2, <3>3, OneMessage DEF Fits
  <2> QED
    BY <2>1, <2>5 DEF Counted
<1> QED
  BY <1>1, <1>2

\* An acknowledgment counts once per transmitted message.
LEMMA AckCounts ==
    ASSUME Types, CountInv, NEW i \in DOMAIN msgs, NEW from, Ack(i, from)
    PROVE  Counted(i)
<1> DEFINE m0 == msgs[i]
           m == [m0 EXCEPT !.acked = TRUE]
           c == [counts EXCEPT !.acks = @ + 1]
<1>1. CASE UNCHANGED <<msgs, counts>>
  BY <1>1 DEF Counted
<1>2. CASE m0.transmitted /\ ~m0.acked /\ Change(i, m, c)
  <2>1. /\ m \in Message /\ m.id = m0.id /\ m.dest = m0.dest /\ m.pending = m0.pending
        /\ m.submitted = m0.submitted /\ m.error = m0.error /\ m.transmitted = m0.transmitted
        /\ m.acked /\ m.delivered = m0.delivered
    BY OneMessage DEF Message
  <2>2. /\ c \in Counters /\ c.generated = counts.generated
        /\ c.submitted = counts.submitted /\ c.failed = counts.failed
        /\ c.transmitted = counts.transmitted /\ c.acks = counts.acks + 1
        /\ c.unique = counts.unique /\ c.deliveries = counts.deliveries /\ c.rf = counts.rf
    BY OneMessage DEF Counters
  <2>3. Change(i, m, c)
    BY <1>2
  <2> HIDE DEF m, c
  <2>4. Consistent(m)
    BY <1>2, <2>1, OneMessage DEF Consistent
  <2>5. Fits(i, m, c)
    <3>1. /\ One(m.submitted) = One(m0.submitted) /\ One(m.error) = One(m0.error)
          /\ One(m.acked) = 1 /\ One(m0.acked) = 0 /\ One(m.transmitted) = One(m0.transmitted)
          /\ One(m.delivered # {}) = One(m0.delivered # {})
      BY <1>2, <2>1 DEF One
    <3>2. /\ One(m0.submitted) \in Int /\ One(m0.error) \in Int
          /\ One(m0.delivered # {}) \in Int /\ One(m0.transmitted) \in Int
      BY DEF One
    <3>3. /\ counts.submitted \in Int /\ counts.failed \in Int /\ counts.transmitted \in Int
          /\ counts.acks \in Int /\ counts.unique \in Int /\ counts.rf \in Int
          /\ counts.transmitted <= counts.rf
      BY OneMessage
    <3>4. /\ c.submitted = counts.submitted + One(m.submitted) - One(m0.submitted)
          /\ c.failed = counts.failed + One(m.error) - One(m0.error)
          /\ c.transmitted = counts.transmitted + One(m.transmitted) - One(m0.transmitted)
          /\ c.acks = counts.acks + One(m.acked) - One(m0.acked)
          /\ c.unique = counts.unique + One(m.delivered # {}) - One(m0.delivered # {})
          /\ c.transmitted <= c.rf
      BY <2>2, <3>1, <3>2, <3>3
    <3> QED
      BY <2>1, <2>2, <2>4, <3>4 DEF Fits
  <2> QED
    BY <2>3, <2>5 DEF Counted
<1> QED
  BY <1>1, <1>2 DEF Ack

\* A rate-limit error moves a message from submitted or pending to failed.
LEMMA LimitedCounts ==
    ASSUME Types, CountInv, NEW i \in DOMAIN msgs, Limited(i)
    PROVE  Counted(i)
<1> DEFINE m0 == msgs[i]
           m == Rejection(m0, counts)[1]
           c == Rejection(m0, counts)[2]
<1>1. CASE m0.transmitted \/ m0.error
  BY <1>1 DEF Limited, Counted
<1>2. CASE ~(m0.transmitted \/ m0.error)
  <2>1. Change(i, m, c)
    BY <1>2 DEF Limited
  <2>2. /\ m \in Message /\ m.id = m0.id /\ m.dest = m0.dest /\ ~m.pending
        /\ ~m.submitted /\ m.error /\ m.transmitted = m0.transmitted
        /\ m.acked = m0.acked /\ m.delivered = m0.delivered
    BY OneMessage DEF Message, Rejection
  <2>3. /\ c \in Counters /\ c.generated = counts.generated
        /\ c.submitted = counts.submitted - One(m0.submitted) /\ c.failed = counts.failed + 1
        /\ c.transmitted = counts.transmitted /\ c.acks = counts.acks
        /\ c.unique = counts.unique /\ c.deliveries = counts.deliveries /\ c.rf = counts.rf
    <3>1. PICK k \in Int : k = One(m0.submitted) /\ k = IF m0.submitted THEN 1 ELSE 0
      BY DEF One
    <3>2. /\ counts \in Counters
          /\ c = [[counts EXCEPT !.failed = counts.failed + 1]
                  EXCEPT !.submitted = counts.submitted - k]
      BY <3>1, OneMessage DEF Rejection
    <3> HIDE DEF c
    <3> DEFINE c1 == [counts EXCEPT !.failed = counts.failed + 1]
    <3>3. /\ c1 \in Counters /\ c1.failed = counts.failed + 1
          /\ \A f \in DOMAIN counts : f # "failed" => c1[f] = counts[f]
      BY <3>2 DEF Counters
    <3>4. c = [c1 EXCEPT !.submitted = counts.submitted - k]
      BY <3>2
    <3> HIDE DEF c1
    <3>5. /\ c \in Counters /\ c.generated = counts.generated
          /\ c.submitted = counts.submitted - k /\ c.failed = counts.failed + 1
          /\ c.transmitted = counts.transmitted /\ c.acks = counts.acks
          /\ c.unique = counts.unique /\ c.deliveries = counts.deliveries /\ c.rf = counts.rf
      BY <3>2, <3>3, <3>4 DEF Counters
    <3> QED
      BY <3>1, <3>5
  <2> HIDE DEF m, c
  <2>4. Consistent(m)
    BY <1>2, <2>2, OneMessage DEF Consistent
  <2>5. Fits(i, m, c)
    <3>1. /\ One(m.submitted) = 0 /\ One(m.error) = 1 /\ One(m0.error) = 0
          /\ One(m.acked) = One(m0.acked) /\ One(m.transmitted) = One(m0.transmitted)
          /\ One(m.delivered # {}) = One(m0.delivered # {})
      BY <1>2, <2>2 DEF One
    <3>2. /\ One(m0.submitted) \in Int /\ One(m0.acked) \in Int
          /\ One(m0.delivered # {}) \in Int /\ One(m0.transmitted) \in Int
      BY DEF One
    <3>3. /\ counts.submitted \in Int /\ counts.failed \in Int /\ counts.transmitted \in Int
          /\ counts.acks \in Int /\ counts.unique \in Int /\ counts.rf \in Int
          /\ counts.transmitted <= counts.rf
      BY OneMessage
    <3>4. /\ c.submitted = counts.submitted + One(m.submitted) - One(m0.submitted)
          /\ c.failed = counts.failed + One(m.error) - One(m0.error)
          /\ c.transmitted = counts.transmitted + One(m.transmitted) - One(m0.transmitted)
          /\ c.acks = counts.acks + One(m.acked) - One(m0.acked)
          /\ c.unique = counts.unique + One(m.delivered # {}) - One(m0.delivered # {})
          /\ c.transmitted <= c.rf
      BY <2>3, <3>1, <3>2, <3>3
    <3> QED
      BY <2>2, <2>3, <2>4, <3>4 DEF Fits
  <2> QED
    BY <2>1, <2>5 DEF Counted
<1> QED
  BY <1>1, <1>2

\* A report counts for one message of a run that accepts reports.
LEMMA DeliverCounts ==
    ASSUME Types, CountInv, Deliver
    PROVE  /\ UNCHANGED <<run, kind, asked, step, used, quarantine, air, result, now, earlier>>
           /\ \/ UNCHANGED <<msgs, counts>>
              \/ Accepts /\ \E i \in DOMAIN msgs : Counted(i)
<1>1. UNCHANGED <<run, kind, asked, step, used, quarantine, air, result, now, earlier>>
  BY DEF Deliver, ids
<1>2. PICK p \in air : \E r \in Says(p.fate) : Hear(p, r[1], r[2])
  BY DEF Deliver
<1>3. PICK r \in Says(p.fate) : Hear(p, r[1], r[2])
  BY <1>2
<1>4. r[1] = "text" => r[2] \in Receivers
  BY DEF Says
<1> DEFINE known == {i \in DOMAIN msgs : msgs[i].id = p.id}
<1>5. CASE ~Accepts \/ known = {} \/ (r[1] = "text" /\ p.run # run)
  BY <1>1, <1>3, <1>5 DEF Hear
<1>6. CASE ~(~Accepts \/ known = {} \/ (r[1] = "text" /\ p.run # run))
  <2>1. known \in SUBSET Nat /\ known # {}
    BY <1>6, LenProperties DEF Types
  <2>2. PICK i \in DOMAIN msgs : i = Min(known)
    <3> HIDE DEF known
    <3>1. Min(known) \in known
      BY <2>1, LeastMember
    <3> QED
      BY <3>1 DEF known
  <2>3. \/ QueueStatus(i, FALSE) \/ QueueStatus(i, TRUE) \/ RFTransmission(i)
        \/ r[2] \in Receivers /\ Text(i, r[2])
        \/ Ack(i, r[2]) \/ Limited(i) \/ UNCHANGED <<msgs, counts>>
    BY <1>3, <1>4, <1>6, <2>2 DEF Hear, RoutingError
  <2>4. CASE UNCHANGED <<msgs, counts>>
    BY <1>1, <2>4
  <2>5. CASE ~UNCHANGED <<msgs, counts>>
    <3>1. Counted(i)
      BY <2>3, <2>5, QueueStatusCounts, RFTransmissionCounts, TextCounts, AckCounts,
         LimitedCounts
    <3> QED
      BY <1>1, <1>6, <3>1
  <2> QED
    BY <2>4, <2>5
<1> QED
  BY <1>5, <1>6

\* What a counted report keeps.
LEMMA CountedKeeps ==
    ASSUME Types, CountInv, NEW i \in DOMAIN msgs, Counted(i), kind' = kind
    PROVE  /\ msgs' \in Seq(Message) /\ counts' \in Counters /\ Len(msgs') = Len(msgs)
           /\ \A j \in DOMAIN msgs : msgs'[j].id = msgs[j].id
           /\ CountInv'
<1>1. CASE UNCHANGED <<msgs, counts>>
  BY <1>1 DEF Types, CountInv, Consistent
<1>2. ASSUME NEW m, NEW c, Fits(i, m, c), Change(i, m, c)
      PROVE  /\ msgs' \in Seq(Message) /\ counts' \in Counters /\ Len(msgs') = Len(msgs)
             /\ \A j \in DOMAIN msgs : msgs'[j].id = msgs[j].id
             /\ CountInv'
  BY <1>2, ChangeKeepsTally
<1> QED
  BY <1>1, <1>2 DEF Counted

-----------------------------------------------------------------------------
(* A new message, and the pending ones at the end of a run *)

\* A message that is appended, pending or failed at once.
LEMMA AppendKeepsTally ==
    ASSUME Types, CountInv, NEW m \in Message, Consistent(m),
           ~m.submitted, ~m.transmitted, ~m.acked, m.delivered = {},
           msgs' = Append(msgs, m), counts' \in Counters,
           counts'.generated = counts.generated + 1,
           counts'.failed = counts.failed + One(m.error),
           counts'.submitted = counts.submitted, counts'.transmitted = counts.transmitted,
           counts'.acks = counts.acks, counts'.unique = counts.unique,
           counts'.deliveries = counts.deliveries, counts'.rf = counts.rf, kind' = kind
    PROVE  CountInv'
<1> DEFINE n == Len(msgs)
<1>1. /\ msgs \in Seq(Message) /\ n \in Nat /\ DOMAIN msgs = 1 .. n
  BY LenProperties DEF Types
<1>2. /\ msgs' \in Seq(Message) /\ Len(msgs') = n + 1
      /\ \A j \in 1 .. n : msgs'[j] = msgs[j]
      /\ msgs'[n + 1] = m
  BY <1>1, AppendProperties
<1>3. DOMAIN msgs' = 1 .. n + 1
  BY <1>2, LenProperties
<1>4. PICK k : /\ k = n + 1 /\ k \notin DOMAIN msgs /\ DOMAIN msgs' = DOMAIN msgs \cup {k}
               /\ msgs'[k] = m /\ \A j \in DOMAIN msgs : msgs'[j] = msgs[j]
  BY <1>1, <1>2, <1>3
<1>5. IsFiniteSet(DOMAIN msgs)
  BY <1>1, FS_Interval
<1>6. PICK ms : ms = msgs'
  OBVIOUS
<1>7. /\ SubmittedIn(ms) = SubmittedIn(msgs) /\ TransmittedIn(ms) = TransmittedIn(msgs)
      /\ AckedIn(ms) = AckedIn(msgs) /\ ReachedIn(ms) = ReachedIn(msgs)
  BY <1>4, <1>6 DEF SubmittedIn, TransmittedIn, AckedIn, ReachedIn
<1>8. DeliveriesIn(ms) = DeliveriesIn(msgs)
  BY <1>4, <1>6 DEF DeliveriesIn
<1>9. Cardinality(FailedIn(ms)) =
         Cardinality(FailedIn(msgs)) + One(m.error)
  <2>1. /\ IsFiniteSet(FailedIn(msgs)) /\ k \notin FailedIn(msgs)
    BY <1>4, <1>5, FS_Subset DEF FailedIn
  <2>2. CASE m.error
    <3>1. FailedIn(ms) = FailedIn(msgs) \cup {k}
      BY <1>4, <1>6, <2>2 DEF FailedIn
    <3> QED
      BY <2>1, <2>2, <3>1, FS_AddElement DEF One
  <2>3. CASE ~m.error
    <3>1. FailedIn(ms) = FailedIn(msgs)
      BY <1>4, <1>6, <2>3 DEF FailedIn
    <3>2. Cardinality(FailedIn(msgs)) \in Nat
      BY <2>1, FS_CardinalityType
    <3> QED
      BY <2>3, <3>1, <3>2 DEF One
  <2> QED
    BY <2>2, <2>3
<1>10. PICK c : c = counts'
  OBVIOUS
<1>11. Tally(c, ms)
  <2>1. Tally(counts, msgs)
    BY DEF CountInv
  <2>2. Len(ms) = Len(msgs) + 1
    BY <1>2, <1>6
  <2> QED
    BY <1>7, <1>8, <1>9, <1>10, <2>1, <2>2 DEF Tally
<1>12. Tally(counts, msgs)'
  BY <1>6, <1>10, <1>11, Zenon
<1>13. ASSUME NEW j \in DOMAIN msgs'
       PROVE  Consistent(msgs[j])'
  <2>1. Consistent(ms[j])
    BY <1>4, <1>6 DEF CountInv
  <2> QED
    BY <1>6, <2>1 DEF Consistent
<1> QED
  BY <1>12, <1>13 DEF CountInv

\* The messages still pending have failed.
LEMMA FinalizeKeepsTally ==
    ASSUME Types, CountInv, FinalizePending, kind' = kind
    PROVE  /\ msgs' \in Seq(Message) /\ counts' \in Counters /\ Len(msgs') = Len(msgs)
           /\ \A j \in DOMAIN msgs : msgs'[j].id = msgs[j].id
           /\ CountInv' /\ Pending' = {}
<1> DEFINE n == Len(msgs)
<1>1. /\ msgs \in Seq(Message) /\ n \in Nat /\ DOMAIN msgs = 1 .. n
  BY LenProperties DEF Types
<1>2. PICK ms : ms = msgs'
  OBVIOUS
<1>3. PICK c : c = counts'
  OBVIOUS
<1>4. ASSUME NEW j \in DOMAIN msgs
      PROVE  /\ ms[j] \in Message /\ ms[j].id = msgs[j].id /\ Consistent(ms[j])
             /\ ~ms[j].pending
             /\ ms[j].submitted = msgs[j].submitted /\ ms[j].transmitted = msgs[j].transmitted
             /\ ms[j].acked = msgs[j].acked /\ ms[j].delivered = msgs[j].delivered
             /\ ms[j].error <=> (msgs[j].error \/ msgs[j].pending)
  <2>1. msgs[j] \in Message /\ Consistent(msgs[j])
    BY OneMessage
  <2>2. CASE ~msgs[j].pending
    <3>1. ms[j] = msgs[j]
      BY <1>2, <2>2 DEF FinalizePending, Pending
    <3> QED
      BY <2>1, <2>2, <3>1
  <2>3. CASE msgs[j].pending
    <3>1. ms[j] = [Resolved(msgs[j], TRUE) EXCEPT !.pending = FALSE]
      BY <1>2, <2>3 DEF FinalizePending, Pending
    <3>2. ms[j] = [[msgs[j] EXCEPT !.error = TRUE] EXCEPT !.pending = FALSE]
      BY <2>1, <2>3, <3>1 DEF Resolved, Consistent
    <3>3. /\ ms[j] \in Message /\ ms[j].id = msgs[j].id /\ ms[j].dest = msgs[j].dest
          /\ ~ms[j].pending
          /\ ms[j].submitted = msgs[j].submitted /\ ms[j].transmitted = msgs[j].transmitted
          /\ ms[j].acked = msgs[j].acked /\ ms[j].delivered = msgs[j].delivered
          /\ ms[j].error
      BY <2>1, <3>2 DEF Message
    <3>4. Consistent(ms[j])
      BY <2>1, <2>3, <3>3 DEF Consistent
    <3> QED
      BY <2>3, <3>3, <3>4
  <2> QED
    BY <2>2, <2>3
<1>5. /\ ms \in Seq(Message) /\ Len(ms) = n /\ DOMAIN ms = DOMAIN msgs
  <2>1. DOMAIN ms = 1 .. n
    BY <1>1, <1>2 DEF FinalizePending
  <2>2. ms = [j \in 1 .. n |-> ms[j]]
    BY <1>1, <1>2 DEF FinalizePending
  <2>3. ms \in [1 .. n -> Message]
    BY <1>1, <1>4, <2>2
  <2>4. ms \in Seq(Message)
    BY <1>1, <2>3, SeqDef
  <2> QED
    BY <1>1, <2>1, <2>4, LenProperties
<1>6. IsFiniteSet(DOMAIN msgs)
  BY <1>1, FS_Interval
<1>7. /\ SubmittedIn(ms) = SubmittedIn(msgs) /\ TransmittedIn(ms) = TransmittedIn(msgs)
      /\ AckedIn(ms) = AckedIn(msgs) /\ ReachedIn(ms) = ReachedIn(msgs)
  BY <1>4, <1>5 DEF SubmittedIn, TransmittedIn, AckedIn, ReachedIn
<1>8. DeliveriesIn(ms) = DeliveriesIn(msgs)
  BY <1>4, <1>5 DEF DeliveriesIn
<1>9. /\ IsFiniteSet(FailedIn(msgs)) /\ IsFiniteSet(Pending)
      /\ Cardinality(Pending) \in Nat /\ Cardinality(FailedIn(msgs)) \in Nat
  BY <1>6, FS_Subset, FS_CardinalityType DEF FailedIn, Pending
<1>10. Cardinality(FailedIn(ms)) =
         Cardinality(FailedIn(msgs)) + Cardinality(Pending)
  <2>1. FailedIn(ms) = FailedIn(msgs) \cup Pending
    BY <1>4, <1>5 DEF FailedIn, Pending
  <2>2. FailedIn(msgs) \cap Pending = {}
    BY OneMessage DEF FailedIn, Pending, Consistent
  <2>3. Cardinality(FailedIn(msgs) \cup Pending) =
          Cardinality(FailedIn(msgs)) + Cardinality(Pending) - Cardinality({})
    BY <1>9, <2>2, FS_Union
  <2> QED
    BY <1>9, <2>1, <2>3, FS_EmptySet
<1>11. c = [counts EXCEPT !.failed = counts.failed + Cardinality(Pending)]
  <2>1. {j \in Pending : ~msgs[j].submitted /\ ~msgs[j].error} = Pending
    BY OneMessage DEF Pending, Consistent
  <2> QED
    BY <1>3, <2>1 DEF FinalizePending
<1>12. /\ counts \in Counters /\ Tally(counts, msgs)
  BY DEF Types, CountInv
<1>13. /\ c \in Counters /\ c.generated = counts.generated
       /\ c.submitted = counts.submitted /\ c.failed = counts.failed + Cardinality(Pending)
       /\ c.transmitted = counts.transmitted /\ c.acks = counts.acks
       /\ c.unique = counts.unique /\ c.deliveries = counts.deliveries /\ c.rf = counts.rf
  BY <1>9, <1>11, <1>12 DEF Counters
<1>14. Tally(c, ms)
  BY <1>5, <1>7, <1>8, <1>10, <1>12, <1>13 DEF Tally
<1>15. Tally(counts, msgs)'
  BY <1>2, <1>3, <1>14, Zenon
<1>16. ASSUME NEW j \in DOMAIN msgs'
       PROVE  Consistent(msgs[j])'
  <2>1. Consistent(ms[j])
    BY <1>2, <1>4, <1>5
  <2> QED
    BY <1>2, <2>1 DEF Consistent
<1>17. CountInv'
  BY <1>15, <1>16 DEF CountInv
<1>18. Pending' = {}
  BY <1>2, <1>4, <1>5 DEF Pending
<1> QED
  BY <1>2, <1>3, <1>4, <1>5, <1>13, <1>17, <1>18

-----------------------------------------------------------------------------
(* What the counters say together *)

\* Every message is submitted, failed or pending.
LEMMA Partition ==
    ASSUME Types, CountInv
    PROVE  /\ counts.generated = counts.submitted + counts.failed + Cardinality(Pending)
           /\ Cardinality(Pending) \in Nat
<1> DEFINE n == Len(msgs)
           S == SubmittedIn(msgs)
           F == FailedIn(msgs)
<1>1. /\ n \in Nat /\ DOMAIN msgs = 1 .. n
  BY LenProperties DEF Types
<1>2. IsFiniteSet(DOMAIN msgs) /\ Cardinality(DOMAIN msgs) = n
  <2>1. Cardinality(1 .. n) = IF 1 > n THEN 0 ELSE n - 1 + 1
    BY <1>1, FS_Interval
  <2>2. IsFiniteSet(1 .. n)
    BY <1>1, FS_Interval
  <2> HIDE DEF n
  <2>3. Cardinality(1 .. n) = n
    BY <1>1, <2>1
  <2> QED
    BY <1>1, <2>2, <2>3
<1>3. /\ S \subseteq DOMAIN msgs /\ F \subseteq DOMAIN msgs /\ Pending \subseteq DOMAIN msgs
  BY DEF SubmittedIn, FailedIn, Pending
<1>4. /\ (S \cup F) \cup Pending = DOMAIN msgs
      /\ S \cap F = {} /\ (S \cup F) \cap Pending = {}
  BY OneMessage DEF SubmittedIn, FailedIn, Pending, Consistent
<1>5. counts.generated = n /\ counts.submitted = Cardinality(S) /\ counts.failed = Cardinality(F)
  BY DEF CountInv, Tally
<1> HIDE DEF S, F, n
<1>6. /\ IsFiniteSet(S) /\ IsFiniteSet(F) /\ IsFiniteSet(Pending) /\ IsFiniteSet(S \cup F)
  BY <1>2, <1>3, FS_Subset, FS_Union
<1>7. Cardinality(S) \in Nat /\ Cardinality(F) \in Nat /\ Cardinality(Pending) \in Nat
  BY <1>6, FS_CardinalityType
<1>8. Cardinality(S \cup F) = Cardinality(S) + Cardinality(F) - Cardinality({})
  BY <1>4, <1>6, FS_Union
<1>9. Cardinality((S \cup F) \cup Pending) =
        Cardinality(S \cup F) + Cardinality(Pending) - Cardinality({})
  BY <1>4, <1>6, FS_Union
<1>10. Cardinality({}) = 0
  BY FS_EmptySet
<1> QED
  BY <1>2, <1>4, <1>5, <1>7, <1>8, <1>9, <1>10

\* No more messages are acknowledged than submitted.
LEMMA AcksBounded ==
    ASSUME Types, CountInv
    PROVE  counts.acks <= counts.transmitted /\ counts.transmitted <= counts.submitted
<1>1. Len(msgs) \in Nat /\ DOMAIN msgs = 1 .. Len(msgs)
  BY LenProperties DEF Types
<1>2. IsFiniteSet(DOMAIN msgs)
  BY <1>1, FS_Interval
<1>3. /\ SubmittedIn(msgs) \subseteq DOMAIN msgs
      /\ TransmittedIn(msgs) \subseteq SubmittedIn(msgs)
      /\ AckedIn(msgs) \subseteq TransmittedIn(msgs)
  BY OneMessage DEF SubmittedIn, TransmittedIn, AckedIn, Consistent
<1>4. IsFiniteSet(SubmittedIn(msgs)) /\ IsFiniteSet(TransmittedIn(msgs))
  BY <1>2, <1>3, FS_Subset
<1>5. /\ Cardinality(TransmittedIn(msgs)) <= Cardinality(SubmittedIn(msgs))
      /\ Cardinality(AckedIn(msgs)) <= Cardinality(TransmittedIn(msgs))
  BY <1>3, <1>4, FS_Subset
<1> QED
  BY <1>5 DEF CountInv, Tally

\* The reached messages of the result: those delivered to their destination in
\* a direct run, those delivered to anyone in a broadcast run.
LEMMA ReachedIsDelivered ==
    ASSUME Types, CountInv
    PROVE  {i \in DOMAIN msgs : IF kind = "direct" THEN msgs[i].dest \in msgs[i].delivered
                                ELSE msgs[i].delivered # {}} = ReachedIn(msgs)
<1>1. ASSUME NEW i \in DOMAIN msgs, kind = "direct"
      PROVE  msgs[i].dest \in msgs[i].delivered <=> msgs[i].delivered # {}
  BY <1>1, OneMessage DEF Consistent
<1> QED
  BY <1>1 DEF ReachedIn

-----------------------------------------------------------------------------
(* The inductive invariant: initially and one lemma per action *)

\* The cleared counters are those of no messages.
LEMMA EmptyTally ==
    ASSUME NEW ms, DOMAIN ms = {}, Len(ms) = 0
    PROVE  Tally(NoCounts, ms)
<1>1. /\ SubmittedIn(ms) = {} /\ FailedIn(ms) = {} /\ TransmittedIn(ms) = {}
      /\ AckedIn(ms) = {} /\ ReachedIn(ms) = {} /\ DeliveriesIn(ms) = {}
  BY DEF SubmittedIn, FailedIn, TransmittedIn, AckedIn, ReachedIn, DeliveriesIn
<1>2. Cardinality({}) = 0
  BY FS_EmptySet
<1>3. /\ NoCounts.generated = 0 /\ NoCounts.submitted = 0 /\ NoCounts.failed = 0
      /\ NoCounts.transmitted = 0 /\ NoCounts.acks = 0 /\ NoCounts.unique = 0
      /\ NoCounts.deliveries = 0 /\ NoCounts.rf = 0
  BY DEF NoCounts
<1>4. NoCounts.transmitted <= NoCounts.rf
  BY <1>3
<1> QED
  BY <1>1, <1>2, <1>3, <1>4 DEF Tally

\* Nothing is counted initially.
LEMMA InvInit ==
    ASSUME Init
    PROVE  Inv
<1>1. msgs = <<>> /\ Len(msgs) = 0 /\ DOMAIN msgs = {} /\ used = <<>> /\ air = {}
  BY DEF Init
<1>2. Types
  BY EmptySeq DEF Init, Types, NoCounts, Counters
<1>3. IdInv
  BY <1>1 DEF IdInv, NoCrossRun
<1>4. Tally(counts, msgs)
  <2>1. Tally(NoCounts, msgs)
    BY <1>1, EmptyTally
  <2> QED
    BY <2>1 DEF Init
<1>5. CountInv
  BY <1>1, <1>4 DEF CountInv
<1>6. ResultInv
  BY DEF Init, ResultInv
<1> QED
  BY <1>2, <1>3, <1>5, <1>6 DEF Inv

\* A new run clears records and counters together, or is refused whole.
LEMMA StartRunKeeps ==
    ASSUME Inv, StartRun
    PROVE  Inv'
<1> USE DEF Inv
<1>1. Purged \in Seq(Retirement) /\ Retained \in Seq(Retirement)
  BY PurgedKeeps, RetainedKeeps
<1> DEFINE q == Purged \o Retained
<1>2. q \in Seq(Retirement)
  BY <1>1, ConcatProperties
<1>3. CASE Len(q) > Capacity
  <2>1. /\ quarantine' = Purged
        /\ UNCHANGED <<run, kind, asked, step, msgs, counts, used, air, result, now, earlier>>
    BY <1>3 DEF StartRun
  <2>2. Types'
    BY <1>1, <2>1 DEF Types
  <2>3. IdInv'
    BY <2>2, IdsStart
  <2>4. CountInv'
    BY <2>1 DEF CountInv, Consistent
  <2>5. ResultInv'
    BY <2>1 DEF ResultInv, ResultConsistent, ExpectsAcks, Pending
  <2> QED
    BY <2>2, <2>3, <2>4, <2>5
<1>4. CASE ~(Len(q) > Capacity)
  <2>1. /\ quarantine' = q /\ used' = <<>> /\ msgs' = <<>>
        /\ run' = run + 1 /\ step' = "generate"
        /\ kind' \in {"direct", "broadcast"} /\ asked' \in BOOLEAN
        /\ earlier' = earlier + Len(msgs) /\ counts' = NoCounts
        /\ air' = air /\ now' = now
    BY <1>4 DEF StartRun
  <2> HIDE DEF q
  <2>2. Types'
    <3>1. Len(msgs) \in Nat
      BY LenProperties DEF Types
    <3>2. NoCounts \in Counters
      BY DEF NoCounts, Counters
    <3> QED
      BY <1>2, <2>1, <3>1, <3>2, EmptySeq DEF Types
  <2>3. IdInv'
    BY <2>2, IdsStart
  <2>4. PICK ms : ms = <<>> /\ msgs' = ms /\ DOMAIN ms = {} /\ Len(ms) = 0
    BY <2>1
  <2>5. Tally(NoCounts, ms)
    BY <2>4, EmptyTally
  <2>6. Tally(counts, msgs)'
    BY <2>1, <2>4, <2>5, Zenon
  <2>7. CountInv'
    BY <2>4, <2>6 DEF CountInv
  <2>8. ResultInv'
    BY <2>1 DEF ResultInv
  <2> QED
    BY <2>2, <2>3, <2>7, <2>8
<1> QED
  BY <1>3, <1>4

\* Reports are counted, or change nothing.
LEMMA DeliverKeeps ==
    ASSUME Inv, Deliver
    PROVE  Inv'
<1> USE DEF Inv
<1>1. UNCHANGED <<run, kind, asked, step, used, quarantine, air, result, now, earlier>>
  BY DeliverCounts
<1>2. CASE UNCHANGED <<msgs, counts>>
  <2>1. Types' /\ CountInv'
    BY <1>1, <1>2 DEF Types, CountInv, Consistent
  <2>2. IdInv'
    BY <1>1, <1>2, IdsUntouched DEF Types
  <2>3. ResultInv'
    BY <1>1, <1>2 DEF ResultInv, ResultConsistent, ExpectsAcks, Pending
  <2> QED
    BY <2>1, <2>2, <2>3
<1>3. ASSUME NEW i \in DOMAIN msgs, Accepts, Counted(i)
      PROVE  Inv'
  <2>1. /\ msgs' \in Seq(Message) /\ counts' \in Counters /\ Len(msgs') = Len(msgs)
        /\ \A j \in DOMAIN msgs : msgs'[j].id = msgs[j].id
        /\ CountInv'
    BY <1>1, <1>3, CountedKeeps
  <2>2. Types'
    BY <1>1, <2>1 DEF Types
  <2>3. IdInv'
    BY <1>1, <2>1, IdsUntouched DEF Types
  <2>4. ResultInv'
    BY <1>1, <1>3 DEF ResultInv, Accepts
  <2> QED
    BY <2>1, <2>2, <2>3, <2>4
<1> QED
  BY <1>2, <1>3, DeliverCounts

\* A new message is counted as generated, and as failed if the gateway refuses it.
LEMMA SubmitKeeps ==
    ASSUME Inv, Submit
    PROVE  Inv'
<1> USE DEF Inv
<1>1. /\ UNCHANGED <<run, kind, asked, step, result, now, earlier>> /\ quarantine' = Purged
      /\ step = "generate"
  BY DEF Submit
<1>2. PICK id \in FreeIds, dest \in Dests :
        LET m == NewMessage(id, dest)
            c == [counts EXCEPT !.generated = @ + 1,
                    !.opportunities = @ + IF kind = "broadcast" THEN Cardinality(Receivers) ELSE 1]
        IN  /\ used' = Append(used, [id |-> id, at |-> now])
            /\ \/ \E fate \in Fates :
                     /\ air' = air \cup {Packet(id, fate)}
                     /\ msgs' = Append(msgs, m)
                     /\ counts' = c
               \/ /\ msgs' = Append(msgs, [Resolved(m, TRUE) EXCEPT !.pending = FALSE])
                  /\ counts' = ResolvedCounts(c, m, TRUE)
                  /\ UNCHANGED air
  BY DEF Submit
<1>3. PICK k \in Nat : k = IF kind = "broadcast" THEN Cardinality(Receivers) ELSE 1
  BY AccountingAssumption, FS_CardinalityType
<1> DEFINE m == NewMessage(id, dest)
           c == [counts EXCEPT !.generated = @ + 1, !.opportunities = @ + k]
<1>4. id \in Ids /\ dest \in Receivers \cup {"broadcast"}
  BY DEF FreeIds, Dests
<1>5. /\ m \in Message /\ ~m.submitted /\ ~m.transmitted /\ ~m.acked /\ m.delivered = {}
      /\ ~m.error /\ m.pending
  BY <1>4 DEF NewMessage, Message
<1>6. Consistent(m)
  BY <1>5 DEF Consistent
<1>7. counts \in Counters
  BY DEF Types
<1> DEFINE c1 == [counts EXCEPT !.generated = counts.generated + 1]
<1>8. /\ c1 \in Counters /\ c1.generated = counts.generated + 1
      /\ \A f \in DOMAIN counts : f # "generated" => c1[f] = counts[f]
  BY <1>7 DEF Counters
<1>9. c = [c1 EXCEPT !.opportunities = counts.opportunities + k]
  BY <1>7 DEF Counters
<1> HIDE DEF c1, c
<1>10. /\ c \in Counters /\ c.generated = counts.generated + 1
       /\ c.submitted = counts.submitted /\ c.failed = counts.failed
       /\ c.transmitted = counts.transmitted /\ c.acks = counts.acks
       /\ c.unique = counts.unique /\ c.deliveries = counts.deliveries /\ c.rf = counts.rf
  BY <1>3, <1>7, <1>8, <1>9 DEF Counters
<1>11. /\ used' = Append(used, [id |-> id, at |-> now])
       /\ \/ \E fate \in Fates :
                /\ air' = air \cup {Packet(id, fate)}
                /\ msgs' = Append(msgs, m)
                /\ counts' = c
          \/ /\ msgs' = Append(msgs, [Resolved(m, TRUE) EXCEPT !.pending = FALSE])
             /\ counts' = ResolvedCounts(c, m, TRUE)
             /\ UNCHANGED air
  BY <1>2, <1>3 DEF c
<1>12. /\ used' \in Seq(Allocation) /\ quarantine' \in Seq(Retirement)
  <2>1. used \in Seq(Allocation) /\ [id |-> id, at |-> now] \in Allocation
    BY <1>4 DEF Types, Allocation
  <2> QED
    BY <1>1, <1>11, <2>1, AppendProperties, PurgedKeeps
<1> HIDE DEF m
<1>13. ASSUME NEW fate \in Fates, air' = air \cup {Packet(id, fate)},
              msgs' = Append(msgs, m), counts' = c
       PROVE  Types' /\ CountInv'
  <2>1. Packet(id, fate) \in Aired
    BY <1>4, AccountingAssumption DEF Packet, Aired, Types
  <2>2. msgs' \in Seq(Message)
    BY <1>5, <1>13, AppendProperties DEF Types
  <2>3. Types'
    BY <1>1, <1>10, <1>12, <1>13, <2>1, <2>2 DEF Types
  <2>4. One(m.error) = 0 /\ counts.failed \in Int
    BY <1>5, <1>7 DEF One, Counters
  <2>5. counts'.failed = counts.failed + One(m.error)
    BY <1>10, <1>13, <2>4
  <2>6. CountInv'
    BY <1>1, <1>5, <1>6, <1>10, <1>13, <2>5, AppendKeepsTally
  <2> QED
    BY <2>3, <2>6
<1>14. ASSUME msgs' = Append(msgs, [Resolved(m, TRUE) EXCEPT !.pending = FALSE]),
              counts' = ResolvedCounts(c, m, TRUE), UNCHANGED air
       PROVE  Types' /\ CountInv'
  <2> DEFINE e == [Resolved(m, TRUE) EXCEPT !.pending = FALSE]
  <2>1. e = [[m EXCEPT !.error = TRUE] EXCEPT !.pending = FALSE]
    BY <1>5 DEF Resolved
  <2> HIDE DEF e
  <2>2. /\ e \in Message /\ ~e.submitted /\ ~e.transmitted /\ ~e.acked /\ e.delivered = {}
        /\ e.error /\ ~e.pending
    BY <1>5, <2>1 DEF Message
  <2>3. Consistent(e)
    BY <2>2 DEF Consistent
  <2>4. counts' = [c EXCEPT !.failed = c.failed + 1]
    BY <1>5, <1>14 DEF ResolvedCounts
  <2>5. /\ counts' \in Counters /\ counts'.generated = counts.generated + 1
        /\ counts'.submitted = counts.submitted /\ counts'.failed = counts.failed + 1
        /\ counts'.transmitted = counts.transmitted /\ counts'.acks = counts.acks
        /\ counts'.unique = counts.unique /\ counts'.deliveries = counts.deliveries
        /\ counts'.rf = counts.rf
    BY <1>10, <2>4 DEF Counters
  <2>6. msgs' = Append(msgs, e)
    BY <1>14 DEF e
  <2>7. msgs' \in Seq(Message)
    BY <2>2, <2>6, AppendProperties DEF Types
  <2>8. Types'
    BY <1>1, <1>12, <1>14, <2>5, <2>7 DEF Types
  <2>9. counts'.failed = counts.failed + One(e.error)
    BY <2>2, <2>5 DEF One
  <2>10. CountInv'
    BY <1>1, <2>2, <2>3, <2>5, <2>6, <2>9, AppendKeepsTally
  <2> QED
    BY <2>8, <2>10
<1>15. Types' /\ CountInv'
  BY <1>11, <1>13, <1>14
<1>16. IdInv'
  BY <1>15, IdsSubmit
<1>17. ResultInv'
  BY <1>1 DEF ResultInv
<1> QED
  BY <1>15, <1>16, <1>17

\* The metrics are computed from the records the counters describe.
LEMMA FinishKeeps ==
    ASSUME Inv, Finish
    PROVE  Inv'
<1> USE DEF Inv
<1>1. /\ UNCHANGED <<run, kind, asked, used, quarantine, air, now, earlier>> /\ step' = "metrics"
      /\ FinalizePending
  BY DEF Finish, ids
<1>2. /\ msgs' \in Seq(Message) /\ counts' \in Counters /\ Len(msgs') = Len(msgs)
      /\ \A j \in DOMAIN msgs : msgs'[j].id = msgs[j].id
      /\ CountInv' /\ Pending' = {}
  BY <1>1, FinalizeKeepsTally
<1>3. Types'
  BY <1>1, <1>2 DEF Types
<1>4. IdInv'
  BY <1>1, <1>2, IdsUntouched DEF Types
<1>5. result'.delivered = ReachedIn(msgs)'
  <2>1. ({i \in DOMAIN msgs : IF kind = "direct" THEN msgs[i].dest \in msgs[i].delivered
                              ELSE msgs[i].delivered # {}} = ReachedIn(msgs))'
    BY <1>2, <1>3, ReachedIsDelivered, PTL
  <2> QED
    BY <1>1, <2>1 DEF Finish
<1>6. /\ result'.acks = counts'.acks
      /\ result'.expected = IF ExpectsAcks THEN counts'.submitted ELSE 0
  BY DEF Finish
<1>7. ResultInv'
  BY <1>1, <1>2, <1>5, <1>6 DEF ResultInv, ExpectsAcks
<1> QED
  BY <1>2, <1>3, <1>4, <1>7

\* The counters copied after the metrics are still those of the same records.
LEMMA FreezeKeeps ==
    ASSUME Inv, Freeze
    PROVE  Inv'
<1> USE DEF Inv
<1>1. /\ UNCHANGED <<run, kind, asked, msgs, counts, used, quarantine, air, now, earlier>>
      /\ step = "metrics" /\ step' = "done"
      /\ result' = [metrics |-> result, run |-> run, requested |-> counts.generated,
                    submitted |-> counts.submitted, failed |-> counts.failed,
                    transmitted |-> counts.transmitted, unique |-> counts.unique]
  BY DEF Freeze, ids
<1>2. Types' /\ CountInv'
  BY <1>1 DEF Types, CountInv, Consistent
<1>3. IdInv'
  BY <1>1, IdsUntouched DEF Types
<1>4. /\ Pending = {} /\ result.delivered = ReachedIn(msgs)
      /\ result.acks = counts.acks
      /\ result.expected = IF ExpectsAcks THEN counts.submitted ELSE 0
  BY <1>1 DEF ResultInv
<1>5. /\ counts.unique = Cardinality(ReachedIn(msgs))
      /\ counts.acks <= counts.transmitted /\ counts.transmitted <= counts.submitted
  BY AcksBounded DEF CountInv, Tally
<1>6. counts.generated = counts.submitted + counts.failed
  <2>1. counts.generated = counts.submitted + counts.failed + Cardinality(Pending)
    BY Partition
  <2>2. Cardinality(Pending) = 0
    BY <1>4, FS_EmptySet
  <2>3. counts.submitted \in Int /\ counts.failed \in Int
    BY DEF Types, Counters
  <2> QED
    BY <2>1, <2>2, <2>3
<1>7. ResultInv'
  BY <1>1, <1>4, <1>5, <1>6 DEF ResultInv, ResultConsistent, ExpectsAcks
<1> QED
  BY <1>2, <1>3, <1>7

\* The invariant is preserved: one step per action.
LEMMA InvStep ==
    ASSUME Inv, [Next]_vars
    PROVE  Inv'
<1> USE DEF Inv
<1>1. CASE StartRun
  BY <1>1, StartRunKeeps
<1>2. CASE Submit
  BY <1>2, SubmitKeeps
<1>3. CASE Deliver
  BY <1>3, DeliverKeeps
<1>4. CASE GenerationEnds \/ DrainSettles
  <2>1. /\ UNCHANGED <<run, kind, asked, msgs, counts, used, quarantine, air, result, now, earlier>>
        /\ step' \in {"drain", "sample"}
    BY <1>4 DEF GenerationEnds, DrainSettles, ids
  <2>2. Types' /\ CountInv' /\ ResultInv'
    BY <2>1 DEF Types, CountInv, Consistent, ResultInv
  <2>3. IdInv'
    BY <2>1, IdsUntouched DEF Types
  <2> QED
    BY <2>2, <2>3
<1>5. CASE DeadlineOrStop
  <2>1. /\ UNCHANGED <<run, kind, asked, used, quarantine, air, result, now, earlier>>
        /\ step' = "sample" /\ FinalizePending
    BY <1>5 DEF DeadlineOrStop, ids
  <2>2. /\ msgs' \in Seq(Message) /\ counts' \in Counters /\ Len(msgs') = Len(msgs)
        /\ \A j \in DOMAIN msgs : msgs'[j].id = msgs[j].id
        /\ CountInv'
    BY <2>1, FinalizeKeepsTally
  <2>3. Types' /\ ResultInv'
    BY <2>1, <2>2 DEF Types, ResultInv
  <2>4. IdInv'
    BY <2>1, <2>2, IdsUntouched DEF Types
  <2> QED
    BY <2>2, <2>3, <2>4
<1>6. CASE Finish
  BY <1>6, FinishKeeps
<1>7. CASE Freeze
  BY <1>7, FreezeKeeps
<1>8. CASE Tick
  <2>1. /\ UNCHANGED <<run, kind, asked, step, msgs, counts>>
        /\ UNCHANGED <<used, quarantine, air, result, earlier>>
        /\ now' = now + 1
    BY <1>8 DEF Tick, ids
  <2>2. Types' /\ CountInv' /\ ResultInv'
    BY <2>1 DEF Types, CountInv, Consistent, ResultInv, ResultConsistent, ExpectsAcks,
       Pending
  <2>3. now' \in Nat /\ now <= now'
    BY <2>1 DEF Types
  <2>4. IdInv'
    BY <2>1, <2>3, IdsUntouched DEF Types
  <2> QED
    BY <2>2, <2>4
<1>9. CASE UNCHANGED vars
  <2>1. /\ UNCHANGED <<run, kind, asked, step, msgs, counts>>
        /\ UNCHANGED <<used, quarantine, air, result, now, earlier>>
    BY <1>9 DEF vars, ids
  <2>2. Types' /\ CountInv' /\ ResultInv'
    BY <2>1 DEF Types, CountInv, Consistent, ResultInv, ResultConsistent, ExpectsAcks,
       Pending
  <2>3. IdInv'
    BY <2>1, IdsUntouched DEF Types
  <2> QED
    BY <2>2, <2>3
<1> QED
  BY <1>1, <1>2, <1>3, <1>4, <1>5, <1>6, <1>7, <1>8, <1>9 DEF Next

-----------------------------------------------------------------------------
(* Theorems *)

\* Inv is an invariant of the specification, for any receivers, packet ids,
\* quarantine, capacity and number of messages and runs.
THEOREM AccountingInvariant == Spec => []Inv
<1>1. Init => Inv
  BY InvInit
<1>2. Inv /\ [Next]_vars => Inv'
  BY InvStep
<1> QED
  BY <1>1, <1>2, PTL DEF Spec

\* While the firmware may still speak of a packet of an earlier run, no message
\* of the current run has its id.
THEOREM LateReportsAreNotCounted == Spec => []NoCrossRun
<1>1. Inv => NoCrossRun
  BY DEF Inv, IdInv
<1> QED
  BY <1>1, AccountingInvariant, PTL

\* Every message is counted once, and the live counters are those of the records.
THEOREM MessagesAreConserved == Spec => []Conserved
<1>1. Inv => Conserved
  <2> SUFFICES ASSUME Inv
               PROVE  Conserved
    OBVIOUS
  <2>1. /\ Types /\ CountInv /\ ResultInv
    BY DEF Inv
  <2>2. counts.generated = counts.submitted + counts.failed + Cardinality(Pending)
    BY <2>1, Partition
  <2>3. step = "done" => result.requested = result.submitted + result.failed
    BY <2>1 DEF ResultInv
  <2>4. CountersMatch
    BY <2>1 DEF CountInv, Tally, CountersMatch, Count, SubmittedIn, FailedIn,
       TransmittedIn,
                AckedIn, ReachedIn, DeliveriesIn
  <2>5. ASSUME NEW i \in DOMAIN msgs
        PROVE  /\ msgs[i].acked => msgs[i].transmitted
               /\ msgs[i].transmitted => msgs[i].submitted /\ ~msgs[i].error
    BY <2>1, OneMessage DEF Consistent
  <2> QED
    BY <2>2, <2>3, <2>4, <2>5 DEF Conserved
<1> QED
  BY <1>1, AccountingInvariant, PTL

\* The metrics of the worker thread and the counters copied after it agree.
THEOREM ResultsAreConsistent == Spec => []ResultConsistent
<1>1. Inv => ResultConsistent
  BY DEF Inv, ResultInv, ResultConsistent
<1> QED
  BY <1>1, AccountingInvariant, PTL
=============================================================================
