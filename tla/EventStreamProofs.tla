-------------------------- MODULE EventStreamProofs --------------------------
(***************************************************************************)
(* Theorems about EventStream, for any sizes of history, queue and display: *)
(* events arrive once and in order, and none goes missing silently.         *)
(*                                                                          *)
(* The queue of a subscription is always the end of the stream, so what can *)
(* go wrong is between the page and the head of that queue: in the messages *)
(* that were taken from the subscription or replayed and that the page has  *)
(* not got yet, the Backlog.  The inductive invariant bounds the Backlog by *)
(* what the handler remembers to have sent, and says of every event in it,  *)
(* and of the next one to come, that it continues what is before it or      *)
(* stands behind a notice.                                                  *)
(***************************************************************************)
EXTENDS EventStream, FiniteSetTheorems, SequenceTheorems, TLAPS

\* Events are numbered from 1; all other messages have sequence 0.
Msg ==
    {m \in [kind : {"event", "reset", "gap", "dropped"}, stream : Nat \ {0}, seq : Nat] :
       m.kind = "event" <=> m.seq # 0}

Subscriptions == [queue : Seq(Msg), stream : Nat, dropped : Nat, noticeLast : BOOLEAN]
Sockets ==
    [phase : {"closed", "connecting", "open"}, out : Seq(Msg), sentStream : Nat,
     sentSeq : Nat, after : Nat, asked : Nat]
Pages ==
    [stream : Nat, cursor : Nat, shown : SUBSET Nat, told : BOOLEAN, generation : Nat]
Loads ==
    [state : {"asked", "answered", "done"}, generation : Nat, stream : Nat,
     events : SUBSET Nat]

TypeOK ==
    /\ stream \in Nat \ {0} /\ sequence \in Nat /\ history \in Seq(Nat)
    /\ sub \in Subscriptions
    /\ socket \in Sockets
    /\ wire \in Seq(Msg)
    /\ page \in Pages
    /\ load \in Loads
    /\ resetReply \in BOOLEAN /\ overtaken \in BOOLEAN
    /\ published \in Nat /\ closes \in Nat

\* What was sent or is about to be, and is not yet handled by the page.
Backlog == wire \o socket.out
IsEvent(m) == m.kind = "event"

\* The history is the end of the stream.
HistoryInv ==
    /\ Len(history) <= sequence /\ Len(history) <= HistorySize
    /\ history = <<>> => sequence = 0
    /\ \A k \in DOMAIN history : history[k] = sequence - Len(history) + k

\* So is the queue of the subscription, the reset notice standing for event 0.
Entry(n) == Message(IF n = 0 THEN "reset" ELSE "event", stream, n)
QueueInv ==
    /\ sub.stream = stream
    /\ Len(sub.queue) <= sequence + 1
    /\ Len(sub.queue) = sequence + 1 => sub.dropped = 0 /\ ~sub.noticeLast
    /\ \A k \in DOMAIN sub.queue : sub.queue[k] = Entry(sequence - Len(sub.queue) + k)

\* The place n of stream s is not beyond what the handler has sent.
SentUpTo(s, n) == s <= socket.sentStream /\ (s = socket.sentStream => n <= socket.sentSeq)

SentInv ==
    /\ SentUpTo(socket.asked, socket.after)
    /\ load.state # "done" => SentUpTo(page.stream, page.cursor)
    /\ \A i \in DOMAIN Backlog : SentUpTo(Backlog[i].stream, Backlog[i].seq)
    /\ socket.sentStream \in 1 .. stream
    /\ socket.sentStream = stream => socket.sentSeq <= sequence - Len(sub.queue)

\* The events of the backlog: in order, and none the page has.
BacklogOrdered ==
    \A i \in DOMAIN Backlog : IsEvent(Backlog[i]) =>
      /\ \A j \in 1 .. i - 1 : IsEvent(Backlog[j]) => Later(Backlog[i], Backlog[j])
      /\ Backlog[i].stream = socket.asked => Backlog[i].seq > socket.after
      /\ (load.state # "done" /\ Backlog[i].stream = page.stream)
           => Backlog[i].seq > page.cursor

OpenInv == QueueInv /\ SentInv /\ BacklogOrdered

\* The cursors of the page and of a connection are never ahead of the stream,
\* and the answer to the initial request is a piece of it.
PageInv ==
    /\ page.stream <= stream /\ (page.stream = stream => page.cursor <= sequence)
    /\ page.stream = Unknown => page.cursor = 0 /\ page.shown = {} /\ ~page.told
ConnectingInv ==
    /\ socket.asked <= stream /\ (socket.asked = stream => socket.after <= sequence)
    /\ socket.asked = Unknown => socket.after = 0
    /\ load.state # "done" =>
         page.stream = Unknown \/ (page.stream = socket.asked /\ page.cursor = socket.after)

Evicted == sequence > Len(history)
Piece(lo, hi) ==
    /\ load.events = lo .. hi
    /\ load.stream = stream => hi <= sequence /\ (Evicted \/ lo = 1)
LoadInv ==
    load.state = "answered" =>
      /\ load.stream \in 1 .. stream
      /\ \E lo \in Nat \ {0}, hi \in Nat : Piece(lo, hi)

OrderInv ==
    /\ HistoryInv /\ PageInv /\ LoadInv
    /\ Subscribed => OpenInv
    /\ ~Subscribed => wire = <<>>
    /\ socket.phase = "connecting" => ConnectingInv

\* The page has everything up to its cursor that it has room for.
Top(c) == {n \in 1 .. c : n > c - DisplaySize}
Full == page.shown = Top(page.cursor)

\* What the page shows, unless it was told of a loss, ends at its cursor, and
\* begins with the stream as long as nothing was evicted.
ShownInv ==
    /\ ~page.told => \E lo \in 1 .. page.cursor + 1 :
                       page.shown = lo .. page.cursor /\ page.cursor - lo < DisplaySize
    /\ (page.stream = stream /\ ~page.told /\ ~Evicted) => Full

\* What the page has of stream s, and whether it was told of a loss in it.
Known(s) == IF page.stream = s THEN page.cursor ELSE 0
KnownShown(s) == IF page.stream = s THEN page.shown ELSE {}
KnownLoss(s) == page.stream = s /\ page.told

\* Event n of stream s can be shown next: it continues what the page shows, or
\* the page has it, or knows that some are missing, or starts with it.
PageReady(s, n) ==
    \/ KnownLoss(s)
    \/ n = Known(s) + 1
    \/ n <= Known(s) /\ Full
    \/ Known(s) = 0 /\ (Evicted \/ s # stream)

\* Event n of stream s can follow the message m.
Follows(m, s, n) ==
    /\ m.stream = s
    /\ \/ m.seq = n - 1
       \/ m.kind \in {"gap", "dropped"}
       \/ m.kind = "reset" /\ (Evicted \/ s # stream)

AtPlace(i, s, n) == IF i = 1 THEN PageReady(s, n) ELSE Follows(Backlog[i - 1], s, n)

\* The number of the next entry of the queue, or of the next event.
Upcoming == sequence - Len(sub.queue) + 1
NoticeDue == sub.dropped > 0 /\ ~sub.noticeLast

CoveredInv ==
    /\ \A i \in DOMAIN Backlog :
         IsEvent(Backlog[i]) => AtPlace(i, Backlog[i].stream, Backlog[i].seq)
    /\ Upcoming = 0 \/ NoticeDue \/ AtPlace(Len(Backlog) + 1, stream, Upcoming)
    /\ sub.noticeLast =>
         IF Backlog = <<>> THEN page.stream = stream /\ page.told
         ELSE Backlog[Len(Backlog)].stream = stream /\ Backlog[Len(Backlog)].kind = "dropped"

\* A connection under way was made with the cursor the page still has.
CursorKept ==
    \/ page.stream = socket.asked /\ page.cursor = socket.after
    \/ page.stream = Unknown /\ (socket.asked = stream => socket.after = 0)

GapInv ==
    ~overtaken =>
      /\ ShownInv
      /\ Subscribed => CoveredInv
      /\ socket.phase = "connecting" => CursorKept

IInv == TypeOK /\ OrderInv /\ GapInv

-----------------------------------------------------------------------------
(* Sequences, intervals and the largest of a set *)

USE DEF Subscriptions, Sockets, Pages, Loads

\* The sizes are positive numbers.
LEMMA Sizes ==
    /\ HistorySize \in Nat /\ HistorySize >= 1
    /\ BufferSize \in Nat /\ BufferSize >= 1
    /\ DisplaySize \in Nat /\ DisplaySize >= 1
    /\ PageLimit \in Nat /\ PageLimit >= HistorySize
BY EventStreamAssumption

\* What concatenation, Append and Tail do to places.
LEMMA Concatenation ==
    ASSUME NEW S, NEW s \in Seq(S), NEW t \in Seq(S)
    PROVE  /\ s \o t \in Seq(S) /\ Len(s \o t) = Len(s) + Len(t)
           /\ Len(s) \in Nat /\ Len(t) \in Nat /\ Len(s \o t) \in Nat
           /\ DOMAIN (s \o t) = 1 .. Len(s \o t)
           /\ \A i \in 1 .. Len(s) : (s \o t)[i] = s[i]
           /\ \A i \in 1 .. Len(t) : (s \o t)[Len(s) + i] = t[i]
<1>1. /\ s \o t \in Seq(S) /\ Len(s \o t) = Len(s) + Len(t)
      /\ Len(s) \in Nat /\ Len(t) \in Nat
  BY ConcatProperties, LenProperties
<1>2. \A i \in 1 .. Len(s) + Len(t) : (s \o t)[i] = IF i <= Len(s) THEN s[i] ELSE t[i - Len(s)]
  BY ConcatProperties
<1>3. Len(s \o t) \in Nat /\ DOMAIN (s \o t) = 1 .. Len(s \o t)
  BY <1>1, LenProperties
<1>4. ASSUME NEW i \in 1 .. Len(s) PROVE (s \o t)[i] = s[i]
  <2>1. i \in 1 .. Len(s) + Len(t) /\ i <= Len(s)
    BY <1>1
  <2> QED
    BY <1>2, <2>1
<1>5. ASSUME NEW i \in 1 .. Len(t) PROVE (s \o t)[Len(s) + i] = t[i]
  <2>1. Len(s) + i \in 1 .. Len(s) + Len(t) /\ ~(Len(s) + i <= Len(s)) /\ Len(s) + i - Len(s) = i
    BY <1>1
  <2> QED
    BY <1>2, <2>1
<1> QED
  BY <1>1, <1>3, <1>4, <1>5

\* What Append does to places.
LEMMA Appending ==
    ASSUME NEW S, NEW s \in Seq(S), NEW m \in S
    PROVE  /\ Append(s, m) \in Seq(S)
           /\ Len(s) \in Nat /\ DOMAIN s = 1 .. Len(s)
           /\ Len(Append(s, m)) = Len(s) + 1 /\ DOMAIN Append(s, m) = 1 .. Len(s) + 1
           /\ \A i \in 1 .. Len(s) : Append(s, m)[i] = s[i]
           /\ Append(s, m)[Len(s) + 1] = m
BY AppendProperties, LenProperties

\* What Head and Tail do to places.
LEMMA Removing ==
    ASSUME NEW S, NEW s \in Seq(S), s # <<>>
    PROVE  /\ Head(s) \in S /\ Head(s) = s[1] /\ Tail(s) \in Seq(S)
           /\ Len(s) \in Nat \ {0} /\ DOMAIN s = 1 .. Len(s)
           /\ Len(Tail(s)) = Len(s) - 1 /\ DOMAIN Tail(s) = 1 .. Len(s) - 1
           /\ \A i \in 1 .. Len(s) - 1 : Tail(s)[i] = s[i + 1]
<1>1. /\ Len(s) \in Nat \ {0} /\ DOMAIN s = 1 .. Len(s)
  BY LenProperties, EmptySeq
<1>2. /\ Head(s) \in S /\ Tail(s) \in Seq(S) /\ Len(Tail(s)) = Len(s) - 1
      /\ \A i \in 1 .. Len(Tail(s)) : Tail(s)[i] = s[i + 1]
  BY HeadTailProperties
<1>3. Head(s) = s[1]
  OBVIOUS
<1>4. DOMAIN Tail(s) = 1 .. Len(Tail(s))
  BY <1>2, LenProperties
<1> QED
  BY <1>1, <1>2, <1>3, <1>4

\* Moving the head of one sequence to the end of another.
LEMMA Moving ==
    ASSUME NEW S, NEW s \in Seq(S), NEW t \in Seq(S), t # <<>>
    PROVE  Append(s, Head(t)) \o Tail(t) = s \o t
<1>1. /\ Head(t) \in S /\ Head(t) = t[1] /\ Tail(t) \in Seq(S)
      /\ Len(t) \in Nat \ {0} /\ Len(Tail(t)) = Len(t) - 1
      /\ \A i \in 1 .. Len(t) - 1 : Tail(t)[i] = t[i + 1]
  BY Removing
<1>2. /\ Append(s, Head(t)) \in Seq(S) /\ Len(s) \in Nat
      /\ Len(Append(s, Head(t))) = Len(s) + 1
      /\ \A i \in 1 .. Len(s) : Append(s, Head(t))[i] = s[i]
      /\ Append(s, Head(t))[Len(s) + 1] = t[1]
  BY <1>1, Appending
<1> DEFINE l == Append(s, Head(t)) \o Tail(t)
           r == s \o t
<1>3. /\ l \in Seq(S) /\ Len(l) = Len(s) + Len(t)
      /\ \A i \in 1 .. Len(s) + 1 : l[i] = Append(s, Head(t))[i]
      /\ \A i \in 1 .. Len(t) - 1 : l[Len(s) + 1 + i] = t[i + 1]
  <2>1. /\ l \in Seq(S) /\ Len(l) = Len(Append(s, Head(t))) + Len(Tail(t))
        /\ \A i \in 1 .. Len(Append(s, Head(t))) : l[i] = Append(s, Head(t))[i]
        /\ \A i \in 1 .. Len(Tail(t)) : l[Len(Append(s, Head(t))) + i] = Tail(t)[i]
    BY <1>1, <1>2, Concatenation
  <2> QED
    BY <1>1, <1>2, <2>1
<1>4. /\ r \in Seq(S) /\ Len(r) = Len(s) + Len(t)
      /\ \A i \in 1 .. Len(s) : r[i] = s[i]
      /\ \A i \in 1 .. Len(t) : r[Len(s) + i] = t[i]
  BY Concatenation
<1> HIDE DEF l, r
<1>5. ASSUME NEW i \in 1 .. Len(s) + Len(t) PROVE l[i] = r[i]
  <2>1. CASE i <= Len(s)
    <3>1. i \in 1 .. Len(s) /\ i \in 1 .. Len(s) + 1
      BY <1>2, <2>1
    <3> QED
      BY <1>2, <1>3, <1>4, <3>1
  <2>2. CASE i = Len(s) + 1
    <3>1. l[i] = t[1]
      BY <1>2, <1>3, <2>2
    <3>2. r[i] = t[1]
      BY <1>1, <1>2, <1>4, <2>2
    <3> QED
      BY <3>1, <3>2
  <2>3. CASE i > Len(s) + 1
    <3> DEFINE k == i - Len(s) - 1
    <3>1. /\ k \in 1 .. Len(t) - 1 /\ k + 1 \in 1 .. Len(t)
          /\ i = Len(s) + 1 + k /\ i = Len(s) + (k + 1)
      BY <1>1, <1>2, <2>3
    <3> HIDE DEF k
    <3> QED
      BY <1>3, <1>4, <3>1
  <2> QED
    BY <1>1, <1>2, <2>1, <2>2, <2>3
<1>6. l = r
  BY <1>3, <1>4, <1>5, SeqEqual
<1> QED
  BY <1>6 DEF l, r

\* The largest member.
LEMMA MaxIs ==
    ASSUME NEW S \in SUBSET Int, NEW x \in S, \A y \in S : x >= y
    PROVE  Max(S) = x
<1>1. Max(S) \in S /\ \A y \in S : Max(S) >= y
  BY DEF Max
<1>2. Max(S) >= x /\ x >= Max(S)
  BY <1>1
<1>3. Max(S) \in Int /\ x \in Int
  BY <1>1
<1> QED
  BY <1>2, <1>3

\* The smallest member.
LEMMA MinIs ==
    ASSUME NEW S \in SUBSET Int, NEW x \in S, \A y \in S : x <= y
    PROVE  Min(S) = x
<1>1. Min(S) \in S /\ \A y \in S : Min(S) <= y
  BY DEF Min
<1>2. Min(S) <= x /\ x <= Min(S)
  BY <1>1
<1>3. Min(S) \in Int /\ x \in Int
  BY <1>1
<1> QED
  BY <1>2, <1>3

\* mergeEvents on a set that ends in the interval lo..hi and, if it has more,
\* has no room for it.
LEMMA NewestIs ==
    ASSUME NEW lo \in Nat \ {0}, NEW hi \in Nat, lo <= hi + 1,
           NEW S, lo .. hi \subseteq S, S \subseteq 1 .. hi,
           S = lo .. hi \/ hi - lo + 1 >= DisplaySize
    PROVE  Newest(S) = {n \in lo .. hi : n > hi - DisplaySize}
<1>1. IsFiniteSet(S)
  <2>1. IsFiniteSet(1 .. hi)
    BY FS_Interval
  <2> QED
    BY <2>1, FS_Subset
<1>2. ASSUME NEW n \in S, n >= lo
      PROVE  Cardinality({k \in S : k > n}) = hi - n
  <2>1. n \in 1 .. hi /\ n + 1 \in Int /\ hi \in Int
    BY <1>2
  <2>2. ASSUME NEW k PROVE k \in {j \in S : j > n} <=> k \in n + 1 .. hi
    <3>1. k \in n + 1 .. hi => k \in lo .. hi /\ k > n
      BY <1>2, <2>1
    <3>2. k \in S => k \in 1 .. hi
      OBVIOUS
    <3>3. k \in 1 .. hi /\ k > n => k \in n + 1 .. hi
      BY <2>1
    <3> QED
      BY <3>1, <3>2, <3>3
  <2>3. {k \in S : k > n} = n + 1 .. hi
    BY <2>2
  <2>4. Cardinality(n + 1 .. hi) = IF n + 1 > hi THEN 0 ELSE hi - (n + 1) + 1
    BY <2>1, FS_Interval
  <2>5. Cardinality(n + 1 .. hi) = hi - n
    BY <2>1, <2>4
  <2> QED
    BY <2>3, <2>5
<1>3. ASSUME NEW n \in S, n <= hi - DisplaySize
      PROVE  ~(Cardinality({k \in S : k > n}) < DisplaySize)
  <2>1. IsFiniteSet({k \in S : k > n})
    BY <1>1, FS_Subset
  <2>2. hi - DisplaySize + 1 .. hi \subseteq {k \in S : k > n}
    BY <1>3, Sizes
  <2>3. Cardinality(hi - DisplaySize + 1 .. hi) = DisplaySize
    BY Sizes, FS_Interval
  <2>4. /\ Cardinality(hi - DisplaySize + 1 .. hi) <= Cardinality({k \in S : k > n})
        /\ Cardinality({k \in S : k > n}) \in Nat
    BY <2>1, <2>2, FS_Subset, FS_CardinalityType
  <2> QED
    BY <2>3, <2>4, Sizes
<1>4. ASSUME NEW n \in S, n > hi - DisplaySize
      PROVE  n >= lo /\ Cardinality({k \in S : k > n}) < DisplaySize
  <2>1. n >= lo
    BY <1>4, Sizes
  <2> QED
    BY <1>2, <1>4, <2>1, Sizes
<1>5. ASSUME NEW n
      PROVE  n \in Newest(S) <=> n \in {k \in lo .. hi : k > hi - DisplaySize}
  <2>1. CASE n \in S
    <3>1. n \in 1 .. hi
      BY <2>1
    <3>2. n \in Newest(S) <=> Cardinality({k \in S : k > n}) < DisplaySize
      BY <2>1 DEF Newest
    <3> QED
      BY <1>3, <1>4, <2>1, <3>1, <3>2, Sizes
  <2>2. CASE n \notin S
    BY <2>2 DEF Newest
  <2> QED
    BY <2>1, <2>2
<1> QED
  BY <1>5

-----------------------------------------------------------------------------
(* What a replay contains, and what acceptEvents makes of the page *)

\* The retained events newer than "from" follow this one.
Base(from) == IF from > sequence - Len(history) THEN from ELSE sequence - Len(history)

\* The page of the history newer than an event is all the retained events
\* beyond it.
LEMMA NewerIs ==
    ASSUME TypeOK, HistoryInv, NEW from \in 0 .. sequence, NEW n \in Nat, n >= Len(history)
    PROVE  /\ Base(from) \in 0 .. sequence /\ Base(from) >= from
           /\ Newer(from, n) \in Seq(Nat)
           /\ Len(Newer(from, n)) = sequence - Base(from)
           /\ \A k \in 1 .. sequence - Base(from) : Newer(from, n)[k] = Base(from) + k
<1> DEFINE L == Len(history)
           b == Base(from)
           older == {k \in DOMAIN history : history[k] <= from}
           skip == Cardinality(older)
<1>1. /\ sequence \in Nat /\ history \in Seq(Nat) /\ L \in Nat /\ L <= sequence
      /\ DOMAIN history = 1 .. L
      /\ \A k \in 1 .. L : history[k] = sequence - L + k
  BY LenProperties DEF TypeOK, HistoryInv
<1>2. b \in 0 .. sequence /\ b >= from /\ b >= sequence - L
      /\ b = IF from > sequence - L THEN from ELSE sequence - L
  BY <1>1 DEF Base
<1> HIDE DEF b, L
<1>3. skip = b - (sequence - L)
  <2>1. ASSUME NEW k PROVE k \in older <=> k \in 1 .. b - (sequence - L)
    <3>1. k \in older <=> k \in 1 .. L /\ sequence - L + k <= from
      BY <1>1
    <3> QED
      BY <1>1, <1>2, <3>1
  <2>2. older = 1 .. b - (sequence - L)
    BY <2>1
  <2>3. b - (sequence - L) \in Nat
    BY <1>1, <1>2
  <2>4. Cardinality(1 .. b - (sequence - L)) = b - (sequence - L)
    BY <2>3, FS_Interval
  <2> QED
    BY <2>2, <2>4
<1> HIDE DEF older
<1>4. Newer(from, n) = SubSeq(history, skip + 1, Min({skip + n, Len(history)}))
  BY DEF Newer, older
<1>5. Min({skip + n, L}) = L
  <2>1. {skip + n, L} \in SUBSET Int /\ L \in {skip + n, L} /\ \A y \in {skip + n, L} : L <= y
    BY <1>1, <1>2, <1>3 DEF L
  <2> QED
    BY <2>1, MinIs
<1>6. /\ skip + 1 \in Nat /\ skip + 1 >= 1 /\ skip <= L
  BY <1>1, <1>2, <1>3
<1>7. Newer(from, n) = SubSeq(history, skip + 1, L)
  BY <1>4, <1>5 DEF L
<1>8. /\ SubSeq(history, skip + 1, L) \in Seq(Nat)
      /\ Len(SubSeq(history, skip + 1, L)) = IF skip + 1 <= L THEN L - (skip + 1) + 1 ELSE 0
      /\ \A i \in 1 .. L - (skip + 1) + 1 :
           SubSeq(history, skip + 1, L)[i] = history[skip + 1 + i - 1]
  <2>1. \A i \in skip + 1 .. L : history[i] \in Nat
    <3> SUFFICES ASSUME NEW i \in skip + 1 .. L PROVE history[i] \in Nat
      OBVIOUS
    <3>1. i \in 1 .. L
      BY <1>1, <1>6
    <3> QED
      BY <1>1, <3>1
  <2>2. skip + 1 \in Int /\ L \in Int
    BY <1>1, <1>6
  <2> QED
    BY <2>1, <2>2, SubSeqProperties
<1>9. ASSUME NEW k \in 1 .. sequence - b
      PROVE  SubSeq(history, skip + 1, L)[k] = b + k
  <2>1. /\ k \in 1 .. L - (skip + 1) + 1 /\ skip + 1 + k - 1 \in 1 .. L
        /\ skip + 1 + k - 1 = b - (sequence - L) + k
    BY <1>1, <1>2, <1>3
  <2>2. history[b - (sequence - L) + k] = sequence - L + (b - (sequence - L) + k)
    BY <1>1, <2>1
  <2> QED
    BY <1>1, <1>2, <1>8, <2>1, <2>2
<1>10. Len(SubSeq(history, skip + 1, L)) = sequence - b
  BY <1>1, <1>2, <1>3, <1>6, <1>8
<1> QED
  BY <1>2, <1>7, <1>8, <1>9, <1>10 DEF b

\* The answer to a connection with the cursor <<asked, after>>.
Changed(asked) == asked # Unknown /\ asked # stream
From(after, asked) == IF Changed(asked) THEN 0 ELSE after
Gap(after, asked) == ~Changed(asked) /\ after > 0 /\ after < sequence - Len(history)
Notices(after, asked) == IF Changed(asked) \/ Gap(after, asked) THEN 1 ELSE 0

\* What the handler sends first: a notice if the cursor is of another stream or
\* before the history, then every retained event beyond it.
LEMMA ReplayIs ==
    ASSUME TypeOK, HistoryInv, NEW after \in Nat, NEW asked \in Nat,
           asked = stream => after <= sequence, asked = Unknown => after = 0
    PROVE  LET r == Replay(HistoryPage(after, PageLimit, asked))
               b == Base(From(after, asked))
               z == Notices(after, asked)
           IN  /\ From(after, asked) \in 0 .. sequence
               /\ b \in 0 .. sequence /\ z \in {0, 1}
               /\ r \in Seq(Msg) /\ Len(r) = z + (sequence - b)
               /\ z = 1 => r[1] = Message(IF Changed(asked) THEN "reset" ELSE "gap", stream, 0)
               /\ \A k \in 1 .. sequence - b : r[z + k] = Message("event", stream, b + k)
<1> DEFINE from == From(after, asked)
           b == Base(from)
           z == Notices(after, asked)
           e == Newer(from, PageLimit)
           notice == Message(IF Changed(asked) THEN "reset" ELSE "gap", stream, 0)
           pre == IF z = 1 THEN <<notice>> ELSE <<>>
           post == [i \in DOMAIN e |-> Message("event", stream, e[i])]
<1>1. /\ sequence \in Nat /\ stream \in Nat \ {0} /\ history \in Seq(Nat)
      /\ Len(history) \in Nat /\ Len(history) <= PageLimit /\ Len(history) <= sequence
      /\ DOMAIN history = 1 .. Len(history)
      /\ history = <<>> => sequence = 0
      /\ \A k \in 1 .. Len(history) : history[k] = sequence - Len(history) + k
  <2>1. sequence \in Nat /\ stream \in Nat \ {0} /\ history \in Seq(Nat)
    BY DEF TypeOK
  <2>2. Len(history) \in Nat /\ DOMAIN history = 1 .. Len(history)
    BY <2>1, LenProperties
  <2> QED
    BY <2>1, <2>2, Sizes DEF HistoryInv
<1>2. from \in 0 .. sequence
  BY <1>1 DEF From, Changed, Unknown
<1>3. /\ b \in 0 .. sequence /\ e \in Seq(Nat) /\ Len(e) = sequence - b
      /\ \A k \in 1 .. sequence - b : e[k] = b + k
  <2>1. PageLimit \in Nat
    BY Sizes
  <2> QED
    BY <1>1, <1>2, <2>1, NewerIs
<1> HIDE DEF b, from, e
<1>4. (history # <<>> /\ after < Head(history) - 1) <=> after < sequence - Len(history)
  <2>1. CASE history = <<>>
    BY <1>1, <2>1
  <2>2. CASE history # <<>>
    <3>1. Head(history) = history[1] /\ Len(history) >= 1
      BY <1>1, <2>2, Removing
    <3>2. Head(history) = sequence - Len(history) + 1
      BY <1>1, <3>1
    <3> QED
      BY <1>1, <2>2, <3>2
  <2> QED
    BY <2>1, <2>2
<1>5. Replay(HistoryPage(after, PageLimit, asked)) = pre \o post
  <2> DEFINE h == HistoryPage(after, PageLimit, asked)
  <2>1. h.changed = Changed(asked) /\ h.gap = Gap(after, asked) /\ h.events = e
    BY <1>4 DEF HistoryPage, Changed, Gap, e, from, From
  <2> HIDE DEF h
  <2> QED
    BY <2>1 DEF Replay, Notices, h
<1>6. z \in {0, 1}
  BY DEF Notices
<1> HIDE DEF z
<1>7. notice \in Msg
  BY <1>1 DEF Msg, Message
<1>8. pre \in Seq(Msg) /\ Len(pre) = z /\ (z = 1 => pre[1] = notice)
  BY <1>6, <1>7
<1>9. /\ post \in Seq(Msg) /\ Len(post) = sequence - b
      /\ \A k \in 1 .. sequence - b : post[k] = Message("event", stream, b + k)
  <2>1. DOMAIN e = 1 .. sequence - b /\ sequence - b \in Nat
    BY <1>1, <1>3, LenProperties
  <2>2. ASSUME NEW k \in 1 .. sequence - b
        PROVE  post[k] = Message("event", stream, b + k) /\ post[k] \in Msg
    <3>1. post[k] = Message("event", stream, b + k)
      BY <1>3, <2>1
    <3>2. Message("event", stream, b + k) \in Msg
      BY <1>1, <1>3 DEF Msg, Message
    <3> QED
      BY <3>1, <3>2
  <2>3. post \in [1 .. sequence - b -> Msg]
    BY <2>1, <2>2
  <2>4. post \in Seq(Msg) /\ Len(post) = sequence - b
    BY <2>1, <2>3, LenProperties
  <2> QED
    BY <2>2, <2>4
<1> HIDE DEF pre, post
<1>10. /\ pre \o post \in Seq(Msg) /\ Len(pre \o post) = Len(pre) + Len(post)
       /\ \A i \in 1 .. Len(pre) : (pre \o post)[i] = pre[i]
       /\ \A i \in 1 .. Len(post) : (pre \o post)[Len(pre) + i] = post[i]
  BY <1>8, <1>9, Concatenation
<1>11. z = 1 => (pre \o post)[1] = notice
  BY <1>8, <1>10
<1>12. \A k \in 1 .. sequence - b : (pre \o post)[z + k] = Message("event", stream, b + k)
  BY <1>8, <1>9, <1>10
<1> QED
  BY <1>2, <1>3, <1>5, <1>6, <1>8, <1>9, <1>10, <1>11, <1>12 DEF b, from, z

\* acceptEvents, for a stream id the server can send.
LEMMA AcceptedIs ==
    ASSUME TypeOK, PageInv, NEW s \in Nat \ {0}, NEW evs, NEW notice \in BOOLEAN
    PROVE  AcceptEvents(page, s, evs, notice) =
             [stream |-> s, cursor |-> Max({Known(s)} \cup evs),
              shown |-> Newest(KnownShown(s) \cup evs), told |-> (notice \/ KnownLoss(s)),
              generation |-> page.generation]
<1>1. page \in Pages
  BY DEF TypeOK
<1>2. page.stream = Unknown => page.cursor = 0 /\ page.shown = {} /\ ~page.told
  BY DEF PageInv
<1>3. s # Unknown
  BY DEF Unknown
<1> DEFINE changed == page.stream # Unknown /\ page.stream # s
<1>4. (IF changed THEN 0 ELSE page.cursor) = Known(s)
  BY <1>2, <1>3 DEF Known
<1>5. (IF changed THEN {} ELSE page.shown) = KnownShown(s)
  BY <1>2, <1>3 DEF KnownShown
<1>6. (page.told /\ ~changed) = KnownLoss(s)
  BY <1>1, <1>2, <1>3 DEF KnownLoss
<1>7. AcceptEvents(page, s, evs, notice) =
        [page EXCEPT !.stream = s,
                     !.cursor = Max({IF changed THEN 0 ELSE page.cursor} \cup evs),
                     !.shown = Newest((IF changed THEN {} ELSE page.shown) \cup evs),
                     !.told = notice \/ (page.told /\ ~changed)]
  BY DEF AcceptEvents
<1>8. AcceptEvents(page, s, evs, notice) =
        [page EXCEPT !.stream = s, !.cursor = Max({Known(s)} \cup evs),
                     !.shown = Newest(KnownShown(s) \cup evs),
                     !.told = notice \/ KnownLoss(s)]
  BY <1>4, <1>5, <1>6, <1>7
<1> HIDE DEF changed
<1> QED
  BY <1>1, <1>8

\* The cursor after the events lo..hi.
LEMMA CursorAfter ==
    ASSUME NEW c \in Nat, NEW lo \in Nat, NEW hi \in Nat
    PROVE  Max({c} \cup (lo .. hi)) = IF lo <= hi /\ hi > c THEN hi ELSE c
<1> DEFINE S == {c} \cup (lo .. hi)
           x == IF lo <= hi /\ hi > c THEN hi ELSE c
<1>1. S \in SUBSET Int /\ x \in S /\ \A y \in S : x >= y
  OBVIOUS
<1> QED
  BY <1>1, MaxIs

\* What the page knows of a stream has its type.
LEMMA KnownTypes ==
    ASSUME TypeOK, NEW s
    PROVE  Known(s) \in Nat /\ KnownShown(s) \in SUBSET Nat /\ KnownLoss(s) \in BOOLEAN
BY DEF TypeOK, Known, KnownShown, KnownLoss

\* The page keeps its type.
LEMMA AcceptedTypes ==
    ASSUME TypeOK, PageInv, NEW s \in Nat \ {0}, NEW lo \in Nat, NEW hi \in Nat,
           NEW notice \in BOOLEAN
    PROVE  AcceptEvents(page, s, lo .. hi, notice)
             \in Pages
<1>1. Known(s) \in Nat /\ KnownShown(s) \in SUBSET Nat /\ KnownLoss(s) \in BOOLEAN
  BY KnownTypes
<1>2. Max({Known(s)} \cup (lo .. hi)) \in Nat
  <2>1. Max({Known(s)} \cup (lo .. hi)) = IF lo <= hi /\ hi > Known(s) THEN hi ELSE Known(s)
    BY <1>1, CursorAfter
  <2> QED
    BY <1>1, <2>1
<1>3. Newest(KnownShown(s) \cup (lo .. hi)) \in SUBSET Nat
  BY <1>1 DEF Newest
<1>4. page.generation \in Nat
  BY DEF TypeOK
<1> QED
  BY <1>1, <1>2, <1>3, <1>4, AcceptedIs

\* mergeEvents keeps an interval an interval, with the same end ...
LEMMA NewestInterval ==
    ASSUME NEW lo \in Nat \ {0}, NEW hi \in Nat, lo <= hi + 1
    PROVE  \E l \in lo .. hi + 1 : Newest(lo .. hi) = l .. hi /\ hi - l < DisplaySize
<1>1. Newest(lo .. hi) = {n \in lo .. hi : n > hi - DisplaySize}
  BY NewestIs
<1> DEFINE l == IF lo > hi - DisplaySize THEN lo ELSE hi - DisplaySize + 1
<1>2. l \in lo .. hi + 1 /\ hi - l < DisplaySize
  BY Sizes
<1>3. {n \in lo .. hi : n > hi - DisplaySize} = l .. hi
  BY Sizes
<1> QED
  BY <1>1, <1>2, <1>3

\* ... and what has everything that there is room for stays so.
LEMMA NewestTop ==
    ASSUME NEW M \in Nat, NEW S, Top(M) \subseteq S, S \subseteq 1 .. M
    PROVE  Newest(S) = Top(M)
<1> DEFINE lo == IF M - DisplaySize + 1 >= 1 THEN M - DisplaySize + 1 ELSE 1
<1>1. lo \in Nat \ {0} /\ lo <= M + 1
  BY Sizes
<1>2. Top(M) = lo .. M
  BY Sizes DEF Top
<1>3. S = lo .. M \/ M - lo + 1 >= DisplaySize
  <2>1. CASE M - DisplaySize + 1 >= 1
    BY <2>1, Sizes
  <2>2. CASE ~(M - DisplaySize + 1 >= 1)
    BY <1>2, <2>2
  <2> QED
    BY <2>1, <2>2
<1>4. Newest(S) = {n \in lo .. M : n > M - DisplaySize}
  BY <1>1, <1>2, <1>3, NewestIs
<1>5. {n \in lo .. M : n > M - DisplaySize} = Top(M)
  BY Sizes DEF Top
<1> QED
  BY <1>4, <1>5

\* All there is room for is an interval that ends at the cursor.
LEMMA TopInterval ==
    ASSUME NEW c \in Nat
    PROVE  \E l \in 1 .. c + 1 : Top(c) = l .. c /\ c - l < DisplaySize
<1> DEFINE l == IF c - DisplaySize + 1 >= 1 THEN c - DisplaySize + 1 ELSE 1
<1>1. l \in 1 .. c + 1 /\ c - l < DisplaySize
  BY Sizes
<1>2. Top(c) = l .. c
  BY Sizes DEF Top
<1> QED
  BY <1>1, <1>2

-----------------------------------------------------------------------------
(* Initial states, and the steps of the broker *)

USE DEF broker, bounds, own

\* The invariant holds before anything is published or connected.
LEMMA InitInv == Init => IInv
<1> SUFFICES ASSUME Init PROVE IInv
  OBVIOUS
<1>1. /\ stream = 1 /\ sequence = 0 /\ history = <<>> /\ wire = <<>>
      /\ sub = [queue |-> <<>>, stream |-> 1, dropped |-> 0, noticeLast |-> FALSE]
      /\ socket = [phase |-> "closed", out |-> <<>>, sentStream |-> 0, sentSeq |-> 0,
                   after |-> 0, asked |-> 0]
      /\ page = [stream |-> 0, cursor |-> 0, shown |-> {}, told |-> FALSE, generation |-> 0]
      /\ load = [state |-> "asked", generation |-> 0, stream |-> 0, events |-> {}]
      /\ resetReply = FALSE /\ overtaken = FALSE /\ published = 0 /\ closes = 0
  BY DEF Init, NewSubscription, Closed, Blank, Unknown
<1>2. TypeOK
  <2>1. <<>> \in Seq(Msg) /\ <<>> \in Seq(Nat)
    BY EmptySeq
  <2>2. resetReply \in BOOLEAN /\ overtaken \in BOOLEAN
    BY <1>1
  <2>3. sub \in Subscriptions
    BY <1>1, <2>1
  <2>4. socket \in Sockets
    BY <1>1, <2>1
  <2>5. /\ page \in Pages
        /\ load \in Loads
    BY <1>1
  <2>6. /\ stream \in Nat \ {0} /\ sequence \in Nat /\ history \in Seq(Nat)
        /\ wire \in Seq(Msg) /\ published \in Nat /\ closes \in Nat
    BY <1>1, <2>1
  <2> QED
    BY <2>2, <2>3, <2>4, <2>5, <2>6 DEF TypeOK
<1>3. OrderInv
  BY <1>1, EmptySeq, Sizes DEF OrderInv, HistoryInv, PageInv, LoadInv, Subscribed, Unknown
<1>4. GapInv
  <2>1. page.cursor + 1 = 1 /\ 1 \in 1 .. page.cursor + 1 /\ page.shown = 1 .. page.cursor
        /\ page.cursor - 1 < DisplaySize
    BY <1>1, Sizes
  <2> QED
    BY <1>1, <2>1 DEF GapInv, ShownInv, Full, Subscribed
<1> QED
  BY <1>2, <1>3, <1>4 DEF IInv

\* The backlog is a sequence of messages.
LEMMA BacklogTypes ==
    ASSUME TypeOK
    PROVE  /\ Backlog \in Seq(Msg) /\ Len(Backlog) \in Nat
           /\ DOMAIN Backlog = 1 .. Len(Backlog)
           /\ \A i \in DOMAIN Backlog : /\ Backlog[i] \in Msg
                                        /\ Backlog[i].stream \in Nat \ {0}
                                        /\ Backlog[i].seq \in Nat
           /\ sub.queue \in Seq(Msg) /\ Len(sub.queue) \in Nat
           /\ DOMAIN sub.queue = 1 .. Len(sub.queue)
<1>1. wire \in Seq(Msg) /\ socket.out \in Seq(Msg) /\ sub.queue \in Seq(Msg)
  BY DEF TypeOK
<1>2. Backlog \in Seq(Msg)
  BY <1>1, Concatenation DEF Backlog
<1>3. /\ Len(Backlog) \in Nat /\ DOMAIN Backlog = 1 .. Len(Backlog)
      /\ Len(sub.queue) \in Nat /\ DOMAIN sub.queue = 1 .. Len(sub.queue)
  BY <1>1, <1>2, LenProperties
<1>4. \A i \in DOMAIN Backlog : Backlog[i] \in Msg
  BY <1>2, <1>3, ElementOfSeq
<1> QED
  BY <1>1, <1>2, <1>3, <1>4 DEF Msg

\* A published event goes to the end of the history and of the queue, which
\* lose their oldest entry when they are full.
LEMMA PublishedIs ==
    ASSUME TypeOK, HistoryInv, Publish
    PROVE  /\ sequence' = sequence + 1
           /\ history' \in Seq(Nat) /\ HistoryInv'
           /\ Evicted => Evicted'
           /\ sub' \in Subscriptions
<1> DEFINE h == Append(history, sequence + 1)
<1>1. /\ sequence \in Nat /\ stream \in Nat \ {0} /\ history \in Seq(Nat)
      /\ sequence' = sequence + 1
      /\ sub \in Subscriptions
  BY DEF TypeOK, Publish
<1>2. /\ h \in Seq(Nat) /\ Len(history) \in Nat /\ DOMAIN history = 1 .. Len(history)
      /\ Len(h) = Len(history) + 1 /\ DOMAIN h = 1 .. Len(history) + 1
      /\ \A i \in 1 .. Len(history) : h[i] = history[i]
      /\ h[Len(history) + 1] = sequence + 1
  <2>1. sequence + 1 \in Nat
    BY <1>1
  <2> QED
    BY <1>1, <2>1, Appending
<1> HIDE DEF h
<1>3. ASSUME NEW i \in 1 .. Len(history) + 1 PROVE h[i] = sequence - Len(history) + i
  <2>1. CASE i = Len(history) + 1
    BY <1>1, <1>2, <2>1
  <2>2. CASE i \in 1 .. Len(history)
    BY <1>2, <2>2 DEF HistoryInv
  <2> QED
    BY <1>2, <2>1, <2>2
<1>4. history' = IF Len(h) > HistorySize THEN Tail(h) ELSE h
  BY <1>1 DEF Publish, h
<1>5. sub' \in Subscriptions
  <2> DEFINE m == Message("event", stream, sequence + 1)
  <2>1. m \in Msg
    BY <1>1 DEF Msg, Message
  <2>2. sub.queue \in Seq(Msg)
    BY <1>1
  <2>3. Append(sub.queue, m) \in Seq(Msg)
    BY <2>1, <2>2, Appending
  <2>4. Len(sub.queue) >= BufferSize => Append(Tail(sub.queue), m) \in Seq(Msg)
    <3> SUFFICES ASSUME Len(sub.queue) >= BufferSize
                 PROVE  Append(Tail(sub.queue), m) \in Seq(Msg)
      OBVIOUS
    <3>1. sub.queue # <<>>
      BY Sizes, EmptySeq
    <3>2. Tail(sub.queue) \in Seq(Msg)
      BY <2>2, <3>1, Removing
    <3> QED
      BY <2>1, <3>2, Appending
  <2>5. Len(sub.queue) \in Nat
    BY <2>2, LenProperties
  <2>6. sub' = IF Subscribed THEN Enqueue(sub, m) ELSE sub
    BY <1>1 DEF Publish
  <2> HIDE DEF m
  <2>7. CASE Subscribed /\ Len(sub.queue) < BufferSize
    BY <1>1, <2>3, <2>6, <2>7 DEF Enqueue
  <2>8. CASE Subscribed /\ Len(sub.queue) >= BufferSize
    <3>1. sub' = [sub EXCEPT !.queue = Append(Tail(sub.queue), m), !.dropped = sub.dropped + 1]
      BY <2>5, <2>6, <2>8, Sizes DEF Enqueue
    <3>2. Append(Tail(sub.queue), m) \in Seq(Msg) /\ sub.dropped + 1 \in Nat
      BY <1>1, <2>4, <2>8
    <3> QED
      BY <1>1, <3>1, <3>2
  <2> QED
    BY <1>1, <2>5, <2>6, <2>7, <2>8, Sizes
<1>6. CASE Len(h) > HistorySize
  <2>1. h # <<>>
    BY <1>2, EmptySeq
  <2>2. /\ Tail(h) \in Seq(Nat) /\ Len(Tail(h)) = Len(history)
        /\ DOMAIN Tail(h) = 1 .. Len(history)
        /\ \A i \in 1 .. Len(history) : Tail(h)[i] = h[i + 1]
    <3>1. /\ Tail(h) \in Seq(Nat) /\ Len(Tail(h)) = Len(h) - 1
          /\ DOMAIN Tail(h) = 1 .. Len(h) - 1
          /\ \A i \in 1 .. Len(h) - 1 : Tail(h)[i] = h[i + 1]
      BY <1>2, <2>1, Removing
    <3>2. Len(h) - 1 = Len(history)
      BY <1>2
    <3> QED
      BY <3>1, <3>2
  <2>3. history' = Tail(h)
    BY <1>4, <1>6
  <2>4. Len(history) >= 1 /\ Len(history) <= HistorySize /\ Len(history) <= sequence
    BY <1>2, <1>6, Sizes DEF HistoryInv
  <2>5. ASSUME NEW i \in 1 .. Len(history) PROVE Tail(h)[i] = sequence + 1 - Len(history) + i
    <3>1. i + 1 \in 1 .. Len(history) + 1
      BY <1>2
    <3>2. h[i + 1] = sequence - Len(history) + (i + 1)
      BY <1>3, <3>1
    <3>3. Tail(h)[i] = h[i + 1]
      BY <2>2
    <3> QED
      BY <1>1, <1>2, <3>2, <3>3
  <2>6. HistoryInv'
    <3>1. history' # <<>>
      BY <2>2, <2>3, <2>4
    <3>2. Len(history') = Len(history) /\ DOMAIN history' = 1 .. Len(history)
      BY <2>2, <2>3
    <3>3. \A k \in DOMAIN history' : history'[k] = sequence' - Len(history') + k
      <4> SUFFICES ASSUME NEW k \in 1 .. Len(history)
                   PROVE  history'[k] = sequence' - Len(history') + k
        BY <3>2
      <4>1. history'[k] = sequence + 1 - Len(history) + k
        BY <2>3, <2>5
      <4> QED
        BY <1>1, <3>2, <4>1
    <3> QED
      BY <1>1, <1>2, <2>4, <3>1, <3>2, <3>3 DEF HistoryInv
  <2>7. Evicted => Evicted'
    BY <1>1, <1>2, <2>2, <2>3 DEF Evicted
  <2> QED
    BY <1>1, <1>5, <2>2, <2>3, <2>6, <2>7
<1>7. CASE ~(Len(h) > HistorySize)
  <2>1. history' = h
    BY <1>4, <1>7
  <2>2. HistoryInv'
    <3>1. history' # <<>>
      BY <1>2, <2>1
    <3>2. Len(history') = Len(history) + 1 /\ DOMAIN history' = 1 .. Len(history) + 1
      BY <1>2, <2>1
    <3>3. \A k \in DOMAIN history' : history'[k] = sequence' - Len(history') + k
      <4> SUFFICES ASSUME NEW k \in 1 .. Len(history) + 1
                   PROVE  history'[k] = sequence' - Len(history') + k
        BY <3>2
      <4>1. history'[k] = sequence - Len(history) + k
        BY <1>3, <2>1
      <4> QED
        BY <1>1, <1>2, <3>2, <4>1
    <3> QED
      BY <1>1, <1>2, <1>7, <3>1, <3>2, <3>3, Sizes DEF HistoryInv
  <2>3. Evicted => Evicted'
    BY <1>1, <1>2, <2>1 DEF Evicted
  <2> QED
    BY <1>1, <1>2, <1>5, <2>1, <2>2, <2>3
<1> QED
  BY <1>6, <1>7

\* What it does to an open subscription.
LEMMA PublishedQueue ==
    ASSUME TypeOK, QueueInv, Subscribed, Publish
    PROVE  /\ QueueInv'
           /\ Len(sub.queue) < BufferSize => /\ Len(sub'.queue) = Len(sub.queue) + 1
                                             /\ sub'.dropped = sub.dropped
           /\ Len(sub.queue) >= BufferSize => /\ Len(sub'.queue) = Len(sub.queue)
                                              /\ sub'.dropped = sub.dropped + 1
           /\ sub'.noticeLast = sub.noticeLast
<1> DEFINE q == sub.queue
           m == Message("event", stream, sequence + 1)
<1>1. /\ sequence \in Nat /\ stream \in Nat \ {0} /\ q \in Seq(Msg)
      /\ sequence' = sequence + 1 /\ stream' = stream
      /\ sub \in Subscriptions
      /\ sub' = Enqueue(sub, m)
  BY DEF TypeOK, Publish
<1>2. m \in Msg /\ m = Entry(sequence + 1)
  BY <1>1 DEF Msg, Message, Entry
<1>3. Len(q) \in Nat /\ DOMAIN q = 1 .. Len(q)
  BY <1>1, LenProperties
<1>4. /\ sub.stream = stream /\ Len(q) <= sequence + 1
      /\ Len(q) = sequence + 1 => sub.dropped = 0 /\ ~sub.noticeLast
      /\ \A k \in 1 .. Len(q) : q[k] = Entry(sequence - Len(q) + k)
  BY <1>3 DEF QueueInv
<1>5. \A n : Entry(n)' = Entry(n)
  BY <1>1 DEF Entry, Message
<1> HIDE DEF m
<1>6. CASE Len(q) < BufferSize
  <2>1. sub' = [sub EXCEPT !.queue = Append(q, m)]
    BY <1>1, <1>6 DEF Enqueue
  <2>2. /\ sub'.queue = Append(q, m) /\ sub'.stream = sub.stream
        /\ sub'.dropped = sub.dropped /\ sub'.noticeLast = sub.noticeLast
    BY <1>1, <2>1
  <2>3. /\ Len(Append(q, m)) = Len(q) + 1 /\ DOMAIN Append(q, m) = 1 .. Len(q) + 1
        /\ \A i \in 1 .. Len(q) : Append(q, m)[i] = q[i]
        /\ Append(q, m)[Len(q) + 1] = m
    BY <1>1, <1>2, Appending
  <2>4. ASSUME NEW k \in 1 .. Len(q) + 1
        PROVE  Append(q, m)[k] = Entry(sequence + 1 - (Len(q) + 1) + k)
    <3>1. CASE k = Len(q) + 1
      <4>1. sequence + 1 - (Len(q) + 1) + k = sequence + 1
        BY <1>1, <1>3, <3>1
      <4> QED
        BY <1>2, <2>3, <3>1, <4>1
    <3>2. CASE k \in 1 .. Len(q)
      <4>1. sequence + 1 - (Len(q) + 1) + k = sequence - Len(q) + k
        BY <1>1, <1>3
      <4> QED
        BY <1>4, <2>3, <3>2, <4>1
    <3> QED
      BY <1>3, <3>1, <3>2
  <2>5. QueueInv'
    BY <1>1, <1>3, <1>4, <1>5, <2>2, <2>3, <2>4 DEF QueueInv
  <2> QED
    BY <1>3, <1>6, <2>2, <2>3, <2>5, Sizes
<1>7. CASE ~(Len(q) < BufferSize)
  <2>1. sub' = [sub EXCEPT !.queue = Append(Tail(q), m), !.dropped = sub.dropped + 1]
    BY <1>1, <1>7 DEF Enqueue
  <2>2. /\ sub'.queue = Append(Tail(q), m) /\ sub'.stream = sub.stream
        /\ sub'.dropped = sub.dropped + 1 /\ sub'.noticeLast = sub.noticeLast
    BY <1>1, <2>1
  <2>3. q # <<>>
    BY <1>3, <1>7, Sizes, EmptySeq
  <2>4. /\ Tail(q) \in Seq(Msg) /\ Len(Tail(q)) = Len(q) - 1 /\ Len(q) \in Nat \ {0}
        /\ \A i \in 1 .. Len(q) - 1 : Tail(q)[i] = q[i + 1]
    BY <1>1, <2>3, Removing
  <2>5. /\ Len(Append(Tail(q), m)) = Len(q) /\ DOMAIN Append(Tail(q), m) = 1 .. Len(q)
        /\ \A i \in 1 .. Len(q) - 1 : Append(Tail(q), m)[i] = q[i + 1]
        /\ Append(Tail(q), m)[Len(q)] = m
    <3>1. /\ Len(Append(Tail(q), m)) = Len(Tail(q)) + 1
          /\ DOMAIN Append(Tail(q), m) = 1 .. Len(Tail(q)) + 1
          /\ \A i \in 1 .. Len(Tail(q)) : Append(Tail(q), m)[i] = Tail(q)[i]
          /\ Append(Tail(q), m)[Len(Tail(q)) + 1] = m
      BY <1>2, <2>4, Appending
    <3>2. Len(Tail(q)) + 1 = Len(q)
      BY <2>4
    <3> QED
      BY <2>4, <3>1, <3>2
  <2>6. ASSUME NEW k \in 1 .. Len(q)
        PROVE  Append(Tail(q), m)[k] = Entry(sequence + 1 - Len(q) + k)
    <3>1. CASE k = Len(q)
      <4>1. sequence + 1 - Len(q) + k = sequence + 1
        BY <1>1, <1>3, <3>1
      <4> QED
        BY <1>2, <2>5, <3>1, <4>1
    <3>2. CASE k \in 1 .. Len(q) - 1
      <4>1. k + 1 \in 1 .. Len(q) /\ sequence + 1 - Len(q) + k = sequence - Len(q) + (k + 1)
        BY <1>1, <1>3, <3>2
      <4> QED
        BY <1>4, <2>5, <3>2, <4>1
    <3> QED
      BY <1>3, <3>1, <3>2
  <2>7. QueueInv'
    <3>1. Len(sub'.queue) = Len(q) /\ DOMAIN sub'.queue = 1 .. Len(q)
      BY <2>2, <2>5
    <3>2. Len(q) <= sequence' + 1 /\ Len(q) # sequence' + 1
      BY <1>1, <1>3, <1>4
    <3>3. \A k \in 1 .. Len(q) : sub'.queue[k] = Entry(sequence' - Len(sub'.queue) + k)
      <4> SUFFICES ASSUME NEW k \in 1 .. Len(q)
                   PROVE  sub'.queue[k] = Entry(sequence' - Len(sub'.queue) + k)
        OBVIOUS
      <4>1. sub'.queue[k] = Entry(sequence + 1 - Len(q) + k)
        BY <2>2, <2>6
      <4>2. sequence' - Len(sub'.queue) + k = sequence + 1 - Len(q) + k
        BY <1>1, <3>1
      <4> QED
        BY <4>1, <4>2
    <3> QED
      BY <1>1, <1>4, <1>5, <2>2, <3>1, <3>2, <3>3 DEF QueueInv
  <2> QED
    BY <1>3, <1>7, <2>2, <2>5, <2>7, Sizes
<1> QED
  BY <1>6, <1>7

\* The fields of the records have their types.
LEMMA FieldTypes ==
    ASSUME TypeOK
    PROVE  /\ sub.stream \in Nat /\ sub.dropped \in Nat /\ sub.noticeLast \in BOOLEAN
           /\ socket.phase \in {"closed", "connecting", "open"}
           /\ socket.sentStream \in Nat /\ socket.sentSeq \in Nat
           /\ socket.after \in Nat /\ socket.asked \in Nat /\ socket.out \in Seq(Msg)
           /\ page.stream \in Nat /\ page.cursor \in Nat /\ page.shown \in SUBSET Nat
           /\ page.told \in BOOLEAN /\ page.generation \in Nat
           /\ load.state \in {"asked", "answered", "done"} /\ load.generation \in Nat
           /\ load.stream \in Nat
           /\ stream \in Nat \ {0} /\ sequence \in Nat /\ history \in Seq(Nat)
           /\ Len(history) \in Nat /\ wire \in Seq(Msg)
BY LenProperties DEF TypeOK

HIDE DEF Subscriptions, Sockets, Pages, Loads

\* What could be shown or sent next still can when nothing but the broker moves.
LEMMA PlacesKept ==
    ASSUME page' = page, stream' = stream, Backlog' = Backlog, Evicted => Evicted'
    PROVE  \A i, s, n : AtPlace(i, s, n) => AtPlace(i, s, n)'
BY DEF AtPlace, PageReady, Follows, Known, KnownLoss, Full

\* Publishing keeps the invariant: an entry lost by a full queue makes a notice due.
LEMMA PublishInv == IInv /\ Publish => IInv'
<1> SUFFICES ASSUME IInv, Publish PROVE IInv'
  OBVIOUS
<1>1. TypeOK /\ OrderInv /\ HistoryInv /\ PageInv /\ LoadInv /\ GapInv
  BY DEF IInv, OrderInv
<1>2. /\ sequence' = sequence + 1 /\ stream' = stream /\ sequence \in Nat
      /\ socket' = socket /\ wire' = wire /\ page' = page /\ load' = load
      /\ resetReply' = resetReply /\ overtaken' = overtaken /\ closes' = closes
  BY <1>1 DEF Publish, TypeOK
<1>3. sequence' = sequence + 1 /\ sequence \in Nat /\ sequence' \in Nat
  BY <1>2
<1>4. published' \in Nat
  BY <1>1 DEF Publish, TypeOK
<1>5. /\ history' \in Seq(Nat) /\ HistoryInv'
      /\ Evicted => Evicted'
      /\ sub' \in Subscriptions
  BY <1>1, PublishedIs
<1>6. Backlog' = Backlog /\ Subscribed' = Subscribed
  BY <1>2 DEF Backlog, Subscribed
<1>7. TypeOK'
  BY <1>1, <1>2, <1>3, <1>4, <1>5 DEF TypeOK
<1>8. PageInv'
  BY <1>1, <1>2, FieldTypes DEF PageInv
<1>9. LoadInv'
  <2> SUFFICES ASSUME load.state = "answered" PROVE LoadInv'
    BY <1>2 DEF LoadInv
  <2>1. PICK lo \in Nat \ {0}, hi \in Nat : Piece(lo, hi)
    BY <1>1 DEF LoadInv
  <2>2. Piece(lo, hi)'
    BY <1>2, <1>5, <2>1 DEF Piece
  <2> QED
    BY <1>1, <1>2, <2>2 DEF LoadInv
<1>10. ASSUME Subscribed PROVE OpenInv'
  <2>1. QueueInv /\ SentInv /\ BacklogOrdered
    BY <1>1, <1>10 DEF OrderInv, OpenInv
  <2>2. /\ QueueInv'
        /\ Len(sub'.queue) = Len(sub.queue) \/ Len(sub'.queue) = Len(sub.queue) + 1
    BY <1>1, <1>10, <2>1, PublishedQueue, BacklogTypes, Sizes
  <2>3. Len(sub.queue) \in Nat /\ Len(sub'.queue) \in Nat
    BY <1>1, <2>2, BacklogTypes
  <2>4. /\ sequence - Len(sub.queue) <= sequence' - Len(sub'.queue)
        /\ sequence - Len(sub.queue) \in Int /\ sequence' - Len(sub'.queue) \in Int
    <3> DEFINE a == Len(sub.queue)
               b == Len(sub'.queue)
    <3>1. a \in Nat /\ b \in Nat /\ (b = a \/ b = a + 1)
      BY <2>2, <2>3
    <3> HIDE DEF a, b
    <3>2. sequence - a <= sequence' - b /\ sequence - a \in Int /\ sequence' - b \in Int
      BY <1>3, <3>1
    <3> QED
      BY <3>2 DEF a, b
  <2>5. socket.sentStream = stream => socket.sentSeq <= sequence' - Len(sub'.queue)
    <3>1. socket.sentSeq \in Nat
      BY <1>1, FieldTypes
    <3> QED
      BY <2>1, <2>4, <3>1 DEF SentInv
  <2>6. SentInv'
    BY <1>2, <1>6, <2>1, <2>5 DEF SentInv, SentUpTo
  <2>7. BacklogOrdered'
    BY <1>2, <1>6, <2>1 DEF BacklogOrdered, Later, IsEvent
  <2> QED
    BY <2>2, <2>6, <2>7 DEF OpenInv
<1>11. socket.phase = "connecting" => ConnectingInv'
  BY <1>1, <1>2, FieldTypes DEF OrderInv, ConnectingInv
<1>12. OrderInv'
  BY <1>1, <1>2, <1>5, <1>6, <1>8, <1>9, <1>10, <1>11 DEF OrderInv
<1>13. GapInv'
  <2> SUFFICES ASSUME ~overtaken PROVE GapInv'
    BY <1>2 DEF GapInv
  <2>1. ShownInv'
    BY <1>1, <1>2, <1>5 DEF GapInv, ShownInv, Full
  <2>2. socket.phase = "connecting" => CursorKept'
    BY <1>1, <1>2 DEF GapInv, CursorKept
  <2>3. ASSUME Subscribed PROVE CoveredInv'
    <3>1. CoveredInv /\ QueueInv
      BY <1>1, <2>3 DEF GapInv, OrderInv, OpenInv
    <3>2. \A i, s, n : AtPlace(i, s, n) => AtPlace(i, s, n)'
      BY <1>2, <1>5, <1>6, PlacesKept
    <3>3. /\ Len(sub.queue) < BufferSize => /\ Len(sub'.queue) = Len(sub.queue) + 1
                                            /\ sub'.dropped = sub.dropped
          /\ Len(sub.queue) >= BufferSize => /\ Len(sub'.queue) = Len(sub.queue)
                                             /\ sub'.dropped = sub.dropped + 1
          /\ sub'.noticeLast = sub.noticeLast
      BY <1>1, <2>3, <3>1, PublishedQueue
    <3>4. Len(sub.queue) \in Nat /\ sub.dropped \in Nat /\ Len(Backlog) \in Nat
      BY <1>1, BacklogTypes, FieldTypes
    <3>5. \A i \in DOMAIN Backlog' : IsEvent(Backlog[i])' =>
            AtPlace(i, Backlog[i].stream, Backlog[i].seq)'
      BY <1>6, <3>1, <3>2 DEF CoveredInv, IsEvent
    <3>6. sub.noticeLast =>
            IF Backlog = <<>> THEN page.stream = stream /\ page.told
            ELSE /\ Backlog[Len(Backlog)].stream = stream
                 /\ Backlog[Len(Backlog)].kind = "dropped"
      BY <3>1 DEF CoveredInv
    <3>7. Upcoming' = 0 \/ NoticeDue' \/ AtPlace(Len(Backlog) + 1, stream, Upcoming)'
      <4>1. CASE Len(sub.queue) < BufferSize
        <5>1. Upcoming' = Upcoming
          <6>1. Len(sub'.queue) = Len(sub.queue) + 1
            BY <3>3, <4>1
          <6> QED
            BY <1>3, <3>4, <6>1 DEF Upcoming
        <5>2. NoticeDue' = NoticeDue
          BY <3>3, <4>1 DEF NoticeDue
        <5> QED
          BY <1>2, <1>6, <3>1, <3>2, <5>1, <5>2 DEF CoveredInv
      <4>2. CASE Len(sub.queue) >= BufferSize /\ ~sub.noticeLast
        BY <3>3, <3>4, <4>2 DEF NoticeDue
      <4>3. CASE sub.noticeLast
        <5>1. CASE Backlog = <<>>
          <6>1. Len(Backlog') + 1 = 1
            BY <1>6, <5>1
          <6>2. page'.stream = stream' /\ page'.told
            BY <1>2, <3>6, <4>3, <5>1
          <6> QED
            BY <6>1, <6>2 DEF AtPlace, PageReady, KnownLoss
        <5>2. CASE Backlog # <<>>
          <6>1. Len(Backlog) # 0
            BY <1>1, <5>2, BacklogTypes, EmptySeq
          <6>2. Len(Backlog') + 1 # 1 /\ Len(Backlog') + 1 - 1 = Len(Backlog)
            BY <1>6, <3>4, <6>1
          <6>3. Backlog'[Len(Backlog)].stream = stream' /\ Backlog'[Len(Backlog)].kind = "dropped"
            BY <1>2, <1>6, <3>6, <4>3, <5>2
          <6> QED
            BY <6>2, <6>3 DEF AtPlace, Follows
        <5> QED
          BY <5>1, <5>2
      <4> QED
        BY <3>4, <4>1, <4>2, <4>3, Sizes
    <3> QED
      BY <1>2, <1>6, <3>3, <3>5, <3>6, <3>7 DEF CoveredInv
  <2> QED
    BY <1>2, <1>6, <2>1, <2>2, <2>3 DEF GapInv
<1> QED
  BY <1>7, <1>12, <1>13 DEF IInv

\* So does a reset: what is on its way is of an earlier stream from now on.
LEMMA ClearInv == IInv /\ Clear => IInv'
<1> SUFFICES ASSUME IInv, Clear PROVE IInv'
  OBVIOUS
<1>1. TypeOK /\ OrderInv /\ HistoryInv /\ PageInv /\ LoadInv /\ GapInv
  BY DEF IInv, OrderInv
<1>2. /\ stream' = stream + 1 /\ sequence' = 0 /\ history' = <<>> /\ stream \in Nat \ {0}
      /\ socket' = socket /\ wire' = wire /\ page' = page /\ load' = load
      /\ overtaken' = overtaken /\ closes' = closes /\ published' = published
      /\ sub' = IF Subscribed THEN Restart(stream + 1) ELSE sub
  BY <1>1 DEF Clear, TypeOK
<1>3. resetReply' \in BOOLEAN
  BY <1>1 DEF Clear, TypeOK
<1>4. Backlog' = Backlog /\ Subscribed' = Subscribed
  BY <1>2 DEF Backlog, Subscribed
<1> DEFINE m == Message("reset", stream + 1, 0)
           q == <<m>>
<1>5. m \in Msg /\ q \in Seq(Msg) /\ Len(q) = 1 /\ DOMAIN q = {1} /\ q[1] = m
  <2>1. m \in Msg
    BY <1>2 DEF Msg, Message
  <2> HIDE DEF m
  <2> QED
    BY <2>1
<1>6. Subscribed => sub' = [queue |-> q, stream |-> stream + 1, dropped |-> 0,
                            noticeLast |-> FALSE]
  BY <1>2 DEF Restart
<1> HIDE DEF m, q
<1>7. sub' \in Subscriptions
  <2>1. CASE Subscribed
    <3>1. stream + 1 \in Nat
      BY <1>2
    <3>2. q \in Seq(Msg)
      BY <1>5
    <3>3. [queue |-> q, stream |-> stream + 1, dropped |-> 0, noticeLast |-> FALSE]
            \in Subscriptions
      BY <3>1, <3>2 DEF Subscriptions
    <3> QED
      BY <1>6, <2>1, <3>3
  <2>2. CASE ~Subscribed
    BY <1>1, <1>2, <2>2 DEF TypeOK
  <2> QED
    BY <2>1, <2>2
<1>8. TypeOK'
  <2>1. history' \in Seq(Nat)
    BY <1>2, EmptySeq
  <2> QED
    BY <1>1, <1>2, <1>3, <1>7, <2>1 DEF TypeOK
<1>9. HistoryInv'
  BY <1>2, EmptySeq, Sizes DEF HistoryInv
<1>10. page.stream < stream' /\ PageInv'
  <2>1. page.stream <= stream /\ page.stream \in Nat /\ stream \in Nat
    BY <1>1, FieldTypes DEF PageInv
  <2>2. page.stream < stream' /\ page.stream <= stream' /\ page.stream # stream'
    BY <1>2, <2>1
  <2> QED
    BY <1>1, <1>2, <2>2 DEF PageInv
<1>11. LoadInv'
  <2> SUFFICES ASSUME load.state = "answered" PROVE LoadInv'
    BY <1>2 DEF LoadInv
  <2>1. PICK lo \in Nat \ {0}, hi \in Nat : Piece(lo, hi)
    BY <1>1 DEF LoadInv
  <2>2. load.stream \in 1 .. stream
    BY <1>1 DEF LoadInv
  <2>3. load.stream \in 1 .. stream' /\ load.stream # stream'
    BY <1>2, <2>2
  <2>4. Piece(lo, hi)'
    BY <1>2, <2>1, <2>3 DEF Piece
  <2> QED
    BY <1>2, <2>3, <2>4 DEF LoadInv
<1>12. ASSUME Subscribed PROVE OpenInv'
  <2>1. QueueInv /\ SentInv /\ BacklogOrdered
    BY <1>1, <1>12 DEF OrderInv, OpenInv
  <2>2. /\ sub'.queue = q /\ sub'.stream = stream + 1 /\ sub'.dropped = 0
        /\ sub'.noticeLast = FALSE
    BY <1>6, <1>12
  <2>3. QueueInv'
    <3>1. m = Entry(0)'
      BY <1>2 DEF Entry, m
    <3>2. /\ Len(sub'.queue) = 1 /\ DOMAIN sub'.queue = {1} /\ sub'.queue[1] = m
          /\ sequence' - Len(sub'.queue) + 1 = 0
      <4>1. Len(sub'.queue) = 1 /\ DOMAIN sub'.queue = {1} /\ sub'.queue[1] = m
        BY <1>5, <2>2
      <4>2. sequence' = 0
        BY <1>2
      <4> QED
        BY <4>1, <4>2
    <3> QED
      BY <1>2, <2>2, <3>1, <3>2 DEF QueueInv
  <2>4. SentInv'
    <3>1. socket.sentStream \in 1 .. stream' /\ socket.sentStream # stream'
      BY <1>2, <2>1 DEF SentInv
    <3> QED
      BY <1>2, <1>4, <2>1, <3>1 DEF SentInv, SentUpTo
  <2>5. BacklogOrdered'
    BY <1>2, <1>4, <2>1 DEF BacklogOrdered, Later, IsEvent
  <2> QED
    BY <2>3, <2>4, <2>5 DEF OpenInv
<1>13. socket.phase = "connecting" => ConnectingInv'
  BY <1>1, <1>2, FieldTypes DEF OrderInv, ConnectingInv
<1>14. OrderInv'
  BY <1>1, <1>2, <1>4, <1>9, <1>10, <1>11, <1>12, <1>13 DEF OrderInv
<1>15. GapInv'
  <2> SUFFICES ASSUME ~overtaken PROVE GapInv'
    BY <1>2 DEF GapInv
  <2>1. ShownInv'
    <3>1. page.stream # stream'
      BY <1>1, <1>2, <1>10, FieldTypes
    <3> QED
      BY <1>1, <1>2, <3>1 DEF GapInv, ShownInv
  <2>2. socket.phase = "connecting" => CursorKept'
    <3> SUFFICES ASSUME socket.phase = "connecting" PROVE CursorKept'
      OBVIOUS
    <3>1. socket.asked <= stream /\ socket.asked \in Nat
      BY <1>1, FieldTypes DEF OrderInv, ConnectingInv
    <3>2. socket.asked # stream'
      BY <1>2, <3>1
    <3> QED
      BY <1>1, <1>2, <3>2 DEF GapInv, CursorKept
  <2>3. ASSUME Subscribed PROVE CoveredInv'
    <3>1. CoveredInv /\ SentInv
      BY <1>1, <2>3 DEF GapInv, OrderInv, OpenInv
    <3>2. /\ sub'.queue = q /\ sub'.noticeLast = FALSE
      BY <1>6, <2>3
    <3>3. Upcoming' = 0
      <4>1. Len(sub'.queue) = 1
        BY <1>5, <3>2
      <4>2. sequence' = 0
        BY <1>2
      <4> QED
        BY <4>1, <4>2 DEF Upcoming
    <3>4. ASSUME NEW i \in DOMAIN Backlog, IsEvent(Backlog[i])
          PROVE  AtPlace(i, Backlog[i].stream, Backlog[i].seq)'
      <4>1. Backlog[i].stream <= socket.sentStream /\ socket.sentStream \in 1 .. stream
        BY <3>1 DEF SentInv, SentUpTo
      <4>2. Backlog[i].stream # stream'
        BY <1>1, <1>2, <4>1, BacklogTypes
      <4>3. AtPlace(i, Backlog[i].stream, Backlog[i].seq)
        BY <3>1, <3>4 DEF CoveredInv
      <4> QED
        BY <1>2, <1>4, <4>2, <4>3
           DEF AtPlace, PageReady, Follows, Known, KnownLoss, Full
    <3>5. \A i \in DOMAIN Backlog' : IsEvent(Backlog[i])' =>
            AtPlace(i, Backlog[i].stream, Backlog[i].seq)'
      BY <1>4, <3>4 DEF IsEvent
    <3> QED
      BY <3>2, <3>3, <3>5 DEF CoveredInv
  <2> QED
    BY <1>2, <1>4, <2>1, <2>2, <2>3 DEF GapInv
<1> QED
  BY <1>8, <1>14, <1>15 DEF IInv

-----------------------------------------------------------------------------
(* The page's connection and its requests *)

\* A connection is made with the cursor the page has.
LEMMA ConnectInv == IInv /\ Connect => IInv'
<1> SUFFICES ASSUME IInv, Connect PROVE IInv'
  OBVIOUS
<1>1. TypeOK /\ OrderInv /\ HistoryInv /\ PageInv /\ LoadInv /\ GapInv
  BY DEF IInv, OrderInv
<1>2. /\ socket.phase = "closed"
      /\ socket' = [phase |-> "connecting", out |-> <<>>, sentStream |-> 0, sentSeq |-> 0,
                    after |-> page.cursor, asked |-> page.stream]
  BY DEF Connect, Closed, Unknown
<1>3. /\ stream' = stream /\ sequence' = sequence /\ history' = history /\ sub' = sub
      /\ wire' = wire /\ page' = page /\ load' = load /\ resetReply' = resetReply
      /\ overtaken' = overtaken /\ published' = published /\ closes' = closes
  BY DEF Connect
<1>4. /\ socket'.phase = "connecting" /\ socket'.after = page.cursor
      /\ socket'.asked = page.stream
  BY <1>2
<1>5. ~Subscribed /\ ~Subscribed'
  BY <1>2, <1>4 DEF Subscribed
<1>6. TypeOK'
  <2>1. page.cursor \in Nat /\ page.stream \in Nat /\ <<>> \in Seq(Msg)
    BY <1>1, FieldTypes, EmptySeq
  <2>2. socket' \in Sockets
    BY <1>2, <2>1 DEF Sockets
  <2> QED
    BY <1>1, <1>3, <2>2 DEF TypeOK
<1>7. HistoryInv' /\ PageInv' /\ LoadInv'
  BY <1>1, <1>3 DEF HistoryInv, PageInv, LoadInv, Piece, Evicted
<1>8. ConnectingInv'
  BY <1>1, <1>3, <1>4 DEF ConnectingInv, PageInv
<1>9. OrderInv'
  BY <1>1, <1>3, <1>5, <1>7, <1>8 DEF OrderInv
<1>10. GapInv'
  BY <1>1, <1>3, <1>4, <1>5 DEF GapInv, ShownInv, Full, Evicted, CursorKept
<1> QED
  BY <1>6, <1>9, <1>10 DEF IInv

\* A lost connection takes the backlog with it, and no promise is left to keep.
LEMMA CloseInv == IInv /\ Close => IInv'
<1> SUFFICES ASSUME IInv, Close PROVE IInv'
  OBVIOUS
<1>1. TypeOK /\ OrderInv /\ HistoryInv /\ PageInv /\ LoadInv /\ GapInv
  BY DEF IInv, OrderInv
<1>2. /\ socket' = [phase |-> "closed", out |-> <<>>, sentStream |-> 0, sentSeq |-> 0,
                    after |-> 0, asked |-> 0]
      /\ wire' = <<>>
  BY DEF Close, Closed, Unknown
<1>3. /\ stream' = stream /\ sequence' = sequence /\ history' = history /\ sub' = sub
      /\ page' = page /\ load' = load /\ resetReply' = resetReply
      /\ overtaken' = overtaken /\ published' = published
  BY DEF Close
<1>4. socket'.phase = "closed" /\ ~Subscribed'
  BY <1>2 DEF Subscribed
<1>5. TypeOK'
  <2>1. <<>> \in Seq(Msg)
    BY EmptySeq
  <2>2. socket' \in Sockets
    BY <1>2, <2>1 DEF Sockets
  <2>3. closes' \in Nat
    BY <1>1 DEF Close, TypeOK
  <2> QED
    BY <1>1, <1>2, <1>3, <2>1, <2>2, <2>3 DEF TypeOK
<1>6. HistoryInv' /\ PageInv' /\ LoadInv'
  BY <1>1, <1>3 DEF HistoryInv, PageInv, LoadInv, Piece, Evicted
<1>7. OrderInv'
  BY <1>2, <1>4, <1>6 DEF OrderInv
<1>8. GapInv'
  BY <1>1, <1>3, <1>4 DEF GapInv, ShownInv, Full, Evicted
<1> QED
  BY <1>5, <1>7, <1>8 DEF IInv

\* A step of the initial request that does not end it.
LEMMA LoadStep ==
    ASSUME IInv, load.state # "done", load'.state # "done", load' \in Loads, LoadInv',
           closes' \in Nat, UNCHANGED <<broker, sub, socket, wire, page, own, published>>
    PROVE  IInv'
<1>1. TypeOK /\ OrderInv /\ HistoryInv /\ PageInv /\ GapInv
  BY DEF IInv, OrderInv
<1>2. /\ stream' = stream /\ sequence' = sequence /\ history' = history /\ sub' = sub
      /\ wire' = wire /\ page' = page /\ socket' = socket /\ resetReply' = resetReply
      /\ overtaken' = overtaken /\ published' = published
  OBVIOUS
<1>3. Backlog' = Backlog /\ Subscribed' = Subscribed /\ Evicted' = Evicted
  BY <1>2 DEF Backlog, Subscribed, Evicted
<1>4. TypeOK'
  BY <1>1, <1>2 DEF TypeOK
<1>5. HistoryInv' /\ PageInv'
  BY <1>1, <1>2 DEF HistoryInv, PageInv
<1>6. Subscribed => OpenInv'
  <2> SUFFICES ASSUME Subscribed PROVE OpenInv'
    OBVIOUS
  <2>1. QueueInv /\ SentInv /\ BacklogOrdered
    BY <1>1 DEF OrderInv, OpenInv
  <2>2. QueueInv'
    BY <1>2, <2>1 DEF QueueInv, Entry
  <2>3. SentInv'
    BY <1>2, <1>3, <2>1 DEF SentInv, SentUpTo
  <2>4. BacklogOrdered'
    BY <1>2, <1>3, <2>1 DEF BacklogOrdered, Later, IsEvent
  <2> QED
    BY <2>2, <2>3, <2>4 DEF OpenInv
<1>7. socket.phase = "connecting" => ConnectingInv'
  BY <1>1, <1>2 DEF OrderInv, ConnectingInv
<1>8. OrderInv'
  BY <1>1, <1>2, <1>3, <1>5, <1>6, <1>7 DEF OrderInv
<1>9. GapInv'
  <2>1. ShownInv => ShownInv'
    BY <1>2, <1>3 DEF ShownInv, Full
  <2>2. CursorKept => CursorKept'
    BY <1>2 DEF CursorKept
  <2>3. CoveredInv => CoveredInv'
    BY <1>2, <1>3 DEF CoveredInv, AtPlace, PageReady, Follows, Known, KnownLoss, Full,
       Upcoming, NoticeDue, IsEvent
  <2> QED
    BY <1>1, <1>2, <1>3, <2>1, <2>2, <2>3 DEF GapInv
<1> QED
  BY <1>4, <1>8, <1>9 DEF IInv

\* The answer to the initial request is the retained history, a piece of the stream.
LEMMA AnswerLoadInv == IInv /\ AnswerLoad => IInv'
<1> SUFFICES ASSUME IInv, AnswerLoad PROVE IInv'
  OBVIOUS
<1>1. TypeOK /\ OrderInv /\ HistoryInv
  BY DEF IInv, OrderInv
<1> DEFINE e == Newer(0, HistorySize)
           b == Base(0)
<1>2. /\ stream \in Nat \ {0} /\ sequence \in Nat /\ Len(history) \in Nat
      /\ Len(history) <= HistorySize /\ Len(history) <= sequence /\ load \in Loads
  BY <1>1, FieldTypes DEF HistoryInv, TypeOK
<1>3. /\ b \in 0 .. sequence /\ e \in Seq(Nat) /\ Len(e) = sequence - b
      /\ \A k \in 1 .. sequence - b : e[k] = b + k
  <2>1. 0 \in 0 .. sequence /\ HistorySize \in Nat
    BY <1>2, Sizes
  <2> QED
    BY <1>1, <1>2, <2>1, NewerIs
<1>4. b = sequence - Len(history)
  BY <1>2 DEF Base
<1>5. HistoryPage(0, HistorySize, Unknown).events = e
  BY DEF HistoryPage
<1> HIDE DEF e, b
<1>6. ToSet(e) = b + 1 .. sequence
  <2>1. DOMAIN e = 1 .. sequence - b
    BY <1>3, LenProperties
  <2>2. ToSet(e) = {e[k] : k \in 1 .. sequence - b}
    BY <2>1 DEF ToSet
  <2>3. ASSUME NEW n \in b + 1 .. sequence PROVE n \in ToSet(e)
    <3>1. n - b \in 1 .. sequence - b /\ b + (n - b) = n
      BY <1>2, <1>3
    <3>2. e[n - b] = n
      BY <1>3, <3>1
    <3> QED
      BY <2>2, <3>1, <3>2
  <2>4. ASSUME NEW k \in 1 .. sequence - b PROVE e[k] \in b + 1 .. sequence
    <3>1. e[k] = b + k
      BY <1>3
    <3> QED
      BY <1>2, <1>3, <3>1
  <2> QED
    BY <2>2, <2>3, <2>4
<1>7. load' = [load EXCEPT !.state = "answered", !.stream = stream,
                           !.events = b + 1 .. sequence]
  BY <1>5, <1>6 DEF AnswerLoad
<1>8. b + 1 .. sequence \in SUBSET Nat
  BY <1>2, <1>3
<1>9. /\ load'.state = "answered" /\ load'.stream = stream
      /\ load'.events = b + 1 .. sequence
  BY <1>2, <1>7 DEF Loads
<1>10. load' \in Loads
  BY <1>2, <1>7, <1>8 DEF Loads
<1>11. /\ UNCHANGED <<broker, sub, socket, wire, page, own, published>>
       /\ load.state = "asked" /\ closes' = closes
  BY DEF AnswerLoad
<1>12. LoadInv'
  <2>1. b + 1 \in Nat \ {0} /\ (sequence > Len(history) \/ b + 1 = 1)
    BY <1>2, <1>3, <1>4
  <2>2. Piece(b + 1, sequence)'
    <3>1. load'.events = b + 1 .. sequence /\ sequence' = sequence /\ history' = history
      BY <1>9, <1>11
    <3>2. stream' = stream /\ b' = b
      BY <1>11 DEF b, Base
    <3>3. sequence <= sequence
      BY <1>2
    <3> QED
      BY <2>1, <3>1, <3>2, <3>3 DEF Piece, Evicted
  <2>3. stream' = stream /\ sequence' = sequence /\ b' = b
    BY <1>11 DEF b, Base
  <2>4. load'.stream \in 1 .. stream'
    BY <1>2, <1>9, <2>3
  <2> QED
    BY <1>2, <2>1, <2>2, <2>3, <2>4 DEF LoadInv
<1>13. closes' \in Nat
  BY <1>1, <1>11 DEF TypeOK
<1> QED
  BY <1>9, <1>10, <1>11, <1>12, <1>13, LoadStep

\* A failed initial request is made again.
LEMMA RetryLoadInv == IInv /\ RetryLoad => IInv'
<1> SUFFICES ASSUME IInv, RetryLoad PROVE IInv'
  OBVIOUS
<1>1. load \in Loads /\ page.generation \in Nat /\ closes \in Nat
  <2>1. TypeOK
    BY DEF IInv
  <2> QED
    BY <2>1, FieldTypes DEF TypeOK
<1>2. /\ load.state \in {"asked", "answered"} /\ closes' = closes + 1
      /\ load' = [load EXCEPT !.state = "asked", !.generation = page.generation]
      /\ UNCHANGED <<broker, sub, socket, wire, page, own, published>>
  BY DEF RetryLoad
<1>3. load' \in Loads /\ load'.state = "asked"
  BY <1>1, <1>2 DEF Loads
<1>4. LoadInv'
  BY <1>3 DEF LoadInv
<1>5. closes' \in Nat
  BY <1>1, <1>2
<1> QED
  BY <1>2, <1>3, <1>4, <1>5, LoadStep

\* The page's own reset clears it; unless it is overtaken, the page had nothing of
\* the current stream.
LEMMA HandleResetReplyInv == IInv /\ HandleResetReply => IInv'
<1> SUFFICES ASSUME IInv, HandleResetReply PROVE IInv'
  OBVIOUS
<1>1. TypeOK /\ OrderInv /\ HistoryInv /\ PageInv /\ LoadInv /\ GapInv
  BY DEF IInv, OrderInv
<1>2. /\ stream' = stream /\ sequence' = sequence /\ history' = history /\ sub' = sub
      /\ wire' = wire /\ socket' = socket /\ load' = load /\ resetReply' = FALSE
      /\ published' = published /\ closes' = closes
  BY DEF HandleResetReply
<1>3. page' = [stream |-> 0, cursor |-> 0, shown |-> {}, told |-> FALSE,
               generation |-> page.generation + 1]
  BY DEF HandleResetReply, ClearEvidence, Blank, Unknown
<1>4. /\ page'.stream = 0 /\ page'.cursor = 0 /\ page'.shown = {} /\ page'.told = FALSE
  BY <1>3
<1>5. Backlog' = Backlog /\ Subscribed' = Subscribed /\ Evicted' = Evicted
  BY <1>2 DEF Backlog, Subscribed, Evicted
<1>6. stream \in Nat \ {0} /\ page.generation \in Nat /\ page.cursor \in Nat
  BY <1>1, FieldTypes
<1>7. TypeOK'
  <2>1. page.generation + 1 \in Nat
    BY <1>6
  <2>2. page' \in Pages
    BY <1>3, <2>1 DEF Pages
  <2>3. overtaken' \in BOOLEAN /\ resetReply' \in BOOLEAN
    BY <1>1 DEF HandleResetReply, TypeOK
  <2> QED
    BY <1>1, <1>2, <2>2, <2>3 DEF TypeOK
<1>8. HistoryInv' /\ LoadInv'
  BY <1>1, <1>2 DEF HistoryInv, LoadInv, Piece, Evicted
<1>9. PageInv'
  BY <1>2, <1>4, <1>6 DEF PageInv
<1>10. ASSUME Subscribed PROVE OpenInv'
  <2>1. QueueInv /\ SentInv /\ BacklogOrdered
    BY <1>1, <1>10 DEF OrderInv, OpenInv
  <2>2. QueueInv'
    BY <1>2, <2>1 DEF QueueInv, Entry
  <2>3. SentInv'
    <3>1. 0 <= socket.sentStream /\ 0 # socket.sentStream
      BY <1>6, <2>1 DEF SentInv
    <3> QED
      BY <1>2, <1>4, <1>5, <2>1, <3>1 DEF SentInv, SentUpTo
  <2>4. ASSUME NEW i \in DOMAIN Backlog, IsEvent(Backlog[i]) PROVE Backlog[i].seq > 0
    <3>1. Backlog[i] \in Msg
      BY <1>1, BacklogTypes
    <3> QED
      BY <2>4, <3>1 DEF Msg, IsEvent
  <2>5. BacklogOrdered'
    BY <1>2, <1>4, <1>5, <2>1, <2>4 DEF BacklogOrdered, Later, IsEvent
  <2> QED
    BY <2>2, <2>3, <2>5 DEF OpenInv
<1>11. socket.phase = "connecting" => ConnectingInv'
  BY <1>1, <1>2, <1>4 DEF OrderInv, ConnectingInv, Unknown
<1>12. OrderInv'
  BY <1>1, <1>2, <1>5, <1>8, <1>9, <1>10, <1>11 DEF OrderInv
<1>13. GapInv'
  <2> SUFFICES ASSUME ~overtaken' PROVE GapInv'
    BY DEF GapInv
  <2>1. ~overtaken /\ (page.stream = stream => page.cursor = 0 /\ ~page.told)
    <3>1. overtaken' = (overtaken \/ (page.stream = stream /\ (page.cursor > 0 \/ page.told)))
      BY DEF HandleResetReply
    <3>2. page.told \in BOOLEAN /\ overtaken \in BOOLEAN
      BY <1>1, FieldTypes DEF TypeOK
    <3>3. ~overtaken /\ (page.stream = stream => ~(page.cursor > 0) /\ ~page.told)
      BY <3>1, <3>2, Zenon
    <3> QED
      BY <1>6, <3>3
  <2>2. ShownInv'
    <3>1. 1 \in 1 .. 0 + 1 /\ {} = 1 .. 0 /\ 0 - 1 < DisplaySize
      BY Sizes
    <3> QED
      BY <1>2, <1>4, <1>6, <3>1 DEF ShownInv
  <2>3. socket.phase = "connecting" => CursorKept'
    BY <1>1, <1>2, <1>4, <2>1 DEF GapInv, CursorKept, Unknown
  <2>4. ASSUME Subscribed PROVE CoveredInv'
    <3>1. CoveredInv
      BY <1>1, <2>1, <2>4 DEF GapInv
    <3>2. ASSUME NEW i, NEW s, NEW n \in Nat \ {0}, AtPlace(i, s, n) PROVE AtPlace(i, s, n)'
      <4>1. CASE i # 1
        BY <1>2, <1>5, <3>2, <4>1 DEF AtPlace, Follows
      <4>2. CASE i = 1
        <5>1. PageReady(s, n)
          BY <3>2, <4>2 DEF AtPlace
        <5>2. Known(s)' = 0
          BY <1>4 DEF Known
        <5>3. s = stream => Known(s) = 0 /\ ~KnownLoss(s)
          BY <2>1 DEF Known, KnownLoss
        <5>4. s = stream => n = 1 \/ Evicted
          BY <5>1, <5>3 DEF PageReady
        <5>5. PageReady(s, n)'
          BY <1>2, <1>5, <5>2, <5>4 DEF PageReady
        <5> QED
          BY <4>2, <5>5 DEF AtPlace
      <4> QED
        BY <4>1, <4>2
    <3>3. \A i \in DOMAIN Backlog' : IsEvent(Backlog[i])' =>
            AtPlace(i, Backlog[i].stream, Backlog[i].seq)'
      <4> SUFFICES ASSUME NEW i \in DOMAIN Backlog, IsEvent(Backlog[i])
                   PROVE  AtPlace(i, Backlog[i].stream, Backlog[i].seq)'
        BY <1>5 DEF IsEvent
      <4>1. Backlog[i].seq \in Nat \ {0}
        <5>1. Backlog[i] \in Msg
          BY <1>1, BacklogTypes
        <5> QED
          BY <5>1 DEF Msg, IsEvent
      <4>2. AtPlace(i, Backlog[i].stream, Backlog[i].seq)
        BY <3>1 DEF CoveredInv
      <4> QED
        BY <1>5, <3>2, <4>1, <4>2
    <3>4. Upcoming' = 0 \/ NoticeDue' \/ AtPlace(Len(Backlog) + 1, stream, Upcoming)'
      <4>1. Upcoming' = Upcoming /\ NoticeDue' = NoticeDue
        BY <1>2 DEF Upcoming, NoticeDue
      <4>2. Upcoming \in Nat
        <5>1. Len(sub.queue) \in Nat /\ sequence \in Nat
          BY <1>1, BacklogTypes, FieldTypes
        <5>2. Len(sub.queue) <= sequence + 1
          BY <1>1, <2>4 DEF OrderInv, OpenInv, QueueInv
        <5> QED
          BY <5>1, <5>2 DEF Upcoming
      <4> QED
        BY <1>2, <1>5, <3>1, <3>2, <4>1, <4>2 DEF CoveredInv
    <3>5. sub'.noticeLast => Backlog' # <<>>
      BY <1>2, <1>5, <2>1, <3>1 DEF CoveredInv
    <3> QED
      BY <1>2, <1>5, <3>1, <3>3, <3>4, <3>5 DEF CoveredInv
  <2> QED
    BY <1>2, <1>5, <2>2, <2>3, <2>4 DEF GapInv
<1> QED
  BY <1>7, <1>12, <1>13 DEF IInv

-----------------------------------------------------------------------------
(* The WebSocket handler *)

\* Sending does not change what the page has still to get.
LEMMA SendInv == IInv /\ Send => IInv'
<1> SUFFICES ASSUME IInv, Send PROVE IInv'
  OBVIOUS
<1>1. TypeOK /\ OrderInv /\ HistoryInv /\ PageInv /\ LoadInv /\ GapInv
  BY DEF IInv, OrderInv
<1>2. /\ stream' = stream /\ sequence' = sequence /\ history' = history /\ sub' = sub
      /\ page' = page /\ load' = load /\ resetReply' = resetReply /\ overtaken' = overtaken
      /\ published' = published /\ closes' = closes
  BY DEF Send
<1>3. /\ Subscribed /\ socket.out # <<>> /\ wire' = Append(wire, Head(socket.out))
      /\ socket' = [socket EXCEPT !.out = Tail(socket.out)] /\ socket \in Sockets
      /\ wire \in Seq(Msg) /\ socket.out \in Seq(Msg)
  BY <1>1, FieldTypes DEF Send, TypeOK
<1>4. /\ Head(socket.out) \in Msg /\ Tail(socket.out) \in Seq(Msg)
      /\ wire' \in Seq(Msg)
  <2>1. Head(socket.out) \in Msg /\ Tail(socket.out) \in Seq(Msg)
    BY <1>3, Removing
  <2> QED
    BY <1>3, <2>1, Appending
<1>5. /\ socket'.out = Tail(socket.out) /\ socket'.phase = socket.phase
      /\ socket'.sentStream = socket.sentStream /\ socket'.sentSeq = socket.sentSeq
      /\ socket'.after = socket.after /\ socket'.asked = socket.asked /\ socket' \in Sockets
  BY <1>3, <1>4 DEF Sockets
<1>6. Backlog' = Backlog /\ Subscribed' = Subscribed /\ Evicted' = Evicted
  BY <1>2, <1>3, <1>5, Moving DEF Backlog, Subscribed, Evicted
<1>7. TypeOK'
  BY <1>1, <1>2, <1>4, <1>5 DEF TypeOK
<1>8. HistoryInv' /\ PageInv' /\ LoadInv'
  BY <1>1, <1>2 DEF HistoryInv, PageInv, LoadInv, Piece, Evicted
<1>9. OpenInv'
  <2>1. QueueInv /\ SentInv /\ BacklogOrdered
    BY <1>1, <1>3 DEF OrderInv, OpenInv
  <2>2. QueueInv'
    BY <1>2, <2>1 DEF QueueInv, Entry
  <2>3. SentInv'
    BY <1>2, <1>5, <1>6, <2>1 DEF SentInv, SentUpTo
  <2>4. BacklogOrdered'
    BY <1>2, <1>5, <1>6, <2>1 DEF BacklogOrdered, Later, IsEvent
  <2> QED
    BY <2>2, <2>3, <2>4 DEF OpenInv
<1>10. OrderInv'
  BY <1>3, <1>5, <1>6, <1>8, <1>9 DEF OrderInv, Subscribed
<1>11. GapInv'
  <2>1. ShownInv => ShownInv'
    BY <1>2, <1>6 DEF ShownInv, Full
  <2>2. CoveredInv => CoveredInv'
    BY <1>2, <1>6 DEF CoveredInv, AtPlace, PageReady, Follows, Known, KnownLoss, Full,
       Upcoming, NoticeDue, IsEvent
  <2> QED
    BY <1>1, <1>2, <1>3, <1>5, <1>6, <2>1, <2>2 DEF GapInv, Subscribed
<1> QED
  BY <1>7, <1>10, <1>11 DEF IInv


\* What subscription.next() returns and leaves: a drop notice that is due, or
\* the oldest entry of the queue.
NoticeTaken ==
    /\ NoticeDue /\ Len(sub.queue) <= sequence
    /\ NextItem.message = Message("dropped", stream, 0)
    /\ NextItem.left.queue = sub.queue
    /\ NextItem.left.dropped = 0 /\ NextItem.left.noticeLast = TRUE
EntryTaken ==
    /\ ~NoticeDue /\ sub.queue # <<>> /\ Upcoming \in Nat
    /\ NextItem.message = Entry(Upcoming)
    /\ NextItem.left.queue = Tail(sub.queue)
    /\ NextItem.left.noticeLast = FALSE

\* It is one of the two, and of the current stream.
LEMMA TakenIs ==
    ASSUME TypeOK, QueueInv, HasNext
    PROVE  /\ NextItem.message \in Msg /\ NextItem.message.stream = stream
           /\ NextItem.left \in Subscriptions /\ NextItem.left.stream = stream
           /\ NoticeTaken \/ EntryTaken
<1> DEFINE q == sub.queue
           L == Len(q)
<1>1. /\ sequence \in Nat /\ stream \in Nat \ {0} /\ L \in Nat /\ q \in Seq(Msg)
      /\ sub \in Subscriptions /\ sub.dropped \in Nat /\ sub.noticeLast \in BOOLEAN
      /\ DOMAIN q = 1 .. L
  BY FieldTypes, BacklogTypes DEF TypeOK
<1>2. /\ sub.stream = stream /\ L <= sequence + 1
      /\ L = sequence + 1 => sub.dropped = 0 /\ ~sub.noticeLast
      /\ \A k \in DOMAIN q : q[k] = Entry(sequence - L + k)
  BY DEF QueueInv
<1>3. CASE NoticeDue
  <2>1. NextItem = [message |-> Message("dropped", stream, 0),
                    left |-> [sub EXCEPT !.dropped = 0, !.noticeLast = TRUE]]
    BY <1>2, <1>3 DEF NextItem, NoticeDue
  <2>2. Message("dropped", stream, 0) \in Msg /\ Message("dropped", stream, 0).stream = stream
    BY <1>1 DEF Msg, Message
  <2>3. /\ [sub EXCEPT !.dropped = 0, !.noticeLast = TRUE] \in Subscriptions
        /\ [sub EXCEPT !.dropped = 0, !.noticeLast = TRUE].queue = q
        /\ [sub EXCEPT !.dropped = 0, !.noticeLast = TRUE].stream = sub.stream
        /\ [sub EXCEPT !.dropped = 0, !.noticeLast = TRUE].dropped = 0
        /\ [sub EXCEPT !.dropped = 0, !.noticeLast = TRUE].noticeLast = TRUE
    BY <1>1 DEF Subscriptions
  <2>4. L <= sequence
    <3>1. sub.dropped # 0
      BY <1>3 DEF NoticeDue
    <3> HIDE DEF L, q
    <3> QED
      BY <1>1, <1>2, <3>1
  <2> QED
    BY <1>2, <1>3, <2>1, <2>2, <2>3, <2>4 DEF NoticeTaken
<1>4. CASE ~NoticeDue
  <2>1. q # <<>>
    BY <1>4 DEF HasNext, NoticeDue
  <2>2. NextItem = [message |-> Head(q),
                    left |-> [sub EXCEPT !.queue = Tail(q), !.noticeLast = FALSE]]
    BY <1>4 DEF NextItem, NoticeDue
  <2>3. Head(q) \in Msg /\ Head(q) = q[1] /\ Tail(q) \in Seq(Msg) /\ L >= 1
    BY <1>1, <2>1, Removing
  <2>4. Head(q) = Entry(Upcoming)
    <3>1. 1 \in DOMAIN q
      BY <1>1, <2>3
    <3> QED
      BY <1>2, <2>3, <3>1 DEF Upcoming
  <2>5. Upcoming \in Nat
    BY <1>1, <1>2 DEF Upcoming
  <2>6. Entry(Upcoming).stream = stream
    BY DEF Entry, Message
  <2> HIDE DEF q
  <2>7. /\ [sub EXCEPT !.queue = Tail(q), !.noticeLast = FALSE] \in Subscriptions
        /\ [sub EXCEPT !.queue = Tail(q), !.noticeLast = FALSE].queue = Tail(q)
        /\ [sub EXCEPT !.queue = Tail(q), !.noticeLast = FALSE].stream = sub.stream
        /\ [sub EXCEPT !.queue = Tail(q), !.noticeLast = FALSE].noticeLast = FALSE
    BY <1>1, <2>3 DEF Subscriptions
  <2> QED
    BY <1>2, <1>4, <2>1, <2>2, <2>3, <2>4, <2>5, <2>6, <2>7 DEF EntryTaken, q
<1> QED
  BY <1>3, <1>4

\* The sequence last sent, of the current stream, is before the queue.
LEMMA SentIsBefore ==
    ASSUME TypeOK, QueueInv, SentInv, HasNext
    PROVE  LET m == NextItem.message
               sent == IF m.stream # socket.sentStream THEN 0 ELSE socket.sentSeq
           IN  /\ sent \in Nat /\ m.seq \in Nat /\ Max({sent, m.seq}) \in Nat
               /\ ~(m.seq > 0 /\ m.seq <= sent)
               /\ Max({sent, m.seq}) >= sent /\ Max({sent, m.seq}) >= m.seq
               /\ Max({sent, m.seq}) <= sequence - Len(NextItem.left.queue)
               /\ \A s \in Nat, n \in Nat : SentUpTo(s, n) =>
                    /\ s <= stream /\ (s = stream => n <= sent)
<1> DEFINE m == NextItem.message
           sent == IF m.stream # socket.sentStream THEN 0 ELSE socket.sentSeq
           L == Len(sub.queue)
           R == Len(NextItem.left.queue)
<1>1. /\ m \in Msg /\ m.stream = stream /\ (NoticeTaken \/ EntryTaken)
  BY TakenIs
<1>2. /\ sequence \in Nat /\ stream \in Nat \ {0} /\ L \in Nat
      /\ socket.sentStream \in Nat /\ socket.sentSeq \in Nat
      /\ L <= sequence + 1
  BY FieldTypes, BacklogTypes DEF QueueInv
<1>3. /\ socket.sentStream <= stream
      /\ socket.sentStream = stream => socket.sentSeq <= sequence - L
  BY DEF SentInv
<1>4. \/ m.seq = 0 /\ R = L /\ L <= sequence
      \/ m.seq = sequence - L + 1 /\ R = L - 1
  <2>1. CASE NoticeTaken
    BY <2>1 DEF NoticeTaken, Message
  <2>2. CASE EntryTaken
    <3>1. m.seq = Upcoming
      BY <2>2 DEF EntryTaken, Entry, Message
    <3>2. sub.queue \in Seq(Msg) /\ sub.queue # <<>>
      BY <2>2, BacklogTypes DEF EntryTaken
    <3>3. R = L - 1
      BY <2>2, <3>2, Removing DEF EntryTaken
    <3> QED
      BY <3>1, <3>3 DEF Upcoming
  <2> QED
    BY <1>1, <2>1, <2>2
<1>5. sent = IF stream # socket.sentStream THEN 0 ELSE socket.sentSeq
  BY <1>1
<1>6. m.seq \in Nat
  BY <1>1 DEF Msg
<1> HIDE DEF m, sent, L, R
<1>7. sent \in Nat
  BY <1>2, <1>5
<1>8. Max({sent, m.seq}) = IF sent > m.seq THEN sent ELSE m.seq
  <2> DEFINE x == IF sent > m.seq THEN sent ELSE m.seq
  <2>1. {sent, m.seq} \in SUBSET Int /\ x \in {sent, m.seq} /\ \A y \in {sent, m.seq} : x >= y
    BY <1>6, <1>7
  <2> QED
    BY <2>1, MaxIs
<1>9. ~(m.seq > 0 /\ m.seq <= sent)
  BY <1>2, <1>3, <1>4, <1>5, <1>6
<1>10. Max({sent, m.seq}) <= sequence - R
  BY <1>2, <1>3, <1>4, <1>5, <1>6, <1>8
<1>11. ASSUME NEW s \in Nat, NEW n \in Nat, SentUpTo(s, n)
       PROVE  s <= stream /\ (s = stream => n <= sent)
  <2>1. s <= socket.sentStream /\ (s = socket.sentStream => n <= socket.sentSeq)
    BY <1>11 DEF SentUpTo
  <2> QED
    BY <1>2, <1>3, <1>5, <2>1
<1>12. Max({sent, m.seq}) \in Nat /\ Max({sent, m.seq}) >= sent /\ Max({sent, m.seq}) >= m.seq
  BY <1>6, <1>7, <1>8
<1> QED
  BY <1>6, <1>7, <1>9, <1>10, <1>11, <1>12 DEF m, sent, R


\* A turn of the handler's loop: what is taken is new, as the queue only has
\* what is beyond the sequence last sent, and continues the backlog.
LEMMA FollowInv == IInv /\ Follow => IInv'
<1> SUFFICES ASSUME IInv, Follow PROVE IInv'
  OBVIOUS
<1>1. /\ TypeOK /\ OrderInv /\ HistoryInv /\ PageInv /\ LoadInv /\ GapInv
      /\ Subscribed /\ HasNext /\ QueueInv /\ SentInv /\ BacklogOrdered
  BY DEF IInv, OrderInv, OpenInv, Follow
<1>2. /\ stream' = stream /\ sequence' = sequence /\ history' = history /\ wire' = wire
      /\ page' = page /\ load' = load /\ resetReply' = resetReply /\ overtaken' = overtaken
      /\ published' = published /\ closes' = closes
  BY DEF Follow
<1> DEFINE m == NextItem.message
           sent == IF m.stream # socket.sentStream THEN 0 ELSE socket.sentSeq
           top == Max({sent, m.seq})
           N == Len(Backlog)
<1>3. /\ socket.out = <<>> /\ sub' = NextItem.left
      /\ socket' = [socket EXCEPT !.sentStream = m.stream, !.sentSeq = top,
                      !.out = IF m.seq > 0 /\ m.seq <= sent THEN <<>> ELSE <<m>>]
  BY DEF Follow
<1>4. /\ m \in Msg /\ m.stream = stream /\ (NoticeTaken \/ EntryTaken)
      /\ sub' \in Subscriptions /\ sub'.stream = stream
  BY <1>1, <1>3, TakenIs
<1>5. /\ sent \in Nat /\ m.seq \in Nat /\ top \in Nat
      /\ ~(m.seq > 0 /\ m.seq <= sent)
      /\ top >= sent /\ top >= m.seq
      /\ top <= sequence - Len(sub'.queue)
      /\ \A s \in Nat, n \in Nat : SentUpTo(s, n) =>
           /\ s <= stream /\ (s = stream => n <= sent)
  BY <1>1, <1>3, SentIsBefore
<1> HIDE DEF m, sent, top
<1>6. <<m>> \in Seq(Msg) /\ Len(<<m>>) = 1 /\ <<m>>[1] = m
  BY <1>4
<1>7. /\ socket'.out = <<m>> /\ socket'.phase = socket.phase
      /\ socket'.sentStream = stream /\ socket'.sentSeq = top
      /\ socket'.after = socket.after /\ socket'.asked = socket.asked /\ socket' \in Sockets
  <2> DEFINE o == <<m>>
  <2>1. o \in Seq(Msg)
    BY <1>6
  <2> HIDE DEF o
  <2>2. socket' = [socket EXCEPT !.sentStream = stream, !.sentSeq = top, !.out = o]
    BY <1>3, <1>4, <1>5 DEF o
  <2>3. socket \in Sockets /\ stream \in Nat
    BY <1>1 DEF TypeOK
  <2>4. socket'.out = o /\ socket' \in Sockets
    BY <1>5, <2>1, <2>2, <2>3 DEF Sockets
  <2>5. /\ socket'.phase = socket.phase /\ socket'.sentStream = stream
        /\ socket'.sentSeq = top
        /\ socket'.after = socket.after /\ socket'.asked = socket.asked
    BY <2>2, <2>3 DEF Sockets
  <2> QED
    BY <2>4, <2>5 DEF o
<1>8. /\ Backlog' \in Seq(Msg) /\ N \in Nat
      /\ Len(Backlog') = N + 1 /\ DOMAIN Backlog' = 1 .. N + 1
      /\ DOMAIN Backlog = 1 .. N
      /\ \A i \in 1 .. N : Backlog'[i] = Backlog[i]
      /\ Backlog'[N + 1] = m
  <2>1. wire \in Seq(Msg)
    BY <1>1, FieldTypes
  <2>2. Backlog = wire /\ Backlog' = wire \o <<m>>
    BY <1>2, <1>3, <1>7, <2>1, ConcatEmptySeq DEF Backlog
  <2>3. wire \o <<m>> = Append(wire, m)
    BY <1>4, <2>1, AppendIsConcat
  <2> QED
    BY <1>4, <2>1, <2>2, <2>3, Appending
<1> HIDE DEF N
<1>9. Subscribed' /\ Evicted' = Evicted
  BY <1>1, <1>2, <1>7 DEF Subscribed, Evicted
<1>10. TypeOK'
  BY <1>1, <1>2, <1>4, <1>7 DEF TypeOK
<1>11. HistoryInv' /\ PageInv' /\ LoadInv'
  BY <1>1, <1>2 DEF HistoryInv, PageInv, LoadInv, Piece, Evicted
<1>12. \A n : Entry(n)' = Entry(n)
  BY <1>2 DEF Entry, Message
<1>13. sequence \in Nat /\ Len(sub.queue) \in Nat /\ sub.queue \in Seq(Msg)
  BY <1>1, FieldTypes, BacklogTypes
<1>14. QueueInv'
  <2>1. CASE NoticeTaken
    <3>1. /\ sub'.queue = sub.queue /\ sub'.dropped = 0 /\ Len(sub.queue) <= sequence
      BY <1>3, <2>1 DEF NoticeTaken
    <3>2. Len(sub.queue) # sequence + 1
      BY <1>13, <3>1
    <3> QED
      BY <1>1, <1>2, <1>4, <1>12, <3>1, <3>2 DEF QueueInv
  <2>2. CASE EntryTaken
    <3> DEFINE L == Len(sub.queue)
               t == sub'.queue
    <3>1. t = Tail(sub.queue) /\ sub.queue # <<>>
      BY <1>3, <2>2 DEF EntryTaken
    <3>2. /\ DOMAIN sub.queue = 1 .. L /\ L \in Nat \ {0}
          /\ Len(t) = L - 1 /\ DOMAIN t = 1 .. L - 1
          /\ \A i \in 1 .. L - 1 : t[i] = sub.queue[i + 1]
      BY <1>13, <3>1, Removing
    <3>3. /\ L <= sequence + 1
          /\ \A k \in DOMAIN sub.queue : sub.queue[k] = Entry(sequence - L + k)
      BY <1>1 DEF QueueInv
    <3> HIDE DEF L, t
    <3>4. ASSUME NEW k \in DOMAIN t PROVE t[k] = Entry(sequence - Len(t) + k)
      <4>1. /\ k \in 1 .. L - 1 /\ k + 1 \in DOMAIN sub.queue
            /\ sequence - L + (k + 1) = sequence - Len(t) + k
        BY <1>13, <3>2
      <4> QED
        BY <3>2, <3>3, <4>1
    <3>5. Len(t) <= sequence + 1 /\ Len(t) # sequence + 1
      BY <1>13, <3>2, <3>3
    <3> QED
      BY <1>2, <1>4, <1>12, <3>4, <3>5 DEF QueueInv, t
  <2> QED
    BY <1>4, <2>1, <2>2
<1>15. ASSUME NEW s \in Nat, NEW n \in Nat, SentUpTo(s, n)
       PROVE  SentUpTo(s, n)' /\ (m.seq # 0 => stream > s \/ (s = stream /\ m.seq > n))
  <2>1. s <= stream /\ (s = stream => n <= sent)
    BY <1>5, <1>15
  <2>2. s = stream => n <= top
    BY <1>5, <2>1
  <2>3. stream \in Nat
    BY <1>1 DEF TypeOK
  <2>4. m.seq # 0 => m.seq > sent
    BY <1>5
  <2>5. m.seq # 0 => stream > s \/ (s = stream /\ m.seq > n)
    BY <1>5, <2>1, <2>3, <2>4
  <2>6. s <= socket'.sentStream /\ (s = socket'.sentStream => n <= socket'.sentSeq)
    BY <1>7, <2>1, <2>2
  <2> QED
    BY <2>5, <2>6 DEF SentUpTo
<1>16. /\ socket.asked \in Nat /\ socket.after \in Nat
       /\ page.stream \in Nat /\ page.cursor \in Nat /\ stream \in Nat \ {0}
       /\ \A i \in 1 .. N : Backlog[i].stream \in Nat \ {0} /\ Backlog[i].seq \in Nat
  BY <1>1, <1>8, FieldTypes, BacklogTypes
<1>17. SentInv'
  <2>1. SentUpTo(socket.asked, socket.after)'
    <3>1. SentUpTo(socket.asked, socket.after)
      BY <1>1 DEF SentInv
    <3> QED
      BY <1>7, <1>15, <1>16, <3>1 DEF SentUpTo
  <2>2. (load.state # "done" => SentUpTo(page.stream, page.cursor))'
    <3>1. load.state # "done" => SentUpTo(page.stream, page.cursor)
      BY <1>1 DEF SentInv
    <3> QED
      BY <1>2, <1>15, <1>16, <3>1 DEF SentUpTo
  <2>3. ASSUME NEW i \in DOMAIN Backlog'
        PROVE  SentUpTo(Backlog[i].stream, Backlog[i].seq)'
    <3>1. CASE i = N + 1
      <4>1. Backlog'[i] = m
        BY <1>8, <3>1
      <4>2. stream <= stream /\ m.seq <= top
        BY <1>5, <1>16
      <4> QED
        BY <1>4, <1>7, <4>1, <4>2 DEF SentUpTo
    <3>2. CASE i \in 1 .. N
      <4>1. Backlog'[i] = Backlog[i] /\ SentUpTo(Backlog[i].stream, Backlog[i].seq)
        BY <1>1, <1>8, <3>2 DEF SentInv
      <4>2. Backlog[i].stream \in Nat /\ Backlog[i].seq \in Nat
        BY <1>16, <3>2
      <4> QED
        BY <1>15, <4>1, <4>2 DEF SentUpTo
    <3> QED
      BY <1>8, <3>1, <3>2
  <2>4. socket'.sentStream \in 1 .. stream'
    BY <1>2, <1>7, <1>16
  <2>5. socket'.sentSeq <= sequence' - Len(sub'.queue)
    BY <1>2, <1>5, <1>7
  <2> QED
    BY <2>1, <2>2, <2>3, <2>4, <2>5 DEF SentInv
<1>18. BacklogOrdered'
  <2> SUFFICES ASSUME NEW i \in 1 .. N + 1, IsEvent(Backlog'[i])
               PROVE  /\ \A j \in 1 .. i - 1 :
                           IsEvent(Backlog'[j]) => Later(Backlog'[i], Backlog'[j])
                      /\ Backlog'[i].stream = socket.asked => Backlog'[i].seq > socket.after
                      /\ (load.state # "done" /\ Backlog'[i].stream = page.stream)
                           => Backlog'[i].seq > page.cursor
    BY <1>2, <1>7, <1>8 DEF BacklogOrdered, IsEvent, Later
  <2>1. CASE i = N + 1
    <3>1. Backlog'[i] = m /\ m.seq # 0
      BY <1>4, <1>8, <2>1 DEF IsEvent, Msg
    <3>2. ASSUME NEW j \in 1 .. i - 1 PROVE Later(m, Backlog'[j])
      <4>1. j \in 1 .. N
        BY <1>8, <2>1
      <4>2. Backlog'[j] = Backlog[j] /\ SentUpTo(Backlog[j].stream, Backlog[j].seq)
        BY <1>1, <1>8, <4>1 DEF SentInv
      <4>3. Backlog[j].stream \in Nat /\ Backlog[j].seq \in Nat
        BY <1>16, <4>1
      <4> QED
        BY <1>4, <1>15, <3>1, <4>2, <4>3 DEF Later
    <3>3. stream = socket.asked => m.seq > socket.after
      <4>1. SentUpTo(socket.asked, socket.after)
        BY <1>1 DEF SentInv
      <4> QED
        BY <1>15, <1>16, <3>1, <4>1
    <3>4. load.state # "done" /\ stream = page.stream => m.seq > page.cursor
      <4>1. load.state # "done" => SentUpTo(page.stream, page.cursor)
        BY <1>1 DEF SentInv
      <4> QED
        BY <1>15, <1>16, <3>1, <4>1
    <3> QED
      BY <1>4, <3>1, <3>2, <3>3, <3>4
  <2>2. CASE i \in 1 .. N
    <3>1. \A j \in 1 .. i - 1 : Backlog'[j] = Backlog[j]
      <4> SUFFICES ASSUME NEW j \in 1 .. i - 1 PROVE Backlog'[j] = Backlog[j]
        OBVIOUS
      <4>1. j \in 1 .. N
        BY <1>8, <2>2
      <4> QED
        BY <1>8, <4>1
    <3>2. Backlog'[i] = Backlog[i] /\ i \in DOMAIN Backlog
      BY <1>8, <2>2
    <3> QED
      BY <1>1, <3>1, <3>2 DEF BacklogOrdered
  <2> QED
    BY <1>8, <2>1, <2>2
<1>19. OrderInv'
  BY <1>9, <1>11, <1>14, <1>17, <1>18 DEF OrderInv, OpenInv, Subscribed
<1>20. GapInv'
  <2> SUFFICES ASSUME ~overtaken PROVE ShownInv' /\ CoveredInv'
    BY <1>2, <1>9 DEF GapInv, Subscribed
  <2>1. ShownInv /\ CoveredInv
    BY <1>1 DEF GapInv
  <2>2. ShownInv'
    BY <1>2, <1>9, <2>1 DEF ShownInv, Full
  <2>3. ASSUME NEW i \in 1 .. N + 1, NEW s, NEW n, AtPlace(i, s, n)
        PROVE  AtPlace(i, s, n)'
    <3>1. CASE i = 1
      BY <1>2, <1>9, <2>3, <3>1 DEF AtPlace, PageReady, Known, KnownLoss, Full
    <3>2. CASE i # 1
      <4>1. i - 1 \in 1 .. N
        BY <1>8, <3>2
      <4>2. Backlog'[i - 1] = Backlog[i - 1]
        BY <1>8, <4>1
      <4> QED
        BY <1>2, <1>9, <2>3, <3>2, <4>2 DEF AtPlace, Follows
    <3> QED
      BY <3>1, <3>2
  <2>4. ASSUME IsEvent(m) PROVE AtPlace(N + 1, stream, m.seq)
    <3>1. EntryTaken
      BY <1>4, <2>4 DEF NoticeTaken, IsEvent, Message, m
    <3>2. m.seq = Upcoming /\ m.seq # 0 /\ ~NoticeDue
      BY <1>4, <2>4, <3>1 DEF EntryTaken, Entry, Message, IsEvent, Msg, m
    <3> QED
      BY <2>1, <3>2 DEF CoveredInv, N
  <2>5. ASSUME NEW i \in DOMAIN Backlog', IsEvent(Backlog[i])'
        PROVE  AtPlace(i, Backlog[i].stream, Backlog[i].seq)'
    <3>1. CASE i = N + 1
      <4>1. i \in 1 .. N + 1 /\ Backlog'[i] = m
        BY <1>8, <3>1
      <4>2. AtPlace(i, stream, m.seq)
        BY <2>4, <2>5, <3>1, <4>1 DEF IsEvent
      <4> QED
        BY <1>4, <2>3, <4>1, <4>2
    <3>2. CASE i \in 1 .. N
      <4>1. i \in 1 .. N + 1 /\ Backlog'[i] = Backlog[i] /\ i \in DOMAIN Backlog
        BY <1>8, <3>2
      <4>2. AtPlace(i, Backlog[i].stream, Backlog[i].seq)
        BY <2>1, <2>5, <4>1 DEF CoveredInv, IsEvent
      <4> QED
        BY <2>3, <4>1, <4>2
    <3> QED
      BY <1>8, <3>1, <3>2
  <2>6. N + 2 # 1 /\ N + 2 - 1 = N + 1 /\ Len(Backlog') + 1 = N + 2
    BY <1>8
  <2>7. m.stream = stream' /\ (m.seq = Upcoming' - 1 \/ m.kind = "dropped")
    <3>1. CASE NoticeTaken
      <4>1. m.kind = "dropped"
        BY <3>1 DEF NoticeTaken, Message, m
      <4> QED
        BY <1>2, <1>4, <4>1
    <3>2. CASE EntryTaken
      <4>1. m.seq = Upcoming /\ sub'.queue = Tail(sub.queue) /\ sub.queue # <<>>
        BY <1>3, <3>2 DEF EntryTaken, Entry, Message, m
      <4>2. Len(sub'.queue) = Len(sub.queue) - 1
        BY <1>13, <4>1, Removing
      <4>3. m.seq = Upcoming' - 1
        <5>1. Upcoming' = sequence - Len(sub'.queue) + 1
          BY <1>2 DEF Upcoming
        <5>2. m.seq = sequence - Len(sub.queue) + 1
          BY <4>1 DEF Upcoming
        <5> HIDE DEF Upcoming
        <5> QED
          BY <1>13, <4>2, <5>1, <5>2
      <4> QED
        BY <1>2, <1>4, <4>3
    <3> QED
      BY <1>4, <3>1, <3>2
  <2>8. AtPlace(Len(Backlog) + 1, stream, Upcoming)'
    BY <1>8, <2>6, <2>7 DEF AtPlace, Follows
  <2>9. sub'.noticeLast => /\ Backlog' # <<>> /\ Backlog'[Len(Backlog')].stream = stream'
                           /\ Backlog'[Len(Backlog')].kind = "dropped"
    <3>1. CASE NoticeTaken
      <4>1. m.kind = "dropped"
        BY <3>1 DEF NoticeTaken, Message, m
      <4>2. Backlog' # <<>>
        BY <1>8, EmptySeq
      <4> QED
        BY <1>2, <1>4, <1>8, <4>1, <4>2
    <3>2. CASE EntryTaken
      BY <1>3, <3>2 DEF EntryTaken
    <3> QED
      BY <1>4, <3>1, <3>2
  <2>10. CoveredInv'
    BY <2>5, <2>8, <2>9 DEF CoveredInv, IsEvent
  <2> QED
    BY <2>2, <2>10
<1> QED
  BY <1>10, <1>19, <1>20 DEF IInv


\* The replay starts where the page stopped, or behind a notice, and ends where
\* the new subscription begins.
LEMMA AcceptInv == IInv /\ Accept => IInv'
<1> SUFFICES ASSUME IInv, Accept PROVE IInv'
  OBVIOUS
<1>1. /\ TypeOK /\ OrderInv /\ HistoryInv /\ PageInv /\ LoadInv /\ GapInv
      /\ socket.phase = "connecting" /\ ConnectingInv /\ wire = <<>>
  BY DEF IInv, OrderInv, Accept, Subscribed
<1>2. /\ stream' = stream /\ sequence' = sequence /\ history' = history /\ wire' = wire
      /\ page' = page /\ load' = load /\ resetReply' = resetReply /\ overtaken' = overtaken
      /\ published' = published /\ closes' = closes
  BY DEF Accept
<1> DEFINE after == socket.after
           asked == socket.asked
           H == Len(history)
           r == Replay(HistoryPage(after, PageLimit, asked))
           from == From(after, asked)
           b == Base(from)
           z == Notices(after, asked)
<1>3. /\ stream \in Nat \ {0} /\ sequence \in Nat /\ after \in Nat /\ asked \in Nat
      /\ H \in Nat /\ H <= sequence /\ page.stream \in Nat /\ page.cursor \in Nat
  BY <1>1, FieldTypes DEF HistoryInv
<1>4. /\ asked <= stream /\ (asked = stream => after <= sequence)
      /\ asked = Unknown => after = 0
      /\ load.state # "done" =>
           page.stream = Unknown \/ (page.stream = asked /\ page.cursor = after)
  BY <1>1 DEF ConnectingInv
<1>5. /\ from \in 0 .. sequence /\ b \in 0 .. sequence /\ z \in {0, 1}
      /\ r \in Seq(Msg) /\ Len(r) = z + (sequence - b)
      /\ z = 1 => r[1] = Message(IF Changed(asked) THEN "reset" ELSE "gap", stream, 0)
      /\ \A k \in 1 .. sequence - b : r[z + k] = Message("event", stream, b + k)
  BY <1>1, <1>3, <1>4, ReplayIs
<1>6. /\ b = IF from > sequence - H THEN from ELSE sequence - H
      /\ Changed(asked) => from = 0
      /\ ~Changed(asked) => from = after
  BY DEF Base, From
<1>7. /\ Changed(asked) <=> asked # 0 /\ asked # stream
      /\ z = 1 <=> Changed(asked) \/ (after > 0 /\ after < sequence - H)
  BY DEF Changed, Notices, Gap, Unknown
<1>8. /\ sub' = [queue |-> <<>>, stream |-> stream, dropped |-> 0, noticeLast |-> FALSE]
      /\ socket' = [socket EXCEPT !.phase = "open", !.out = r, !.sentStream = stream,
                                  !.sentSeq = sequence]
  BY DEF Accept, NewSubscription, HistoryPage
<1> HIDE DEF after, asked, r, from, b, z, H
<1>9. /\ sub'.queue = <<>> /\ sub'.stream = stream /\ sub'.noticeLast = FALSE
      /\ sub' \in Subscriptions
  <2>1. <<>> \in Seq(Msg) /\ stream \in Nat
    BY <1>3, EmptySeq
  <2> QED
    BY <1>8, <2>1 DEF Subscriptions
<1>10. /\ socket'.phase = "open" /\ socket'.out = r /\ socket'.sentStream = stream
       /\ socket'.sentSeq = sequence /\ socket'.after = after /\ socket'.asked = asked
       /\ socket' \in Sockets
  <2>1. socket \in Sockets
    BY <1>1 DEF TypeOK
  <2> QED
    BY <1>3, <1>5, <1>8, <2>1 DEF Sockets, after, asked
<1>11. Len(sub'.queue) = 0 /\ DOMAIN sub'.queue = {}
  BY <1>9, EmptySeq
<1>12. /\ Backlog' = r /\ Subscribed' /\ Evicted' = Evicted
  BY <1>1, <1>2, <1>5, <1>10, ConcatEmptySeq DEF Backlog, Subscribed, Evicted
<1>13. TypeOK'
  BY <1>1, <1>2, <1>9, <1>10 DEF TypeOK
<1>14. HistoryInv' /\ PageInv' /\ LoadInv'
  BY <1>1, <1>2 DEF HistoryInv, PageInv, LoadInv, Piece, Evicted
<1>15. DOMAIN r = 1 .. z + (sequence - b)
  BY <1>5, LenProperties
<1>16. ASSUME NEW i \in DOMAIN r
       PROVE  /\ r[i].stream = stream /\ r[i].seq \in 0 .. sequence
              /\ r[i].kind = "event" => i - z \in 1 .. sequence - b /\ r[i].seq = b + (i - z)
  <2>1. CASE z = 1 /\ i = 1
    BY <1>3, <1>5, <2>1 DEF Message
  <2>2. CASE i - z \in 1 .. sequence - b
    <3> DEFINE k == i - z
    <3>1. k \in 1 .. sequence - b /\ i = z + k
      BY <1>3, <1>5, <1>15, <2>2
    <3> HIDE DEF k
    <3>2. r[i] = Message("event", stream, b + k)
      BY <1>5, <3>1
    <3>3. b + k \in 0 .. sequence
      BY <1>3, <1>5, <3>1
    <3>4. r[i].stream = stream /\ r[i].seq = b + k
      BY <3>2 DEF Message
    <3> QED
      BY <3>1, <3>3, <3>4 DEF k
  <2> QED
    BY <1>3, <1>5, <1>15, <2>1, <2>2
<1>17. QueueInv'
  <2>1. 0 <= sequence + 1 /\ 0 # sequence + 1
    BY <1>3
  <2> QED
    BY <1>2, <1>9, <1>11, <2>1 DEF QueueInv
<1>18. SentInv'
  <2>1. SentUpTo(socket.asked, socket.after)'
    BY <1>4, <1>10 DEF SentUpTo
  <2>2. (load.state # "done" => SentUpTo(page.stream, page.cursor))'
    BY <1>1, <1>2, <1>10 DEF SentUpTo, PageInv
  <2>3. ASSUME NEW i \in DOMAIN Backlog' PROVE SentUpTo(Backlog[i].stream, Backlog[i].seq)'
    <3>1. Backlog'[i].stream = stream /\ Backlog'[i].seq <= sequence
      BY <1>3, <1>12, <1>16
    <3>2. stream <= stream
      BY <1>3
    <3> QED
      BY <1>10, <3>1, <3>2 DEF SentUpTo
  <2>4. /\ socket'.sentStream \in 1 .. stream'
        /\ socket'.sentSeq <= sequence' - Len(sub'.queue)
    BY <1>2, <1>3, <1>10, <1>11
  <2> QED
    BY <2>1, <2>2, <2>3, <2>4 DEF SentInv
<1>19. BacklogOrdered'
  <2> SUFFICES ASSUME NEW i \in DOMAIN r, r[i].kind = "event"
               PROVE  /\ \A j \in 1 .. i - 1 : r[j].kind = "event" => Later(r[i], r[j])
                      /\ r[i].stream = asked => r[i].seq > after
                      /\ (load.state # "done" /\ r[i].stream = page.stream)
                           => r[i].seq > page.cursor
    BY <1>2, <1>10, <1>12 DEF BacklogOrdered, IsEvent, Later
  <2>1. r[i].stream = stream /\ i - z \in 1 .. sequence - b /\ r[i].seq = b + (i - z)
    BY <1>16
  <2>2. ASSUME NEW j \in 1 .. i - 1, r[j].kind = "event" PROVE Later(r[i], r[j])
    <3>1. j \in DOMAIN r
      BY <1>3, <1>5, <1>15
    <3>2. r[j].stream = stream /\ r[j].seq = b + (j - z)
      BY <1>16, <2>2, <3>1
    <3>3. b + (i - z) > b + (j - z)
      BY <1>3, <1>5, <1>15
    <3> QED
      BY <2>1, <3>2, <3>3 DEF Later
  <2>3. ASSUME stream = asked PROVE r[i].seq > after
    <3>1. b >= after
      BY <1>3, <1>5, <1>6, <1>7, <2>3
    <3> QED
      BY <1>3, <1>5, <2>1, <3>1
  <2>4. ASSUME load.state # "done", stream = page.stream PROVE r[i].seq > page.cursor
    <3>1. page.stream = asked /\ page.cursor = after
      BY <1>3, <1>4, <2>4 DEF Unknown
    <3> QED
      BY <2>3, <2>4, <3>1
  <2> QED
    BY <2>1, <2>2, <2>3, <2>4
<1>20. OrderInv'
  BY <1>10, <1>12, <1>14, <1>17, <1>18, <1>19 DEF OrderInv, OpenInv
<1>21. GapInv'
  <2> SUFFICES ASSUME ~overtaken PROVE ShownInv' /\ CoveredInv'
    BY <1>2, <1>10 DEF GapInv
  <2>1. ShownInv /\ CursorKept
    BY <1>1 DEF GapInv
  <2>2. ShownInv'
    BY <1>2, <1>12, <2>1 DEF ShownInv, Full
  <2>3. Evicted <=> sequence - H > 0
    BY <1>3 DEF Evicted, H
  <2>4. ASSUME NEW i \in Int, NEW n \in Int, i = z + 1, n = b + 1
        PROVE  AtPlace(i, stream, n)'
    <3>1. CASE z = 1
      <4>1. /\ Backlog'[1].stream = stream /\ Backlog'[1].seq = 0
            /\ Backlog'[1].kind = IF Changed(asked) THEN "reset" ELSE "gap"
        BY <1>5, <1>12, <3>1 DEF Message
      <4>2. Changed(asked) => b + 1 - 1 = 0 \/ Evicted
        BY <1>3, <1>5, <1>6, <2>3
      <4>3. 0 = b + 1 - 1 \/ Backlog'[1].kind = "gap" \/ (Backlog'[1].kind = "reset" /\ Evicted')
        BY <1>12, <4>1, <4>2
      <4>4. i # 1 /\ i - 1 = 1 /\ n - 1 = b + 1 - 1
        BY <1>3, <1>5, <2>4, <3>1
      <4>5. /\ Backlog'[i - 1].stream = stream'
            /\ \/ Backlog'[i - 1].seq = n - 1 \/ Backlog'[i - 1].kind = "gap"
               \/ Backlog'[i - 1].kind = "reset" /\ Evicted'
        BY <1>2, <4>1, <4>3, <4>4
      <4> QED
        BY <4>4, <4>5 DEF AtPlace, Follows
    <3>2. CASE z = 0
      <4>1. ~Changed(asked) /\ (after = 0 \/ after >= sequence - H) /\ from = after
        BY <1>3, <1>6, <1>7, <3>2
      <4>2. asked = 0 \/ asked = stream
        BY <1>7, <4>1
      <4>3. Known(stream) = after
        <5>1. CASE page.stream = asked /\ page.cursor = after
          BY <1>3, <1>4, <4>2, <5>1 DEF Known, Unknown
        <5>2. CASE page.stream = Unknown /\ (asked = stream => after = 0)
          BY <1>3, <1>4, <4>2, <5>2 DEF Known, Unknown
        <5> QED
          BY <2>1, <5>1, <5>2 DEF CursorKept, after, asked
      <4>4. b + 1 = after + 1 \/ (after = 0 /\ Evicted)
        BY <1>3, <1>6, <2>3, <4>1
      <4>5. PageReady(stream, n)'
        BY <1>2, <1>12, <2>4, <4>3, <4>4 DEF PageReady, Known
      <4> QED
        BY <2>4, <3>2, <4>5 DEF AtPlace
    <3> QED
      BY <1>5, <3>1, <3>2
  <2>5. ASSUME NEW k \in 1 .. sequence - b + 1, NEW i \in Int, NEW n \in Int,
               i = z + k, n = b + k
        PROVE  AtPlace(i, stream, n)'
    <3>1. CASE k = 1
      BY <2>4, <2>5, <3>1
    <3>2. CASE k # 1
      <4>1. k - 1 \in 1 .. sequence - b
        BY <1>3, <1>5, <3>2
      <4>2. r[z + (k - 1)] = Message("event", stream, b + (k - 1))
        BY <1>5, <4>1
      <4>3. /\ i = z + k /\ n = b + k /\ z \in Int /\ b \in Int /\ k \in Int /\ z >= 0
            /\ k > 1
        BY <1>3, <1>5, <2>5, <3>2
      <4>4. i # 1 /\ i - 1 = z + (k - 1) /\ n - 1 = b + (k - 1)
        BY <4>3
      <4>5. Backlog'[i - 1].stream = stream' /\ Backlog'[i - 1].seq = n - 1
        BY <1>2, <1>12, <4>2, <4>4 DEF Message
      <4> QED
        BY <4>4, <4>5 DEF AtPlace, Follows
    <3> QED
      BY <3>1, <3>2
  <2>6. ASSUME NEW i \in DOMAIN Backlog', IsEvent(Backlog[i])'
        PROVE  AtPlace(i, Backlog[i].stream, Backlog[i].seq)'
    <3> DEFINE k == i - z
    <3>1. /\ Backlog'[i].stream = stream /\ k \in 1 .. sequence - b
          /\ Backlog'[i].seq = b + k
      BY <1>12, <1>16, <2>6 DEF IsEvent
    <3>2. k \in 1 .. sequence - b + 1 /\ z + k = i /\ i \in Int /\ b + k \in Int
      BY <1>3, <1>5, <1>12, <1>15, <3>1
    <3> HIDE DEF k
    <3> QED
      BY <1>2, <2>5, <3>1, <3>2
  <2>7. AtPlace(Len(Backlog) + 1, stream, Upcoming)'
    <3> DEFINE k == sequence - b + 1
    <3>1. k \in 1 .. sequence - b + 1 /\ z + k = Len(r) + 1 /\ b + k = sequence + 1
          /\ z + k \in Int /\ b + k \in Int
      BY <1>3, <1>5
    <3>2. Upcoming' = sequence + 1
      BY <1>2, <1>3, <1>11 DEF Upcoming
    <3> HIDE DEF k
    <3> QED
      BY <1>2, <1>12, <2>5, <3>1, <3>2
  <2>8. CoveredInv'
    BY <1>9, <2>6, <2>7 DEF CoveredInv
  <2> QED
    BY <2>2, <2>8
<1> QED
  BY <1>13, <1>20, <1>21 DEF IInv


-----------------------------------------------------------------------------
(* What the page is given *)

\* Once the initial request is done, a page given a piece of a stream keeps the
\* order of what is on its way: only the page changes.
LEMMA LoadApplied ==
    ASSUME IInv, load'.state = "done", load' \in Loads, page' \in Pages, PageInv',
           overtaken' \in BOOLEAN, UNCHANGED <<broker, sub, socket, wire, resetReply, bounds>>
    PROVE  TypeOK' /\ OrderInv'
<1>1. TypeOK /\ OrderInv /\ HistoryInv
  BY DEF IInv, OrderInv
<1>2. /\ stream' = stream /\ sequence' = sequence /\ history' = history /\ sub' = sub
      /\ wire' = wire /\ socket' = socket /\ resetReply' = resetReply
      /\ published' = published /\ closes' = closes
  OBVIOUS
<1>3. Backlog' = Backlog /\ Subscribed' = Subscribed
  BY <1>2 DEF Backlog, Subscribed
<1>4. TypeOK'
  BY <1>1, <1>2 DEF TypeOK
<1>5. HistoryInv' /\ LoadInv'
  BY <1>1, <1>2 DEF HistoryInv, LoadInv
<1>6. ASSUME Subscribed PROVE OpenInv'
  <2>1. QueueInv /\ SentInv /\ BacklogOrdered
    BY <1>1, <1>6 DEF OrderInv, OpenInv
  <2>2. QueueInv'
    BY <1>2, <2>1 DEF QueueInv, Entry
  <2>3. SentInv'
    BY <1>2, <1>3, <2>1 DEF SentInv, SentUpTo
  <2>4. BacklogOrdered'
    BY <1>2, <1>3, <2>1 DEF BacklogOrdered, Later, IsEvent
  <2> QED
    BY <2>2, <2>3, <2>4 DEF OpenInv
<1>7. socket.phase = "connecting" => ConnectingInv'
  BY <1>1, <1>2 DEF OrderInv, ConnectingInv
<1> QED
  BY <1>1, <1>2, <1>3, <1>4, <1>5, <1>6, <1>7 DEF OrderInv

\* As long as nothing was evicted, a page that was not told of a loss has all
\* it has room for of the current stream.
LEMMA KnownIsTop ==
    ASSUME TypeOK, PageInv, ShownInv, ~Evicted, ~KnownLoss(stream)
    PROVE  KnownShown(stream) = Top(Known(stream))
<1>1. CASE page.stream = stream
  BY <1>1 DEF ShownInv, Full, KnownShown, Known, KnownLoss
<1>2. CASE page.stream # stream
  <2>1. Top(0) = {}
    BY DEF Top
  <2> QED
    BY <1>2, <2>1 DEF KnownShown, Known
<1> QED
  BY <1>1, <1>2

\* The answer to the initial request is merged into what the page shows; unless it
\* is overtaken, the two together begin with the stream or the page is empty.
LEMMA ApplyLoadInv == IInv /\ ApplyLoad => IInv'
<1> SUFFICES ASSUME IInv, ApplyLoad PROVE IInv'
  OBVIOUS
<1>1. /\ TypeOK /\ OrderInv /\ HistoryInv /\ PageInv /\ LoadInv /\ GapInv
      /\ load.state = "answered"
  BY DEF IInv, OrderInv, ApplyLoad
<1>2. /\ stream' = stream /\ sequence' = sequence /\ history' = history /\ sub' = sub
      /\ wire' = wire /\ socket' = socket /\ resetReply' = resetReply
      /\ published' = published /\ closes' = closes
  BY DEF ApplyLoad
<1>3. load' \in Loads /\ load'.state = "done"
  <2>1. load \in Loads
    BY <1>1 DEF TypeOK
  <2>2. load' = [load EXCEPT !.state = "done"]
    BY DEF ApplyLoad
  <2> QED
    BY <2>1, <2>2 DEF Loads
<1>4. Backlog' = Backlog /\ Subscribed' = Subscribed /\ Evicted' = Evicted
  BY <1>2 DEF Backlog, Subscribed, Evicted
<1> DEFINE same == load.generation = page.generation
           late == \/ load.stream # stream \/ socket.phase = "connecting"
                   \/ /\ socket.phase # "closed" \/ page.stream # Unknown
                      /\ history # <<>> /\ Head(history) > 1
<1>5. overtaken' = (overtaken \/ (same /\ late)) /\ overtaken' \in BOOLEAN
  BY <1>1 DEF ApplyLoad, TypeOK
<1>6. CASE ~same
  <2>1. page' = page
    BY <1>6 DEF ApplyLoad
  <2>2. page' \in Pages /\ PageInv'
    BY <1>1, <1>2, <2>1 DEF TypeOK, PageInv
  <2>3. TypeOK' /\ OrderInv'
    BY <1>2, <1>3, <1>5, <2>2, LoadApplied
  <2>4. overtaken' = overtaken
    BY <1>1, <1>5, <1>6 DEF TypeOK
  <2>5. ShownInv => ShownInv'
    BY <1>2, <1>4, <2>1 DEF ShownInv, Full
  <2>6. CursorKept => CursorKept'
    BY <1>2, <2>1 DEF CursorKept
  <2>7. CoveredInv => CoveredInv'
    BY <1>2, <1>4, <2>1 DEF CoveredInv, AtPlace, PageReady, Follows, Known, KnownLoss, Full,
       Upcoming, NoticeDue, IsEvent
  <2> QED
    BY <1>1, <1>2, <1>4, <2>3, <2>4, <2>5, <2>6, <2>7 DEF GapInv, IInv
<1>7. CASE same
  <2> DEFINE s == load.stream
             c == Known(s)
  <2>1. PICK lo \in Nat \ {0}, hi \in Nat : Piece(lo, hi)
    BY <1>1 DEF LoadInv
  <2>2. /\ s \in 1 .. stream /\ s \in Nat \ {0} /\ load.events = lo .. hi
        /\ s = stream => hi <= sequence /\ (Evicted \/ lo = 1)
    <3>1. s \in 1 .. stream /\ stream \in Nat
      BY <1>1, FieldTypes DEF LoadInv
    <3> HIDE DEF s
    <3>2. load.events = lo .. hi /\ (s = stream => hi <= sequence /\ (Evicted \/ lo = 1))
      BY <2>1 DEF Piece, s
    <3> QED
      BY <3>1, <3>2
  <2>3. page' = AcceptEvents(page, s, lo .. hi, FALSE)
    <3>1. page' = AcceptEvents(page, load.stream, load.events, FALSE)
      BY <1>7 DEF ApplyLoad
    <3> QED
      BY <2>2, <3>1
  <2>4. page' \in Pages
    BY <1>1, <2>2, <2>3, AcceptedTypes
  <2>5. c \in Nat /\ KnownLoss(s) \in BOOLEAN
    BY <1>1, KnownTypes
  <2>6. /\ page'.stream = s /\ page'.cursor = IF lo <= hi /\ hi > c THEN hi ELSE c
        /\ page'.shown = Newest(KnownShown(s) \cup (lo .. hi))
        /\ page'.told = KnownLoss(s)
    <3>1. page' = [stream |-> s, cursor |-> Max({c} \cup (lo .. hi)),
                   shown |-> Newest(KnownShown(s) \cup (lo .. hi)),
                   told |-> (FALSE \/ KnownLoss(s)), generation |-> page.generation]
      BY <1>1, <2>2, <2>3, AcceptedIs
    <3>2. Max({c} \cup (lo .. hi)) = IF lo <= hi /\ hi > c THEN hi ELSE c
      BY <2>5, CursorAfter
    <3> QED
      BY <2>5, <3>1, <3>2
  <2>7. c <= sequence \/ s # stream
    BY <1>1, FieldTypes DEF Known, PageInv
  <2>8. PageInv'
    <3>1. s <= stream /\ s # 0
      BY <2>2
    <3>2. s = stream => page'.cursor <= sequence
      BY <2>2, <2>6, <2>7
    <3> QED
      BY <1>2, <2>6, <3>1, <3>2 DEF PageInv, Unknown
  <2>9. TypeOK' /\ OrderInv'
    BY <1>2, <1>3, <1>5, <2>4, <2>8, LoadApplied
  <2>10. ASSUME ~overtaken'
         PROVE  /\ ShownInv' /\ socket.phase # "connecting"
                /\ Subscribed => CoveredInv'
    <3>1. ~overtaken /\ ~late
      BY <1>5, <1>7, <2>10
    <3>2. /\ s = stream /\ socket.phase # "connecting"
          /\ \/ socket.phase = "closed" /\ page.stream = Unknown
             \/ ~(history # <<>> /\ Head(history) > 1)
      BY <3>1
    <3>3. ShownInv /\ (Subscribed => CoveredInv)
      BY <1>1, <3>1 DEF GapInv
    <3> HIDE DEF late
    <3>4. Evicted => socket.phase = "closed" /\ page.stream = Unknown
      <4> SUFFICES ASSUME Evicted PROVE history # <<>> /\ Head(history) > 1
        BY <3>2
      <4>1. sequence \in Nat /\ history \in Seq(Nat) /\ Len(history) \in Nat
        BY <1>1, FieldTypes
      <4>2. history # <<>>
        BY <1>1, <4>1 DEF HistoryInv, Evicted
      <4>3. Head(history) = history[1] /\ 1 \in DOMAIN history
        BY <4>1, <4>2, Removing
      <4>4. Head(history) = sequence - Len(history) + 1
        BY <1>1, <4>3 DEF HistoryInv
      <4> QED
        BY <4>1, <4>2, <4>4 DEF Evicted
    <3>5. CASE Evicted
      <4>1. page.stream = Unknown /\ ~Subscribed
        BY <3>4, <3>5 DEF Subscribed
      <4>2. c = 0 /\ KnownShown(s) = {}
        BY <2>2, <4>1 DEF Known, KnownShown, Unknown
      <4>3. \E l \in 1 .. page'.cursor + 1 :
              page'.shown = l .. page'.cursor /\ page'.cursor - l < DisplaySize
        <5>1. CASE lo <= hi
          <6>1. page'.cursor = hi /\ page'.shown = Newest(lo .. hi)
            BY <2>6, <4>2, <5>1
          <6>2. PICK l \in lo .. hi + 1 : Newest(lo .. hi) = l .. hi /\ hi - l < DisplaySize
            <7>1. lo \in Nat \ {0} /\ hi \in Nat /\ lo <= hi + 1
              BY <5>1
            <7> QED
              BY <7>1, NewestInterval
          <6>3. l \in 1 .. hi + 1
            BY <6>2
          <6> QED
            BY <6>1, <6>2, <6>3
        <5>2. CASE ~(lo <= hi)
          <6>1. lo .. hi = {} /\ 1 .. 0 = {}
            BY <5>2
          <6>2. page'.cursor = 0 /\ page'.shown = Newest({})
            BY <2>6, <4>2, <5>2, <6>1
          <6>3. Newest({}) = {}
            BY DEF Newest
          <6>4. 1 \in 1 .. 0 + 1 /\ 0 - 1 < DisplaySize
            BY Sizes
          <6> QED
            BY <6>1, <6>2, <6>3, <6>4
        <5> QED
          BY <5>1, <5>2
      <4>4. ShownInv'
        BY <1>4, <3>5, <4>3 DEF ShownInv
      <4> QED
        BY <3>2, <4>1, <4>4
    <3>6. CASE ~Evicted
      <4>1. lo = 1
        BY <2>2, <3>2, <3>6
      <4>2. ASSUME ~KnownLoss(s) PROVE Full'
        <5>1. KnownShown(s) = Top(c)
          BY <1>1, <3>2, <3>3, <3>6, <4>2, KnownIsTop
        <5>2. page'.cursor = IF hi > c THEN hi ELSE c
          BY <2>5, <2>6, <4>1
        <5> DEFINE M == page'.cursor
                   S == Top(c) \cup (1 .. hi)
        <5>3. M \in Nat /\ Top(M) \subseteq S /\ S \subseteq 1 .. M
          BY <2>5, <5>2, Sizes DEF Top
        <5>4. Newest(S) = Top(M)
          BY <5>3, NewestTop
        <5> QED
          BY <2>6, <4>1, <5>1, <5>4 DEF Full, Top
      <4>3. ShownInv'
        <5> SUFFICES ASSUME ~page'.told PROVE ShownInv'
          BY DEF ShownInv
        <5>1. Full'
          BY <2>6, <4>2
        <5>2. page'.cursor \in Nat
          BY <2>5, <2>6
        <5>3. \E l \in 1 .. page'.cursor + 1 :
                Top(page'.cursor) = l .. page'.cursor /\ page'.cursor - l < DisplaySize
          BY <5>2, TopInterval
        <5> QED
          BY <5>1, <5>3 DEF ShownInv, Full, Top
      <4>4. ASSUME NEW i, NEW t, NEW n \in Nat, AtPlace(i, t, n) PROVE AtPlace(i, t, n)'
        <5>1. CASE i # 1
          BY <1>2, <1>4, <4>4, <5>1 DEF AtPlace, Follows
        <5>2. CASE i = 1 /\ t # stream
          BY <1>2, <2>6, <3>2, <5>2 DEF AtPlace, PageReady, Known
        <5>3. CASE i = 1 /\ t = stream
          <6>1. PageReady(stream, n)
            BY <4>4, <5>3 DEF AtPlace
          <6>2. Known(stream)' = page'.cursor /\ KnownLoss(stream)' = KnownLoss(stream)
            BY <1>2, <2>5, <2>6, <3>2 DEF Known, KnownLoss
          <6>3. page'.cursor >= c /\ page'.cursor \in Nat
            BY <2>5, <2>6
          <6>4. KnownLoss(stream) \/ n <= c + 1
            BY <2>5, <3>2, <3>6, <6>1 DEF PageReady
          <6>5. KnownLoss(stream) \/ n = page'.cursor + 1 \/ n <= page'.cursor
            BY <2>5, <6>3, <6>4
          <6>6. PageReady(stream, n)'
            BY <3>2, <4>2, <6>2, <6>5 DEF PageReady
          <6> QED
            BY <1>2, <5>3, <6>6 DEF AtPlace
        <5> QED
          BY <5>1, <5>2, <5>3
      <4>5. ASSUME Subscribed PROVE CoveredInv'
        <5>1. CoveredInv
          BY <3>3, <4>5
        <5>2. ASSUME NEW i \in DOMAIN Backlog', IsEvent(Backlog[i])'
              PROVE  AtPlace(i, Backlog[i].stream, Backlog[i].seq)'
          <6>1. Backlog[i].seq \in Nat /\ i \in DOMAIN Backlog
            BY <1>1, <1>4, <5>2, BacklogTypes
          <6>2. AtPlace(i, Backlog[i].stream, Backlog[i].seq)
            BY <1>4, <5>1, <5>2, <6>1 DEF CoveredInv, IsEvent
          <6> QED
            BY <1>4, <4>4, <6>1, <6>2
        <5>3. Upcoming' = Upcoming /\ NoticeDue' = NoticeDue
          BY <1>2 DEF Upcoming, NoticeDue
        <5>4. Upcoming \in Nat
          <6>1. Len(sub.queue) \in Nat /\ sequence \in Nat
            BY <1>1, BacklogTypes, FieldTypes
          <6>2. Len(sub.queue) <= sequence + 1
            BY <1>1, <4>5 DEF OrderInv, OpenInv, QueueInv
          <6> QED
            BY <6>1, <6>2 DEF Upcoming
        <5>5. Upcoming' = 0 \/ NoticeDue' \/ AtPlace(Len(Backlog) + 1, stream, Upcoming)'
          BY <1>2, <1>4, <4>4, <5>1, <5>3, <5>4 DEF CoveredInv
        <5>6. page.stream = stream /\ page.told => page'.stream = stream' /\ page'.told
          BY <1>2, <2>6, <3>2 DEF KnownLoss
        <5> QED
          BY <1>2, <1>4, <5>1, <5>2, <5>5, <5>6 DEF CoveredInv
      <4> QED
        BY <3>2, <4>3, <4>5
    <3> QED
      BY <3>5, <3>6
  <2> QED
    BY <1>2, <1>4, <2>9, <2>10 DEF GapInv, IInv
<1> QED
  BY <1>6, <1>7


\* What the page has of a stream, unless it was told of a loss, is an interval
\* that ends at the cursor.
LEMMA KnownInterval ==
    ASSUME TypeOK, ShownInv, NEW s, ~KnownLoss(s)
    PROVE  \E lo \in 1 .. Known(s) + 1 : KnownShown(s) = lo .. Known(s)
<1>1. CASE page.stream = s
  BY <1>1 DEF ShownInv, KnownShown, Known, KnownLoss
<1>2. CASE page.stream # s
  <2>1. 1 \in 1 .. 0 + 1 /\ {} = 1 .. 0
    OBVIOUS
  <2> QED
    BY <1>2, <2>1 DEF KnownShown, Known
<1> QED
  BY <1>1, <1>2

\* An event the page is ready for leaves what it shows without a hole.
LEMMA EventShown ==
    ASSUME TypeOK, PageInv, ShownInv, NEW s \in Nat \ {0}, NEW e \in Nat \ {0},
           ~KnownLoss(s), PageReady(s, e)
    PROVE  LET c == Known(s)
               top == IF e > c THEN e ELSE c
               shown == Newest(KnownShown(s) \cup (e .. e))
           IN  /\ e > c \/ shown = Top(top)
               /\ \E l \in 1 .. top + 1 : shown = l .. top /\ top - l < DisplaySize
               /\ s = stream /\ ~Evicted => shown = Top(top)
<1> DEFINE c == Known(s)
           shown == Newest(KnownShown(s) \cup (e .. e))
<1>1. c \in Nat
  BY KnownTypes
<1>2. PICK lo \in 1 .. c + 1 : KnownShown(s) = lo .. c
  BY KnownInterval
<1>3. lo \in Nat \ {0} /\ lo <= c + 1
  BY <1>1, <1>2
<1>4. CASE e <= c /\ Full
  <2>1. page.stream = s /\ KnownShown(s) = Top(c)
    BY <1>1, <1>4 DEF Known, KnownShown, Full
  <2> HIDE DEF c
  <2> DEFINE S == Top(c) \cup (e .. e)
  <2>2. Top(c) \subseteq S /\ S \subseteq 1 .. c
    BY <1>1, <1>4 DEF Top
  <2>3. Newest(S) = Top(c)
    BY <1>1, <2>2, NewestTop
  <2>4. \E l \in 1 .. c + 1 : Top(c) = l .. c /\ c - l < DisplaySize
    BY <1>1, TopInterval
  <2>5. ~(e > c)
    BY <1>1, <1>4
  <2> QED
    BY <2>1, <2>3, <2>4, <2>5 DEF c
<1>5. CASE e = c + 1
  <2>1. KnownShown(s) \cup (e .. e) = lo .. e
    BY <1>1, <1>2, <1>3, <1>5
  <2>2. PICK l \in lo .. e + 1 : Newest(lo .. e) = l .. e /\ e - l < DisplaySize
    <3>1. lo <= e + 1 /\ e \in Nat
      BY <1>1, <1>3, <1>5
    <3> QED
      BY <1>3, <3>1, NewestInterval
  <2>3. l \in 1 .. e + 1 /\ e > c
    BY <1>1, <1>3, <1>5, <2>2
  <2>4. ASSUME s = stream, ~Evicted PROVE Newest(lo .. e) = Top(e)
    <3>1. KnownShown(s) = Top(c)
      BY <2>4, KnownIsTop
    <3>2. lo .. c = Top(c)
      BY <1>2, <3>1
    <3> HIDE DEF c
    <3>3. Top(e) \subseteq lo .. e /\ lo .. e \subseteq 1 .. e
      <4>1. ASSUME NEW n \in Top(e), n # e PROVE n \in Top(c)
        BY <1>1, <1>5, <4>1, Sizes DEF Top
      <4>2. ASSUME NEW n \in Top(e) PROVE n \in lo .. e
        <5>1. CASE n = e
          BY <1>1, <1>3, <1>5, <5>1
        <5>2. CASE n # e
          <6>1. n \in lo .. c
            BY <3>2, <4>1, <5>2
          <6> QED
            BY <1>1, <1>5, <6>1
        <5> QED
          BY <5>1, <5>2
      <4> QED
        BY <1>3, <4>2
    <3>4. e \in Nat
      OBVIOUS
    <3> QED
      BY <3>3, <3>4, NewestTop
  <2> QED
    BY <2>1, <2>2, <2>3, <2>4
<1>6. CASE c = 0 /\ (Evicted \/ s # stream)
  <2>1. KnownShown(s) \cup (e .. e) = e .. e
    BY <1>2, <1>3, <1>6
  <2>2. PICK l \in e .. e + 1 : Newest(e .. e) = l .. e /\ e - l < DisplaySize
    <3>1. e <= e + 1 /\ e \in Nat
      OBVIOUS
    <3> QED
      BY <3>1, NewestInterval
  <2>3. l \in 1 .. e + 1 /\ e > c
    BY <1>6, <2>2
  <2> QED
    BY <1>6, <2>1, <2>2, <2>3
<1> QED
  BY <1>4, <1>5, <1>6 DEF PageReady

\* The page after a message of the socket.
ResetPage(s) ==
    page' = [stream |-> s, cursor |-> 0, shown |-> {}, told |-> FALSE,
             generation |-> page.generation + 1]
NoticePage(s) ==
    /\ page' \in Pages
    /\ page'.stream = s /\ page'.cursor = Known(s) /\ page'.told = TRUE
EventPage(s, e) ==
    /\ page' \in Pages
    /\ page'.stream = s /\ page'.cursor = (IF e > Known(s) THEN e ELSE Known(s))
    /\ page'.shown = Newest(KnownShown(s) \cup (e .. e))
    /\ page'.told = KnownLoss(s)

\* It depends on the kind of the message alone which of the three it is.
LEMMA ReceivedPage ==
    ASSUME TypeOK, PageInv, wire # <<>>, Receive
    PROVE  LET m == Head(wire)
           IN  /\ m \in Msg /\ page' \in Pages /\ page'.stream = m.stream
               /\ \/ m.kind = "reset" /\ m.seq = 0 /\ ResetPage(m.stream)
                  \/ m.kind \in {"gap", "dropped"} /\ m.seq = 0 /\ NoticePage(m.stream)
                  \/ IsEvent(m) /\ m.seq # 0 /\ EventPage(m.stream, m.seq)
<1> DEFINE m == Head(wire)
<1>1. wire \in Seq(Msg)
  BY FieldTypes
<1>2. m \in Msg
  BY <1>1, Removing
<1>3. /\ m.kind \in {"event", "reset", "gap", "dropped"} /\ m.stream \in Nat \ {0}
      /\ m.seq \in Nat /\ (m.kind = "event" <=> m.seq # 0)
  BY <1>2 DEF Msg
<1>4. page' = IF m.kind = "reset" THEN ClearEvidence(page, m.stream)
              ELSE AcceptEvents(page, m.stream, {m.seq} \ {0}, m.kind # "event")
  BY DEF Receive
<1>5. page.generation \in Nat
  BY FieldTypes
<1> HIDE DEF m
<1> DEFINE s == m.stream
<1>6. Known(s) \in Nat /\ KnownLoss(s) \in BOOLEAN
  BY KnownTypes
<1>7. CASE m.kind = "reset"
  <2>1. ResetPage(s)
    BY <1>4, <1>7 DEF ResetPage, ClearEvidence, Blank
  <2>2. page' \in Pages /\ page'.stream = s
    <3>1. page.generation + 1 \in Nat
      BY <1>5
    <3> QED
      BY <1>3, <2>1, <3>1 DEF ResetPage, Pages
  <2> QED
    BY <1>2, <1>3, <1>7, <2>1, <2>2 DEF m
<1>8. CASE m.kind \in {"gap", "dropped"}
  <2>1. {m.seq} \ {0} = 1 .. 0 /\ m.seq = 0
    BY <1>3, <1>8
  <2>2. page' = AcceptEvents(page, s, 1 .. 0, TRUE)
    BY <1>4, <1>8, <2>1
  <2>3. page' \in Pages
    BY <1>3, <2>2, AcceptedTypes
  <2>4. page' = [stream |-> s, cursor |-> Max({Known(s)} \cup (1 .. 0)),
                 shown |-> Newest(KnownShown(s) \cup (1 .. 0)),
                 told |-> (TRUE \/ KnownLoss(s)), generation |-> page.generation]
    BY <1>3, <2>2, AcceptedIs
  <2>5. Max({Known(s)} \cup (1 .. 0)) = Known(s)
    BY <1>6, CursorAfter
  <2>6. page'.stream = s /\ page'.cursor = Known(s) /\ page'.told = TRUE
    BY <2>4, <2>5
  <2> QED
    BY <1>2, <1>8, <2>1, <2>3, <2>6 DEF NoticePage, m
<1>9. CASE m.kind = "event"
  <2> DEFINE e == m.seq
  <2>1. {e} \ {0} = e .. e /\ e # 0 /\ e \in Nat
    BY <1>3, <1>9
  <2>2. page' = AcceptEvents(page, s, e .. e, FALSE)
    BY <1>4, <1>9, <2>1
  <2>3. page' \in Pages
    BY <1>3, <2>2, AcceptedTypes
  <2>4. page' = [stream |-> s, cursor |-> Max({Known(s)} \cup (e .. e)),
                 shown |-> Newest(KnownShown(s) \cup (e .. e)),
                 told |-> (FALSE \/ KnownLoss(s)), generation |-> page.generation]
    BY <1>3, <2>2, AcceptedIs
  <2>5. Max({Known(s)} \cup (e .. e)) = IF e > Known(s) THEN e ELSE Known(s)
    BY <1>6, <2>1, CursorAfter
  <2>6. EventPage(s, e)
    BY <1>6, <2>3, <2>4, <2>5 DEF EventPage
  <2>7. page'.stream = s
    BY <2>6 DEF EventPage
  <2> QED
    BY <1>2, <1>9, <2>1, <2>3, <2>6, <2>7 DEF IsEvent, m
<1> QED
  BY <1>3, <1>7, <1>8, <1>9


\* Handling a message takes the head off the backlog.
LEMMA BacklogTail ==
    ASSUME TypeOK, wire # <<>>, wire' = Tail(wire), socket' = socket
    PROVE  /\ Len(Backlog) \in Nat \ {0} /\ Head(wire) = Backlog[1]
           /\ Backlog' \in Seq(Msg) /\ Len(Backlog') = Len(Backlog) - 1
           /\ DOMAIN Backlog' = 1 .. Len(Backlog) - 1
           /\ DOMAIN Backlog = 1 .. Len(Backlog)
           /\ \A i \in 1 .. Len(Backlog) - 1 : Backlog'[i] = Backlog[i + 1]
<1> DEFINE w == wire
           o == socket.out
           t == Tail(wire)
           W == Len(wire)
           O == Len(socket.out)
<1>1. w \in Seq(Msg) /\ o \in Seq(Msg)
  BY FieldTypes
<1>2. /\ Head(w) = w[1] /\ t \in Seq(Msg) /\ W \in Nat \ {0} /\ Len(t) = W - 1
      /\ \A i \in 1 .. W - 1 : t[i] = w[i + 1]
  BY <1>1, Removing
<1> DEFINE B == w \o o
           C == t \o o
<1>3. /\ B \in Seq(Msg) /\ Len(B) = W + O /\ O \in Nat /\ DOMAIN B = 1 .. Len(B)
      /\ \A i \in 1 .. W : B[i] = w[i]
      /\ \A i \in 1 .. O : B[W + i] = o[i]
  BY <1>1, Concatenation
<1>4. /\ C \in Seq(Msg) /\ Len(C) = Len(t) + O /\ DOMAIN C = 1 .. Len(C)
      /\ \A i \in 1 .. Len(t) : C[i] = t[i]
      /\ \A i \in 1 .. O : C[Len(t) + i] = o[i]
  BY <1>1, <1>2, Concatenation
<1>5. Backlog = B /\ Backlog' = C
  BY DEF Backlog
<1> HIDE DEF w, o, t, W, O, B, C
<1>6. Len(C) = Len(B) - 1 /\ Len(B) \in Nat \ {0}
  BY <1>2, <1>3, <1>4
<1>7. B[1] = w[1]
  BY <1>2, <1>3
<1>8. ASSUME NEW i \in 1 .. Len(B) - 1 PROVE C[i] = B[i + 1]
  <2>1. CASE i <= W - 1
    <3>1. i \in 1 .. W - 1 /\ i \in 1 .. Len(t) /\ i + 1 \in 1 .. W
      BY <1>2, <1>3, <2>1
    <3> QED
      BY <1>2, <1>3, <1>4, <3>1
  <2>2. CASE i > W - 1
    <3> DEFINE k == i - (W - 1)
    <3>1. k \in 1 .. O /\ i = Len(t) + k /\ i + 1 = W + k
      BY <1>2, <1>3, <2>2
    <3> HIDE DEF k
    <3> QED
      BY <1>3, <1>4, <3>1
  <2> QED
    BY <1>2, <1>3, <2>1, <2>2
<1>9. Head(wire) = w[1]
  BY <1>2 DEF w
<1> QED
  BY <1>3, <1>4, <1>5, <1>6, <1>7, <1>8, <1>9

\* A message the page handles was the first of the backlog; what stood behind it
\* can now be shown next.
LEMMA ReceiveInv == IInv /\ Receive => IInv'
<1> SUFFICES ASSUME IInv, Receive PROVE IInv'
  OBVIOUS
<1>1. /\ TypeOK /\ OrderInv /\ HistoryInv /\ PageInv /\ LoadInv /\ GapInv
      /\ wire # <<>> /\ wire' = Tail(wire) /\ Subscribed
  BY DEF IInv, OrderInv, Receive
<1>2. /\ stream' = stream /\ sequence' = sequence /\ history' = history /\ sub' = sub
      /\ socket' = socket /\ load' = load /\ resetReply' = resetReply
      /\ overtaken' = overtaken /\ published' = published /\ closes' = closes
  BY DEF Receive
<1> DEFINE m == Head(wire)
           s == m.stream
           c == Known(s)
           N == Len(Backlog)
<1>3. QueueInv /\ SentInv /\ BacklogOrdered
  BY <1>1 DEF OrderInv, OpenInv
<1>4. /\ N \in Nat \ {0} /\ m = Backlog[1]
      /\ Backlog' \in Seq(Msg) /\ Len(Backlog') = N - 1
      /\ DOMAIN Backlog' = 1 .. N - 1 /\ DOMAIN Backlog = 1 .. N
      /\ \A i \in 1 .. N - 1 : Backlog'[i] = Backlog[i + 1]
  BY <1>1, <1>2, BacklogTail
<1>5. /\ m \in Msg /\ page' \in Pages /\ page'.stream = s
      /\ \/ m.kind = "reset" /\ m.seq = 0 /\ ResetPage(s)
         \/ m.kind \in {"gap", "dropped"} /\ m.seq = 0 /\ NoticePage(s)
         \/ IsEvent(m) /\ m.seq # 0 /\ EventPage(s, m.seq)
  BY <1>1, ReceivedPage
<1>6. wire' \in Seq(Msg)
  BY <1>1, FieldTypes, Removing
<1> HIDE DEF m, N
<1>7. /\ s \in Nat \ {0} /\ m.seq \in Nat /\ c \in Nat
      /\ stream \in Nat \ {0} /\ sequence \in Nat /\ Len(sub.queue) \in Nat
      /\ socket.sentStream \in Nat /\ socket.sentSeq \in Nat
      /\ page.stream \in Nat /\ page.cursor \in Nat
  <2>1. s \in Nat \ {0} /\ m.seq \in Nat
    BY <1>5 DEF Msg
  <2>2. c \in Nat
    BY <1>1, KnownTypes
  <2> QED
    BY <1>1, <2>1, <2>2, FieldTypes, BacklogTypes
<1>8. page'.cursor \in Nat /\ (page'.cursor <= c \/ page'.cursor = m.seq)
  <2>1. CASE ResetPage(s)
    <3>1. page'.cursor = 0
      BY <2>1 DEF ResetPage
    <3> QED
      BY <1>7, <3>1
  <2>2. CASE NoticePage(s)
    <3>1. page'.cursor = c
      BY <2>2 DEF NoticePage
    <3> QED
      BY <1>7, <3>1
  <2>3. CASE EventPage(s, m.seq)
    <3>1. page'.cursor = IF m.seq > c THEN m.seq ELSE c
      BY <2>3 DEF EventPage
    <3> QED
      BY <1>7, <3>1
  <2> QED
    BY <1>5, <2>1, <2>2, <2>3
<1> HIDE DEF s, c
<1>9. /\ s <= socket.sentStream /\ (s = socket.sentStream => m.seq <= socket.sentSeq)
      /\ socket.sentStream <= stream
      /\ socket.sentStream = stream => socket.sentSeq <= sequence
  <2>1. 1 \in DOMAIN Backlog
    BY <1>4
  <2>2. SentUpTo(s, m.seq)
    BY <1>3, <1>4, <2>1 DEF SentInv, s
  <2>3. /\ socket.sentStream <= stream
        /\ socket.sentStream = stream => socket.sentSeq <= sequence - Len(sub.queue)
    BY <1>3 DEF SentInv
  <2> QED
    BY <1>7, <2>2, <2>3 DEF SentUpTo
<1>10. Backlog' \in Seq(Msg) /\ Subscribed' /\ Evicted' = Evicted
  BY <1>1, <1>2, <1>4 DEF Subscribed, Evicted
<1>11. TypeOK'
  BY <1>1, <1>2, <1>5, <1>6 DEF TypeOK
<1>12. HistoryInv' /\ LoadInv'
  BY <1>1, <1>2 DEF HistoryInv, LoadInv, Piece, Evicted
<1>13. PageInv'
  <2>1. s = stream => c <= sequence
    BY <1>1, <1>7 DEF PageInv, Known, c
  <2>2. s <= stream /\ (s = stream => page'.cursor <= sequence) /\ s # 0
    BY <1>7, <1>8, <1>9, <2>1
  <2>3. page'.stream = s
    BY <1>5 DEF s
  <2> QED
    BY <1>2, <2>2, <2>3 DEF PageInv, Unknown
<1>14. QueueInv'
  BY <1>2, <1>3 DEF QueueInv, Entry
<1>15. SentInv'
  <2>1. ASSUME load.state # "done" PROVE SentUpTo(page.stream, page.cursor)'
    <3>1. SentUpTo(page.stream, page.cursor)
      BY <1>3, <2>1 DEF SentInv
    <3>2. s = socket.sentStream => c <= socket.sentSeq
      BY <1>7, <3>1 DEF SentUpTo, Known, c
    <3>3. s = socket.sentStream => page'.cursor <= socket.sentSeq
      BY <1>7, <1>8, <1>9, <3>2
    <3>4. page'.stream = s
      BY <1>5 DEF s
    <3> QED
      BY <1>2, <1>9, <3>3, <3>4 DEF SentUpTo
  <2>2. ASSUME NEW i \in DOMAIN Backlog' PROVE SentUpTo(Backlog[i].stream, Backlog[i].seq)'
    <3>1. i + 1 \in DOMAIN Backlog /\ Backlog'[i] = Backlog[i + 1]
      BY <1>4
    <3>2. SentUpTo(Backlog[i + 1].stream, Backlog[i + 1].seq)
      BY <1>3, <3>1 DEF SentInv
    <3> QED
      BY <1>2, <3>1, <3>2 DEF SentUpTo
  <2>3. SentUpTo(socket.asked, socket.after)'
    BY <1>2, <1>3 DEF SentInv, SentUpTo
  <2> QED
    BY <1>2, <1>3, <2>1, <2>2, <2>3 DEF SentInv
<1>16. BacklogOrdered'
  <2>1. DOMAIN Backlog' = 1 .. N - 1 /\ page'.stream = s
    BY <1>4, <1>5 DEF s
  <2> SUFFICES ASSUME NEW i \in 1 .. N - 1, IsEvent(Backlog'[i])
               PROVE  /\ \A j \in 1 .. i - 1 :
                           IsEvent(Backlog'[j]) => Later(Backlog'[i], Backlog'[j])
                      /\ Backlog'[i].stream = socket.asked => Backlog'[i].seq > socket.after
                      /\ (load.state # "done" /\ Backlog'[i].stream = s)
                           => Backlog'[i].seq > page'.cursor
    BY <1>2, <2>1 DEF BacklogOrdered, IsEvent, Later
  <2>2. Backlog'[i] = Backlog[i + 1] /\ IsEvent(Backlog[i + 1])
    BY <1>4
  <2> DEFINE x == Backlog[i + 1]
  <2>3. i + 1 \in DOMAIN Backlog
    BY <1>4
  <2>4. /\ \A j \in 1 .. i + 1 - 1 : IsEvent(Backlog[j]) => Later(x, Backlog[j])
        /\ x.stream = socket.asked => x.seq > socket.after
        /\ (load.state # "done" /\ x.stream = page.stream) => x.seq > page.cursor
    BY <1>3, <2>3, <2>2 DEF BacklogOrdered
  <2>5. x \in Msg /\ x.seq \in Nat \ {0}
    <3>1. x \in Msg
      BY <1>1, <2>3, BacklogTypes
    <3> QED
      BY <2>2, <3>1 DEF Msg, IsEvent
  <2> HIDE DEF x
  <2>6. ASSUME NEW j \in 1 .. i - 1, IsEvent(Backlog'[j]) PROVE Later(x, Backlog'[j])
    <3>1. j + 1 \in 1 .. i + 1 - 1 /\ j \in 1 .. N - 1
      BY <1>4
    <3>2. Backlog'[j] = Backlog[j + 1]
      BY <1>4, <3>1
    <3> QED
      BY <2>4, <2>6, <3>1, <3>2
  <2>7. ASSUME load.state # "done", x.stream = s PROVE x.seq > page'.cursor
    <3>1. x.seq > c
      BY <2>4, <2>5, <2>7 DEF Known, c
    <3>2. x.seq > m.seq
      <4>1. CASE IsEvent(m)
        <5>1. 1 \in 1 .. i + 1 - 1
          BY <1>4
        <5>2. Later(x, m)
          BY <1>4, <2>4, <4>1, <5>1
        <5>3. ~(x.stream > m.stream)
          BY <1>7, <2>7 DEF s
        <5> QED
          BY <5>2, <5>3 DEF Later
      <4>2. CASE ~IsEvent(m)
        <5>1. m.seq = 0
          BY <1>5, <4>2
        <5> QED
          BY <2>5, <5>1
      <4> QED
        BY <4>1, <4>2
    <3> QED
      BY <1>7, <1>8, <2>5, <3>1, <3>2
  <2> QED
    BY <2>4, <2>6, <2>7, <2>2 DEF x
<1>17. OrderInv'
  BY <1>10, <1>12, <1>13, <1>14, <1>15, <1>16 DEF OrderInv, OpenInv, Subscribed
<1>18. GapInv'
  <2> SUFFICES ASSUME ~overtaken PROVE ShownInv' /\ CoveredInv'
    BY <1>2, <1>10 DEF GapInv, Subscribed
  <2>1. ShownInv /\ CoveredInv
    BY <1>1 DEF GapInv
  <2>2. IsEvent(m) => PageReady(s, m.seq)
    <3>1. 1 \in DOMAIN Backlog
      BY <1>4
    <3> QED
      BY <1>4, <2>1, <3>1 DEF CoveredInv, AtPlace, s
  <2> DEFINE top == IF m.seq > c THEN m.seq ELSE c
  <2>3. ASSUME IsEvent(m), ~KnownLoss(s)
        PROVE  /\ page'.cursor = top /\ page'.told = FALSE /\ top \in Nat
               /\ m.seq > c \/ page'.shown = Top(top)
               /\ \E l \in 1 .. top + 1 : page'.shown = l .. top /\ top - l < DisplaySize
               /\ s = stream /\ ~Evicted => page'.shown = Top(top)
    <3>1. m.seq \in Nat \ {0} /\ EventPage(s, m.seq)
      BY <1>5, <1>7, <2>3 DEF IsEvent, s
    <3>2. /\ page'.cursor = top /\ page'.told = FALSE
          /\ page'.shown = Newest(KnownShown(s) \cup (m.seq .. m.seq))
      <4>1. KnownLoss(s) \in BOOLEAN
        BY <1>1, KnownTypes
      <4> QED
        BY <2>3, <3>1, <4>1 DEF EventPage, c
    <3> DEFINE shown == Newest(KnownShown(s) \cup (m.seq .. m.seq))
    <3>3. /\ m.seq > c \/ shown = Top(top)
          /\ \E l \in 1 .. top + 1 : shown = l .. top /\ top - l < DisplaySize
          /\ s = stream /\ ~Evicted => shown = Top(top)
      BY <1>1, <1>7, <2>1, <2>2, <2>3, <3>1, EventShown DEF c
    <3> HIDE DEF shown
    <3>4. top \in Nat
      BY <1>7
    <3> HIDE DEF top
    <3> QED
      BY <3>2, <3>3, <3>4 DEF shown
  <2> HIDE DEF top
  <2>4. page'.stream = s
    BY <1>5 DEF s
  <2>5. ShownInv'
    <3> SUFFICES ASSUME ~page'.told PROVE ShownInv'
      BY DEF ShownInv
    <3>1. CASE m.kind = "reset"
      <4>1. page'.cursor = 0 /\ page'.shown = {}
        BY <1>5, <3>1 DEF ResetPage, IsEvent
      <4>2. 1 \in 1 .. 0 + 1 /\ {} = 1 .. 0 /\ 0 - 1 < DisplaySize /\ Top(0) = {}
        BY Sizes DEF Top
      <4> QED
        BY <4>1, <4>2 DEF ShownInv, Full, Top
    <3>2. CASE IsEvent(m)
      <4>1. ~KnownLoss(s)
        BY <1>5, <3>2 DEF EventPage, IsEvent, s
      <4> QED
        BY <1>2, <1>10, <2>3, <2>4, <3>2, <4>1 DEF ShownInv, Full, Top
    <3> QED
      BY <1>5, <3>1, <3>2 DEF NoticePage
  <2>6. ASSUME NEW t, NEW n \in Nat, Follows(m, t, n) PROVE PageReady(t, n)'
    <3>1. /\ t = s
          /\ \/ m.seq = n - 1 \/ m.kind \in {"gap", "dropped"}
             \/ m.kind = "reset" /\ (Evicted \/ t # stream)
      BY <2>6 DEF Follows, s
    <3>2. Known(t)' = page'.cursor /\ (KnownLoss(t)' <=> page'.told)
      BY <2>4, <3>1 DEF Known, KnownLoss
    <3>3. CASE m.kind = "reset"
      <4>1. page'.cursor = 0 /\ m.seq = 0
        BY <1>5, <3>3 DEF ResetPage, IsEvent
      <4>2. n = 0 + 1 \/ Evicted \/ t # stream
        BY <3>1, <3>3, <4>1
      <4> QED
        BY <1>2, <1>10, <3>2, <4>1, <4>2 DEF PageReady
    <3>4. CASE m.kind \in {"gap", "dropped"}
      <4>1. page'.told = TRUE
        BY <1>5, <3>4 DEF NoticePage, IsEvent
      <4> QED
        BY <3>2, <4>1 DEF PageReady
    <3>5. CASE IsEvent(m) /\ KnownLoss(s)
      <4>1. page'.told = KnownLoss(s)
        BY <1>5, <3>5 DEF EventPage, IsEvent, s
      <4> QED
        BY <3>2, <3>5, <4>1 DEF PageReady
    <3>6. CASE IsEvent(m) /\ ~KnownLoss(s)
      <4>1. /\ page'.cursor = top
            /\ m.seq > c \/ page'.shown = Top(top)
        BY <2>3, <3>6
      <4>2. m.seq = n - 1
        BY <3>1, <3>6 DEF IsEvent
      <4>3. n = top + 1 \/ (n <= top /\ page'.shown = Top(top))
        BY <1>7, <4>1, <4>2 DEF top
      <4>4. page'.shown = Top(top) => Full'
        BY <4>1 DEF Full, Top
      <4> QED
        BY <3>2, <4>1, <4>3, <4>4 DEF PageReady
    <3> QED
      BY <1>5, <3>3, <3>4, <3>5, <3>6
  <2>7. ASSUME NEW i \in 1 .. N, NEW t, NEW n \in Nat, AtPlace(i + 1, t, n)
        PROVE  AtPlace(i, t, n)'
    <3>1. i + 1 # 1 /\ i + 1 - 1 = i
      BY <1>4
    <3>2. Follows(Backlog[i], t, n)
      BY <2>7, <3>1 DEF AtPlace
    <3>3. CASE i = 1
      <4>1. PageReady(t, n)'
        BY <1>4, <2>6, <3>2, <3>3
      <4> QED
        BY <3>3, <4>1 DEF AtPlace
    <3>4. CASE i # 1
      <4>1. i - 1 \in 1 .. N - 1 /\ i - 1 + 1 = i
        BY <1>4, <3>4
      <4>2. Backlog'[i - 1] = Backlog[i]
        BY <1>4, <4>1
      <4> QED
        BY <1>2, <1>10, <3>2, <3>4, <4>2 DEF AtPlace, Follows
    <3> QED
      BY <3>3, <3>4
  <2>8. ASSUME NEW i \in DOMAIN Backlog', IsEvent(Backlog[i])'
        PROVE  AtPlace(i, Backlog[i].stream, Backlog[i].seq)'
    <3>1. i + 1 \in DOMAIN Backlog /\ i \in 1 .. N /\ Backlog'[i] = Backlog[i + 1]
      BY <1>4
    <3>2. Backlog[i + 1].seq \in Nat
      BY <1>1, <3>1, BacklogTypes
    <3>3. AtPlace(i + 1, Backlog[i + 1].stream, Backlog[i + 1].seq)
      BY <2>1, <2>8, <3>1 DEF CoveredInv, IsEvent
    <3> QED
      BY <2>7, <3>1, <3>2, <3>3
  <2>9. Upcoming' = 0 \/ NoticeDue' \/ AtPlace(Len(Backlog) + 1, stream, Upcoming)'
    <3>1. Upcoming' = Upcoming /\ NoticeDue' = NoticeDue
      BY <1>2 DEF Upcoming, NoticeDue
    <3>2. Upcoming \in Nat
      <4>1. Len(sub.queue) <= sequence + 1
        BY <1>3 DEF QueueInv
      <4> QED
        BY <1>7, <4>1 DEF Upcoming
    <3>3. N \in 1 .. N /\ Len(Backlog') + 1 = N
      BY <1>4
    <3>4. Upcoming = 0 \/ NoticeDue \/ AtPlace(N + 1, stream, Upcoming)
      BY <2>1 DEF CoveredInv, N
    <3> QED
      BY <1>2, <2>7, <3>1, <3>2, <3>3, <3>4
  <2>10. ASSUME sub.noticeLast
         PROVE  IF Backlog' = <<>> THEN page'.stream = stream' /\ page'.told
                ELSE /\ Backlog'[Len(Backlog')].stream = stream'
                     /\ Backlog'[Len(Backlog')].kind = "dropped"
    <3>1. Backlog # <<>>
      BY <1>4, EmptySeq DEF N
    <3>2. Backlog[N].stream = stream /\ Backlog[N].kind = "dropped"
      BY <2>1, <2>10, <3>1 DEF CoveredInv, N
    <3>3. CASE N = 1
      <4>1. Backlog' = <<>>
        BY <1>4, <3>3, EmptySeq
      <4>2. m.kind = "dropped" /\ s = stream
        BY <1>4, <3>2, <3>3 DEF s
      <4>3. page'.told = TRUE
        BY <1>5, <4>2 DEF NoticePage, IsEvent
      <4> QED
        BY <1>2, <2>4, <4>1, <4>2, <4>3
    <3>4. CASE N # 1
      <4>1. N - 1 \in 1 .. N - 1 /\ N - 1 + 1 = N
        BY <1>4, <3>4
      <4>2. Backlog'[Len(Backlog')] = Backlog[N] /\ Len(Backlog') # 0
        BY <1>4, <4>1
      <4>3. Backlog' # <<>>
        BY <4>2, EmptySeq
      <4> QED
        BY <1>2, <3>2, <4>2, <4>3
    <3> QED
      BY <3>3, <3>4
  <2>11. CoveredInv'
    BY <1>2, <2>8, <2>9, <2>10 DEF CoveredInv
  <2> QED
    BY <2>5, <2>11
<1> QED
  BY <1>11, <1>17, <1>18 DEF IInv


-----------------------------------------------------------------------------
(* The theorems *)

\* Every step keeps the invariant.
LEMMA IInvInductive == IInv /\ [Next]_vars => IInv'
<1> SUFFICES ASSUME IInv, [Next]_vars PROVE IInv'
  OBVIOUS
<1>1. CASE Next
  BY <1>1, PublishInv, ClearInv, AcceptInv, SendInv, FollowInv, ConnectInv, CloseInv,
     ReceiveInv, AnswerLoadInv, ApplyLoadInv, RetryLoadInv, HandleResetReplyInv DEF Next
<1>2. CASE UNCHANGED vars
  <2>1. /\ stream' = stream /\ sequence' = sequence /\ history' = history /\ sub' = sub
        /\ wire' = wire /\ page' = page /\ socket' = socket /\ load' = load
        /\ resetReply' = resetReply /\ overtaken' = overtaken
        /\ published' = published /\ closes' = closes
    BY <1>2 DEF vars
  <2>2. TypeOK'
    BY <2>1 DEF IInv, TypeOK
  <2>3. Backlog' = Backlog /\ Subscribed' = Subscribed /\ Evicted' = Evicted
    BY <2>1 DEF Backlog, Subscribed, Evicted
  <2>4. OpenInv => OpenInv'
    BY <2>1, <2>3 DEF OpenInv, QueueInv, Entry, SentInv, SentUpTo, BacklogOrdered, Later, IsEvent
  <2>5. OrderInv'
    BY <2>1, <2>3, <2>4 DEF IInv, OrderInv, HistoryInv, PageInv, LoadInv, Piece, ConnectingInv
  <2>6. CoveredInv => CoveredInv'
    BY <2>1, <2>3 DEF CoveredInv, AtPlace, PageReady, Follows, Known, KnownLoss, Full,
       Upcoming, NoticeDue, IsEvent
  <2>7. GapInv'
    BY <2>1, <2>3, <2>6 DEF IInv, GapInv, ShownInv, Full, CursorKept
  <2> QED
    BY <2>2, <2>5, <2>7 DEF IInv
<1> QED
  BY <1>1, <1>2

\* EventBroker, handler and page keep their types; the history and the queue of
\* a subscription are the end of the stream; and every event on its way to the
\* page continues what is before it or stands behind a notice.
THEOREM EventInvariant == Spec => []IInv
<1>1. Init => IInv
  BY InitInv
<1>2. IInv /\ [Next]_vars => IInv'
  BY IInvInductive
<1> QED
  BY <1>1, <1>2, PTL DEF Spec

\* The backlog followed by the queue is in order.
LEMMA OrderedFromInv == IInv => InOrder
<1> SUFFICES ASSUME IInv PROVE InOrder
  OBVIOUS
<1>1. TypeOK /\ OrderInv /\ PageInv
  BY DEF IInv, OrderInv
<1>2. page.stream = stream => page.cursor <= sequence
  BY <1>1 DEF PageInv
<1>3. socket.phase = "connecting" /\ socket.asked = stream => socket.after <= sequence
  BY <1>1 DEF OrderInv, ConnectingInv
<1>4. ASSUME Subscribed, NEW i \in DOMAIN Pending, Pending[i].kind = "event"
      PROVE  /\ \A j \in 1 .. i - 1 : Pending[j].kind = "event" => Later(Pending[i], Pending[j])
             /\ Pending[i].stream = socket.asked => Pending[i].seq > socket.after
             /\ (load.state # "done" /\ Pending[i].stream = page.stream)
                  => Pending[i].seq > page.cursor
  <2> DEFINE N == Len(Backlog)
             L == Len(sub.queue)
  <2>1. QueueInv /\ SentInv /\ BacklogOrdered
    BY <1>1, <1>4 DEF OrderInv, OpenInv
  <2>2. /\ Backlog \in Seq(Msg) /\ sub.queue \in Seq(Msg) /\ DOMAIN Backlog = 1 .. N
        /\ DOMAIN sub.queue = 1 .. L
        /\ \A k \in 1 .. N : Backlog[k].stream \in Nat /\ Backlog[k].seq \in Nat
    BY <1>1, BacklogTypes
  <2>3. /\ N \in Nat /\ L \in Nat /\ DOMAIN Pending = 1 .. N + L
        /\ \A k \in 1 .. N : Pending[k] = Backlog[k]
        /\ \A k \in 1 .. L : Pending[N + k] = sub.queue[k]
    <3> DEFINE p == Backlog \o sub.queue
    <3>1. /\ N \in Nat /\ L \in Nat /\ Len(p) = N + L /\ DOMAIN p = 1 .. Len(p)
          /\ \A k \in 1 .. N : p[k] = Backlog[k]
          /\ \A k \in 1 .. L : p[N + k] = sub.queue[k]
      BY <2>2, Concatenation
    <3>2. Pending = p
      BY DEF Pending, Backlog
    <3> HIDE DEF p
    <3> QED
      BY <3>1, <3>2
  <2>4. /\ sequence \in Nat /\ stream \in Nat \ {0} /\ L <= sequence + 1
        /\ socket.sentStream \in Nat /\ socket.sentSeq \in Nat
        /\ socket.asked \in Nat /\ socket.after \in Nat
        /\ page.stream \in Nat /\ page.cursor \in Nat
    BY <1>1, <2>1, FieldTypes DEF QueueInv
  <2>5. ASSUME NEW k \in 1 .. L
        PROVE  /\ Pending[N + k].stream = stream /\ Pending[N + k].seq = sequence - L + k
               /\ Pending[N + k].kind = "event" => sequence - L + k # 0
    <3>1. Pending[N + k] = Entry(sequence - L + k)
      BY <2>1, <2>2, <2>3 DEF QueueInv
    <3> QED
      BY <3>1 DEF Entry, Message
  <2>6. ASSUME NEW s \in Nat, NEW n \in Nat, SentUpTo(s, n)
        PROVE  s <= stream /\ (s = stream => n <= sequence - L)
    <3>1. /\ s <= socket.sentStream /\ (s = socket.sentStream => n <= socket.sentSeq)
          /\ socket.sentStream <= stream
          /\ socket.sentStream = stream => socket.sentSeq <= sequence - L
      BY <2>1, <2>6 DEF SentInv, SentUpTo
    <3> HIDE DEF L
    <3> QED
      BY <2>3, <2>4, <3>1
  <2> HIDE DEF N, L
  <2>7. CASE i \in 1 .. N
    <3>1. i \in DOMAIN Backlog /\ Pending[i] = Backlog[i]
      BY <2>2, <2>3, <2>7
    <3>2. ASSUME NEW j \in 1 .. i - 1 PROVE Pending[j] = Backlog[j]
      <4>1. j \in 1 .. N
        BY <2>3, <2>7
      <4> QED
        BY <2>3, <4>1
    <3> QED
      BY <1>4, <2>1, <3>1, <3>2 DEF BacklogOrdered, IsEvent
  <2>8. CASE i \notin 1 .. N
    <3> DEFINE k == i - N
               n == sequence - L + k
    <3>1. k \in 1 .. L /\ i = N + k
      BY <2>3, <2>8
    <3> HIDE DEF k
    <3>2. Pending[i].stream = stream /\ Pending[i].seq = n
      BY <2>5, <3>1
    <3>3. n \in Int /\ n > sequence - L
      BY <2>3, <2>4, <3>1
    <3> HIDE DEF n
    <3>4. ASSUME NEW j \in 1 .. i - 1 PROVE Later(Pending[i], Pending[j])
      <4>1. CASE j \in 1 .. N
        <5>1. Pending[j] = Backlog[j] /\ SentUpTo(Backlog[j].stream, Backlog[j].seq)
          BY <2>1, <2>2, <2>3, <4>1 DEF SentInv
        <5>2. Backlog[j].stream \in Nat /\ Backlog[j].seq \in Nat
          BY <2>2, <4>1
        <5>3. Backlog[j].stream <= stream /\ (Backlog[j].stream = stream =>
                Backlog[j].seq <= sequence - L)
          BY <2>6, <5>1, <5>2
        <5>4. stream > Backlog[j].stream \/ (stream = Backlog[j].stream /\ n > Backlog[j].seq)
          BY <2>3, <2>4, <3>3, <5>2, <5>3
        <5> QED
          BY <3>2, <5>1, <5>4 DEF Later
      <4>2. CASE j \notin 1 .. N
        <5> DEFINE h == j - N
        <5>1. h \in 1 .. L /\ j = N + h /\ h < k
          BY <2>3, <3>1, <4>2
        <5> HIDE DEF h
        <5>2. Pending[j].stream = stream /\ Pending[j].seq = sequence - L + h
          BY <2>5, <5>1
        <5>3. n > sequence - L + h
          BY <2>3, <2>4, <3>1, <5>1 DEF n
        <5> QED
          BY <3>2, <5>2, <5>3 DEF Later
      <4> QED
        BY <4>1, <4>2
    <3>5. stream = socket.asked => n > socket.after
      <4>1. SentUpTo(socket.asked, socket.after)
        BY <2>1 DEF SentInv
      <4>2. socket.asked = stream => socket.after <= sequence - L
        BY <2>4, <2>6, <4>1
      <4> QED
        BY <2>3, <2>4, <3>3, <4>2
    <3>6. load.state # "done" /\ stream = page.stream => n > page.cursor
      <4>1. load.state # "done" => SentUpTo(page.stream, page.cursor)
        BY <2>1 DEF SentInv
      <4>2. load.state # "done" /\ page.stream = stream => page.cursor <= sequence - L
        BY <2>4, <2>6, <4>1
      <4> QED
        BY <2>3, <2>4, <3>3, <4>2
    <3> QED
      BY <3>2, <3>4, <3>5, <3>6
  <2> QED
    BY <2>7, <2>8
<1> QED
  BY <1>2, <1>3, <1>4 DEF InOrder

\* An event reaches the page once and in order, through reconnections, resets
\* and a queue that drops its oldest entries, and no cursor runs ahead of its
\* stream: for any sizes of history, queue and display.
THEOREM EventsArriveInOrder == Spec => []InOrder
<1>1. IInv => InOrder
  BY OrderedFromInv
<1> QED
  BY <1>1, EventInvariant, PTL

\* An interval is its smallest to its largest member.
LEMMA NoGapFromInv == IInv => NoSilentGap
<1> SUFFICES ASSUME IInv, ~overtaken, page.shown # {}, ~page.told
             PROVE  page.shown = Min(page.shown) .. Max(page.shown)
  BY DEF NoSilentGap
<1>1. PICK lo \in 1 .. page.cursor + 1 : page.shown = lo .. page.cursor
  BY DEF IInv, GapInv, ShownInv
<1>2. TypeOK
  BY DEF IInv
<1>3. page.cursor \in Nat
  BY <1>2, FieldTypes
<1> DEFINE S == page.shown
           c == page.cursor
<1> HIDE DEF c
<1>4. S = lo .. c /\ lo \in Int /\ c \in Int
  BY <1>1, <1>3 DEF c
<1> HIDE DEF S
<1>5. lo <= c
  <2>1. S # {}
    BY DEF S
  <2> QED
    BY <1>4, <2>1
<1>6. S \in SUBSET Int /\ lo \in S /\ c \in S /\ \A y \in S : lo <= y /\ c >= y
  BY <1>4, <1>5
<1>7. Min(S) = lo /\ Max(S) = c
  BY <1>6, MinIs, MaxIs
<1> QED
  BY <1>4, <1>7 DEF S

\* What the page shows of a stream has no hole in it that a notice did not tell
\* it of, unless one of its own requests was overtaken: for any sizes of history,
\* queue and display, and any number of events, resets and lost connections.
THEOREM NoSilentLoss == Spec => []NoSilentGap
<1>1. IInv => NoSilentGap
  BY NoGapFromInv
<1> QED
  BY <1>1, EventInvariant, PTL
=============================================================================
