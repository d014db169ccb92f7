--------------------------- MODULE ComponentProofs ---------------------------
(***************************************************************************)
(* Theorems about the components that need no composition: Startup and      *)
(* Configure, the log of a daemon, the schedule of a run, and the evidence  *)
(* a run collects, each for every value of its constants.                   *)
(*                                                                          *)
(*   - Startup follows a node through a round: what its task can be in each *)
(*     stage, and that from the restart of its gateway to the end of its    *)
(*     watch window the event "failed" is set exactly if the node lost its  *)
(*     daemon in this round.                                                *)
(*   - BoundedLog: the two files joined are an end of what was written at   *)
(*     every step of a rotation or a trim, and what is gone did not fit.    *)
(*   - Schedule: what is due next is due no earlier than what was sent, the *)
(*     timers count what was sent, and a round-robin source is always       *)
(*     inside one turn over the other nodes.                                *)
(*   - RunEvidence: an id is given out before any answer with it exists, so *)
(*     an answer to a request of this sampling was counted after it began;  *)
(*     the totals of a node only grow, from its view over what is on the    *)
(*     way to its counter; an edit is recorded where it is applied.         *)
(*                                                                          *)
(* Induction over data (what a sum over a set or a sequence is) is done by  *)
(* the least or the smallest counterexample: LeastNumber, SmallestSet.      *)
(***************************************************************************)
EXTENDS Startup, Configure, RunEvidence, BoundedLog, Schedule,
        SequenceTheorems, FiniteSetTheorems, WellFoundedInduction, TLAPS

\* The stages of a round.
RoundStages == {"stop", "start", "verify"}

\* The rounds divide the nodes into those verified and those still to verify.
Division ==
    /\ stage \in {"configure", "reboot"} => verified = {}
    /\ stage \in RoundStages =>
         /\ pending \cap verified = {}
         /\ pending \cup verified = Nodes
    /\ stage \in {"warmup", "done"} => verified = Nodes

\* What the task of n can be.
TaskOf(n) ==
    /\ stage \in RoundStages /\ n \notin pending => task[n] = "none"
    /\ stage = "stop" /\ n \in pending => task[n] \in {"waiting", "ok"}
    /\ stage = "start" /\ n \in pending => task[n] \in {"waiting", "ok", "error"}
    /\ stage = "verify" /\ n \in pending => task[n] # "none"
    /\ stage \in {"done", "cleanup"} => task[n] \notin {"thread", "waiting"}
    /\ task[n] = "lost" => stage \in {"verify", "cleanup"}

\* What the round knows of the losses of n: the signal of the intended reboot
\* is gone once the gateway starts again.
LossOf(n) ==
    /\ stage = "stop" /\ n \in pending => n \notin unstable
    /\ stage = "start" /\ task[n] = "waiting" => n \notin unstable
    /\ \/ stage = "start" /\ task[n] = "ok"
       \/ stage = "verify" /\ task[n] \in {"thread", "waiting"}
       => (signal[n] <=> n \in unstable)
    /\ stage = "verify" /\ task[n] = "ok" => n \notin unstable
    /\ task[n] = "lost" => n \in unstable
    /\ n \in verified => n \notin unstable

Tasks == \A n \in Nodes : TaskOf(n)
Losses == \A n \in Nodes : LossOf(n)

IInv == TypeOK /\ Division /\ Tasks /\ Losses

-----------------------------------------------------------------------------
(* Proofs: one lemma per kind of step, one step per part of IInv. *)

USE StartupAssumption
USE DEF work, nodes, Stages, RoundStages, Busy, Begin

\* A loss of the daemon preserves the inductive invariant.
LEMMA GatewayLostInv ==
    ASSUME IInv, NEW n \in Nodes, GatewayLost(n)
    PROVE  IInv'
<1>1. TypeOK'
  BY DEF IInv, TypeOK, GatewayLost
<1>2. Division' /\ Tasks'
  BY DEF IInv, TypeOK, Division, Tasks, TaskOf, GatewayLost
<1>3. Losses'
  BY DEF IInv, TypeOK, Division, Tasks, TaskOf, Losses, LossOf, GatewayLost
<1> QED BY <1>1, <1>2, <1>3 DEF IInv

\* A process exit preserves it.
LEMMA ProcessExitsInv ==
    ASSUME IInv, ProcessExits
    PROVE  IInv'
BY DEF IInv, TypeOK, Division, Tasks, TaskOf, Losses, LossOf, ProcessExits

\* The end of a node's task preserves it.
LEMMA NodeStepInv ==
    ASSUME IInv, NEW n \in Nodes, NodeStep(n)
    PROVE  IInv'
<1> USE DEF IInv, TypeOK, Division, Tasks, TaskOf, Losses, LossOf
<1>1. CASE Configured(n)
  BY <1>1 DEF Configured
<1>2. CASE RebootAwaited(n)
  BY <1>2 DEF RebootAwaited
<1>3. CASE GatewayStopped(n)
  BY <1>3 DEF GatewayStopped
<1>4. CASE GatewayStarted(n)
  BY <1>4 DEF GatewayStarted
<1>5. CASE VerifyRead(n)
  BY <1>5 DEF VerifyRead
<1>6. CASE VerifyWatched(n)
  BY <1>6 DEF VerifyWatched
<1>7. CASE WarmedUp(n)
  BY <1>7 DEF WarmedUp
<1> QED BY <1>1, <1>2, <1>3, <1>4, <1>5, <1>6, <1>7 DEF NodeStep

\* start()'s except clause, once no task is busy, preserves it.
LEMMA StartupFailsInv ==
    ASSUME IInv, Settled, StartupFails, UNCHANGED nodes
    PROVE  IInv'
BY DEF IInv, TypeOK, Division, Tasks, TaskOf, Losses, LossOf, Settled, StartupFails

\* The end of a round preserves it: every pending node is then verified or lost.
LEMMA EndRoundInv ==
    ASSUME IInv, Settled, ~Raised, stage = "verify", EndRound, UNCHANGED nodes
    PROVE  IInv'
<1> DEFINE again == {n \in pending : task[n] = "lost"}
           good == verified \cup {n \in pending : task[n] = "ok"}
<1>1. \A n \in pending : task[n] \in {"ok", "lost"}
  BY DEF IInv, TypeOK, Tasks, TaskOf, Settled, Raised
<1>2. /\ again \subseteq Nodes /\ good \subseteq Nodes
      /\ again \cap good = {} /\ again \cup good = Nodes
  BY <1>1 DEF IInv, TypeOK, Division
<1>3. \A n \in good : n \notin unstable
  BY DEF IInv, TypeOK, Losses, LossOf
<1>4. CASE /\ again # {} /\ round < Rounds
           /\ verified' = good /\ round' = round + 1
           /\ BeginRound(again) /\ UNCHANGED life
  <2>1. TypeOK'
    BY <1>2, <1>4 DEF IInv, TypeOK, BeginRound
  <2>2. Division' /\ Tasks'
    BY <1>2, <1>4 DEF BeginRound, Division, Tasks, TaskOf
  <2>3. Losses'
    BY <1>2, <1>3, <1>4 DEF BeginRound, Losses, LossOf
  <2> QED BY <2>1, <2>2, <2>3 DEF IInv
<1>5. CASE StartupFails
  BY <1>5, StartupFailsInv
<1>6. CASE /\ again = {} /\ life # "FAILED"
           /\ verified' = good
           /\ stage' = "warmup" /\ life' = "WARMING_UP"
           /\ task' = Begin(Nodes, "thread") /\ pending' = {}
           /\ UNCHANGED <<round, unstable>>
  <2>1. TypeOK'
    BY <1>2, <1>6 DEF IInv, TypeOK
  <2>2. Division' /\ Tasks'
    BY <1>2, <1>6 DEF Division, Tasks, TaskOf
  <2>3. Losses'
    BY <1>2, <1>3, <1>6 DEF Losses, LossOf
  <2> QED BY <2>1, <2>2, <2>3 DEF IInv
<1> QED BY <1>4, <1>5, <1>6 DEF EndRound

\* start() going on to its next stage preserves it.
LEMMA NextStageInv ==
    ASSUME IInv, NextStage
    PROVE  IInv'
<1> USE DEF IInv, TypeOK, Division, Tasks, TaskOf, Losses, LossOf
<1>1. CASE Raised /\ StartupFails
  BY <1>1, StartupFailsInv DEF NextStage
<1>2. CASE ~Raised /\ stage = "configure"
  BY <1>2 DEF NextStage
<1>3. CASE ~Raised /\ stage = "reboot"
  BY <1>3 DEF NextStage, BeginRound
<1>4. CASE ~Raised /\ stage = "stop"
  BY <1>4 DEF NextStage
<1>5. CASE ~Raised /\ stage = "start"
  BY <1>5 DEF NextStage, Settled, Raised
<1>6. CASE ~Raised /\ stage = "verify"
  BY <1>6, EndRoundInv DEF NextStage
<1> QED BY <1>1, <1>2, <1>3, <1>4, <1>5, <1>6 DEF NextStage

\* The end of the warm-up preserves it.
LEMMA EnterRunningInv ==
    ASSUME IInv, EnterRunning
    PROVE  IInv'
<1>1. CASE StartupFails
  BY <1>1, StartupFailsInv DEF EnterRunning
<1>2. CASE stage' = "done" /\ life' = "RUNNING" /\ UNCHANGED <<round, work, verified, unstable>>
  BY <1>2 DEF IInv, TypeOK, Division, Tasks, TaskOf, Losses, LossOf, EnterRunning, Settled
<1> QED BY <1>1, <1>2 DEF EnterRunning

\* The inductive invariant holds in every reachable state of start().
THEOREM InductiveInvariant == Spec => []IInv
<1>1. Init => IInv
  BY DEF Init, IInv, TypeOK, Division, Tasks, TaskOf, Losses, LossOf
<1>2. IInv /\ [Next]_vars => IInv'
  <2> SUFFICES ASSUME IInv, [Next]_vars PROVE IInv'
    OBVIOUS
  <2>1. CASE UNCHANGED vars
    BY <2>1 DEF vars, IInv, TypeOK, Division, Tasks, TaskOf, Losses, LossOf
  <2>2. CASE Next
    BY <2>2, GatewayLostInv, NodeStepInv, ProcessExitsInv, NextStageInv,
       EnterRunningInv DEF Next
  <2> QED BY <2>1, <2>2
<1> QED BY <1>1, <1>2, PTL DEF Spec

\* start() keeps every variable a value of its kind and never begins a round
\* beyond the last (the loop of _configure_nodes).
THEOREM TypeCorrect == Spec => []TypeOK
<1>1. IInv => TypeOK
  BY DEF IInv
<1> QED BY <1>1, InductiveInvariant, PTL

\* No node warms up unverified, no verified node had lost its daemon in its
\* round, and no node is restarted again without such a loss
\* (_configure_nodes, verify_restarted).
THEOREM RestartsAreJustified == Spec => []RestartsMatchLosses
<1>1. IInv => RestartsMatchLosses
  BY DEF IInv, TypeOK, Division, Losses, LossOf, RestartsMatchLosses
<1> QED BY <1>1, InductiveInvariant, PTL

\* No worker thread uses a gateway or a process that cleanup is closing
\* (settle_node_tasks).
THEOREM CleanupIsQuiet == Spec => []NoThreadAtCleanup
<1>1. IInv => NoThreadAtCleanup
  BY DEF IInv, Tasks, TaskOf, NoThreadAtCleanup
<1> QED BY <1>1, InductiveInvariant, PTL

-----------------------------------------------------------------------------
(* The call that configures a node.  Once the transaction is committed a      *)
(* reboot changes nothing, so what the second session reads is still so.      *)

CallInv ==
    /\ at \in {"read", "verify", "verified"} => memory = disk
    /\ at = "verify" => cache = memory
    /\ at = "verified" => memory = Requested

\* Only the commit leads to the second session.
LEMMA CommitComesLast ==
    ASSUME NEW m, IsMessage(m), m # "commit"
    PROVE  After(m) \notin {"read", "verify", "verified"}
<1> DEFINE i == CHOOSE j \in DOMAIN Messages : Messages[j] = m
<1>1. i \in DOMAIN Messages /\ Messages[i] = m
  BY DEF IsMessage
<1> HIDE DEF i
<1>2. i \in 1 .. 5
  BY <1>1 DEF Messages
<1>3. Messages[i + 1] \in {"owner", "lora", "device", "channel", "commit"}
  BY <1>2 DEF Messages
<1> QED BY <1>3 DEF After, i

\* The steps of one node's configuration keep what is known of its calls.
LEMMA CallStepInv ==
    ASSUME CallInv, [ConfigureNext]_node
    PROVE  CallInv'
<1> USE DEF CallInv
<1>1. CASE UNCHANGED node
  BY <1>1 DEF node
<1>2. CASE BeginCall \/ Reboot \/ Connect \/ Send
  BY <1>2 DEF BeginCall, Reboot, Connect, Send, Messages
<1>3. CASE Answered
  <2>1. CASE at = "commit"
    BY <1>3, <2>1 DEF Answered, Handle, After, Settings
  <2>2. CASE at # "commit"
    <3>1. at \in Settings \cup {"begin"}
      BY <1>3, <2>2 DEF Answered, Handle
    <3>2. \E j \in 1 .. 6 : Messages[j] = at
      BY <3>1 DEF Settings, Messages
    <3>3. DOMAIN Messages = 1 .. 6
      BY DEF Messages
    <3>4. IsMessage(at)
      BY <3>2, <3>3 DEF IsMessage
    <3> QED BY <1>3, <2>2, <3>4, CommitComesLast DEF Answered
  <2> QED BY <2>1, <2>2
<1>4. CASE Raises
  BY <1>4 DEF Raises
<1>5. CASE Read \/ Verify
  BY <1>5 DEF Read, Verify
<1> QED BY <1>1, <1>2, <1>3, <1>4, <1>5 DEF ConfigureNext

\* configure_and_verify_node: a node reported as verified has the requested settings
\* in memory and on disk, whatever reboots, refusals and lost answers came before.
THEOREM VerifiedNodesAreConfigured == ConfigureSpec => []VerifiedIsApplied
<1>1. ConfigureInit => CallInv
  BY DEF ConfigureInit, CallInv
<1>2. CallInv => VerifiedIsApplied
  BY DEF CallInv, VerifiedIsApplied
<1> QED BY <1>1, <1>2, CallStepInv, PTL DEF ConfigureSpec

-----------------------------------------------------------------------------
(* Least and greatest members, and the positions of a sequence.              *)

HIDE StartupAssumption

\* A set of numbers that is not empty has a least member: the form in which
\* these proofs use induction over the numbers.
LEMMA LeastNumber ==
    ASSUME NEW K \in SUBSET Nat, K # {}
    PROVE  \E m \in K : \A k \in K : m <= k
<1> DEFINE R == OpToRel(<, Nat)
<1>1. IsWellFoundedOn(R, Nat)
  BY NatLessThanWellFounded
<1> HIDE DEF R
<1>2. PICK m \in K : \A k \in K : ~(<<k, m>> \in R)
  BY <1>1, WFMin
<1>3. \A k \in K : ~(k < m)
  BY <1>2 DEF R, OpToRel
<1> QED
  BY <1>3

\* Min is the least member of a set of numbers.
LEMMA MinOf ==
    ASSUME NEW K \in SUBSET Nat, K # {}
    PROVE  Min(K) \in K /\ \A k \in K : Min(K) <= k
<1>1. \E m \in K : \A k \in K : m <= k
  BY LeastNumber
<1> QED
  BY <1>1 DEF Min

\* Max is the greatest member of a bounded set of numbers.
LEMMA MaxOf ==
    ASSUME NEW n \in Nat, NEW K \in SUBSET (0 .. n), K # {}
    PROVE  Max(K) \in K /\ \A k \in K : k <= Max(K)
<1> DEFINE L == {i \in Nat : \E k \in K : i = n - k}
<1>1. L \in SUBSET Nat /\ L # {}
  <2>1. PICK k \in K : TRUE
    OBVIOUS
  <2>2. n - k \in L
    BY <2>1
  <2> QED
    BY <2>2
<1>2. PICK m \in L : \A i \in L : m <= i
  <2> HIDE DEF L
  <2> QED
    BY <1>1, LeastNumber
<1>3. PICK k \in K : m = n - k
  BY <1>2
<1>4. ASSUME NEW j \in K
      PROVE  k >= j
  <2>1. n - j \in L
    OBVIOUS
  <2> QED
    BY <1>2, <1>3, <2>1
<1>5. \E x \in K : \A y \in K : x >= y
  BY <1>4
<1>6. Max(K) \in K /\ \A y \in K : Max(K) >= y
  BY <1>5 DEF Max
<1> QED
  BY <1>6

\* The greater and the lesser of two numbers.
LEMMA OfTwo ==
    ASSUME NEW a \in Int, NEW b \in Int
    PROVE  /\ Max({a, b}) = IF a >= b THEN a ELSE b
           /\ Min({a, b}) = IF a <= b THEN a ELSE b
<1>1. \E x \in {a, b} : \A y \in {a, b} : x >= y
  OBVIOUS
<1>2. Max({a, b}) \in {a, b} /\ \A y \in {a, b} : Max({a, b}) >= y
  BY <1>1 DEF Max
<1>3. \E x \in {a, b} : \A y \in {a, b} : x <= y
  OBVIOUS
<1>4. Min({a, b}) \in {a, b} /\ \A y \in {a, b} : Min({a, b}) <= y
  BY <1>3 DEF Min
<1> QED
  BY <1>2, <1>4

\* SetToSeq lists each member of a finite set once.
LEMMA Listed ==
    ASSUME NEW S, IsFiniteSet(S)
    PROVE  /\ Cardinality(S) \in Nat
           /\ SetToSeq(S) \in [1 .. Cardinality(S) -> S]
           /\ \A i, j \in 1 .. Cardinality(S) : SetToSeq(S)[i] = SetToSeq(S)[j] => i = j
           /\ \A x \in S : \E i \in 1 .. Cardinality(S) : SetToSeq(S)[i] = x
<1> DEFINE D == 1 .. Cardinality(S)
           f == SetToSeq(S)
<1>1. Cardinality(S) \in Nat /\ ExistsBijection(D, S)
  BY FS_CardinalityType
<1>2. \E g \in [D -> S] : IsInjective(g)
  BY <1>1 DEF ExistsBijection, Bijection, Injection
<1>3. f \in [D -> S] /\ IsInjective(f)
  BY <1>2 DEF SetToSeq
<1> HIDE DEF f
<1>4. f \in Injection(D, S)
  BY <1>3 DEF Injection
<1>5. Cardinality(D) = Cardinality(S)
  BY <1>1, FS_Interval
<1>6. f \in Surjection(D, S)
  BY <1>4, <1>5, FS_Injection
<1>7. \A x \in S : \E i \in D : f[i] = x
  BY <1>6 DEF Surjection
<1>8. \A i, j \in D : f[i] = f[j] => i = j
  BY <1>3 DEF IsInjective
<1> HIDE DEF D
<1>9. Cardinality(S) \in Nat /\ f \in [D -> S]
  BY <1>1, <1>3
<1> QED
  BY <1>7, <1>8, <1>9 DEF D, f

-----------------------------------------------------------------------------
(* The sum of a function over a finite set, from the table by which the      *)
(* library defines it.                                                       *)

\* A family of subsets of a finite set has a member none of whose proper subsets is in
\* the family.
LEMMA SmallestSet ==
    ASSUME NEW S, IsFiniteSet(S), NEW F \in SUBSET SUBSET S, F # {}
    PROVE  \E s \in F : \A t \in F : t \subseteq s => t = s
<1> DEFINE R == StrictSubsetOrdering(S)
<1>1. IsWellFoundedOn(R, FiniteSubsetsOf(S))
  BY FS_StrictSubsetOrderingWellFounded
<1>2. FiniteSubsetsOf(S) = SUBSET S
  BY FS_FiniteSubsetsOfFinite
<1> HIDE DEF R
<1>3. PICK s \in F : \A t \in F : ~(<<t, s>> \in R)
  BY <1>1, <1>2, WFMin
<1>4. ASSUME NEW t \in F, t \subseteq s
      PROVE  t = s
  BY <1>3, <1>4 DEF R, StrictSubsetOrdering
<1> QED
  BY <1>4

\* The member of s that the library's sum adds next.
Pick(s) == CHOOSE x \in s : TRUE

\* g holds the sum of f over every subset of S, as the library defines it.
IsTable(g, f, S) ==
    g = [s \in SUBSET S |-> IF s = {} THEN 0 ELSE f[Pick(s)] + g[s \ {Pick(s)}]]

\* The library's sum is the last entry of such a table.
LEMMA SumIs ==
    ASSUME NEW f, NEW S
    PROVE  SumFunctionOnSet(f, S) = (CHOOSE g : IsTable(g, f, S))[S]
BY DEF SumFunctionOnSet, FoldFunctionOnSet, MapThenFoldSet, IsTable, Pick

\* The picked member is one.
LEMMA Picked == ASSUME NEW s, s # {} PROVE Pick(s) \in s
BY DEF Pick

\* Two tables agree where both are defined.
LEMMA TablesAgree ==
    ASSUME NEW f, NEW S, NEW T, IsFiniteSet(S), NEW g, NEW h, IsTable(g, f, S), IsTable(h, f, T)
    PROVE  \A s \in SUBSET S : s \subseteq T => g[s] = h[s]
<1> SUFFICES ASSUME \E s \in SUBSET S : s \subseteq T /\ g[s] # h[s]
             PROVE  FALSE
  OBVIOUS
<1> DEFINE F == {s \in SUBSET S : s \subseteq T /\ g[s] # h[s]}
<1>1. PICK s \in F : \A t \in F : t \subseteq s => t = s
  <2>1. F \in SUBSET SUBSET S /\ F # {}
    OBVIOUS
  <2> HIDE DEF F
  <2> QED
    BY <2>1, SmallestSet
<1>2. s \in SUBSET S /\ s \subseteq T /\ g[s] # h[s]
  BY <1>1
<1> DEFINE r == s \ {Pick(s)}
<1>3. /\ g[s] = IF s = {} THEN 0 ELSE f[Pick(s)] + g[r]
      /\ h[s] = IF s = {} THEN 0 ELSE f[Pick(s)] + h[r]
  BY <1>2 DEF IsTable
<1>4. s # {} /\ g[r] # h[r]
  BY <1>2, <1>3
<1>5. r # s
  BY <1>4, Picked
<1>6. r \in F
  BY <1>2, <1>4
<1> QED
  BY <1>1, <1>5, <1>6

\* The table of a finite set exists.
LEMMA TableExists ==
    ASSUME NEW f, NEW S, IsFiniteSet(S)
    PROVE  \E g : IsTable(g, f, S)
<1> DEFINE F == {s \in SUBSET S : ~\E g : IsTable(g, f, s)}
<1> SUFFICES ASSUME F # {}
             PROVE  FALSE
  OBVIOUS
<1>1. PICK s \in F : \A t \in F : t \subseteq s => t = s
  <2>1. F \in SUBSET SUBSET S
    OBVIOUS
  <2> HIDE DEF F
  <2> QED
    BY <2>1, SmallestSet
<1>2. s \in SUBSET S /\ ~\E g : IsTable(g, f, s)
  BY <1>1
<1>3. \A t \in SUBSET s : t # s => \E g : IsTable(g, f, t)
  BY <1>1, <1>2
<1> HIDE DEF F
<1> DEFINE V(t) == SumFunctionOnSet(f, t)
           own(t) == CHOOSE g : IsTable(g, f, t)
           G == [t \in SUBSET s |-> IF t = {} THEN 0 ELSE f[Pick(t)] + V(t \ {Pick(t)})]
<1>4. ASSUME NEW t \in SUBSET s, t # s
      PROVE  IsTable(own(t), f, t) /\ V(t) = own(t)[t]
  BY <1>3, <1>4, SumIs
<1>5. ASSUME NEW t \in SUBSET s, t # s
      PROVE  V(t) = G[t]
  <2>1. V(t) = IF t = {} THEN 0 ELSE f[Pick(t)] + own(t)[t \ {Pick(t)}]
    <3>1. IsTable(own(t), f, t) /\ V(t) = own(t)[t]
      BY <1>4, <1>5
    <3> HIDE DEF V, own, G
    <3> QED
      BY <3>1 DEF IsTable
  <2>2. CASE t = {}
    <3> HIDE DEF V, own
    <3> QED
      BY <2>1, <2>2
  <2>3. CASE t # {}
    <3> DEFINE r == t \ {Pick(t)}
    <3>1. r \in SUBSET s /\ r # s /\ r \subseteq t
      BY <1>5
    <3>2. IsTable(own(r), f, r) /\ V(r) = own(r)[r] /\ IsTable(own(t), f, t)
      BY <1>4, <1>5, <3>1
    <3>3. IsFiniteSet(r)
      BY <1>2, <3>1, FS_Subset
    <3> HIDE DEF V, own, r
    <3>4. own(r)[r] = own(t)[r]
      BY <3>1, <3>2, <3>3, TablesAgree
    <3> QED
      BY <2>1, <2>3, <3>2, <3>4 DEF r
  <2> QED
    BY <2>2, <2>3
<1> HIDE DEF V, own
<1>6. ASSUME NEW t \in SUBSET s, t # {}
      PROVE  V(t \ {Pick(t)}) = G[t \ {Pick(t)}]
  <2>1. t \ {Pick(t)} \in SUBSET s /\ t \ {Pick(t)} # s
    BY <1>6, Picked
  <2> QED
    BY <1>5, <2>1
<1>7. G = [t \in SUBSET s |-> IF t = {} THEN 0 ELSE f[Pick(t)] + G[t \ {Pick(t)}]]
  <2>1. \A t \in SUBSET s : G[t] = IF t = {} THEN 0 ELSE f[Pick(t)] + G[t \ {Pick(t)}]
    BY <1>6
  <2> DEFINE H == [t \in SUBSET s |-> IF t = {} THEN 0 ELSE f[Pick(t)] + G[t \ {Pick(t)}]]
  <2>2. \A t \in SUBSET s : G[t] = H[t]
    BY <2>1
  <2>3. G \in [SUBSET s -> {G[t] : t \in SUBSET s}] /\ H \in [SUBSET s -> {H[t] : t \in SUBSET s}]
    OBVIOUS
  <2> HIDE DEF G, H
  <2>4. DOMAIN G = SUBSET s /\ DOMAIN H = SUBSET s /\ G = [t \in DOMAIN G |-> G[t]] /\ H = [t \in DOMAIN H |-> H[t]]
    BY <2>3
  <2>5. G = H
    BY <2>2, <2>4
  <2> QED
    BY <2>5 DEF H
<1>8. IsTable(G, f, s)
  <2> HIDE DEF G
  <2> QED
    BY <1>7 DEF IsTable
<1> QED
  BY <1>2, <1>8

\* The sum over no elements is 0.
LEMMA SumEmpty == \A f : SumFunctionOnSet(f, {}) = 0
<1> SUFFICES ASSUME NEW f
             PROVE  SumFunctionOnSet(f, {}) = 0
  OBVIOUS
<1> DEFINE g == CHOOSE h : IsTable(h, f, {})
<1>1. IsTable(g, f, {})
  BY TableExists, FS_EmptySet
<1>2. SumFunctionOnSet(f, {}) = g[{}]
  BY SumIs
<1> HIDE DEF g
<1> QED
  BY <1>1, <1>2 DEF IsTable

\* A sum is the picked term and the sum of the others.
LEMMA SumPick ==
    ASSUME NEW f, NEW S, IsFiniteSet(S), S # {}
    PROVE  SumFunctionOnSet(f, S) = f[Pick(S)] + SumFunctionOnSet(f, S \ {Pick(S)})
<1> DEFINE own(t) == CHOOSE h : IsTable(h, f, t)
           r == S \ {Pick(S)}
<1>1. IsFiniteSet(r) /\ r \in SUBSET S
  BY FS_RemoveElement
<1>2. IsTable(own(S), f, S) /\ IsTable(own(r), f, r)
  BY <1>1, TableExists
<1>3. SumFunctionOnSet(f, S) = own(S)[S] /\ SumFunctionOnSet(f, r) = own(r)[r]
  BY SumIs
<1> HIDE DEF own
<1>4. own(S)[S] = f[Pick(S)] + own(S)[r]
  BY <1>2 DEF IsTable
<1>5. own(r)[r] = own(S)[r]
  BY <1>1, <1>2, TablesAgree
<1> QED
  BY <1>3, <1>4, <1>5

\* The sum of integers is one, and any element can be taken first.
LEMMA SumTypeAndRemove ==
    ASSUME NEW f, NEW S, IsFiniteSet(S), \A x \in S : f[x] \in Int
    PROVE  /\ SumFunctionOnSet(f, S) \in Int
           /\ \A x \in S : SumFunctionOnSet(f, S) = f[x] + SumFunctionOnSet(f, S \ {x})
<1> DEFINE V(s) == SumFunctionOnSet(f, s)
           Good(s) == V(s) \in Int /\ \A x \in s : V(s) = f[x] + V(s \ {x})
           F == {s \in SUBSET S : ~Good(s)}
<1> SUFFICES ASSUME F # {}
             PROVE  FALSE
  OBVIOUS
<1>1. PICK s \in F : \A t \in F : t \subseteq s => t = s
  <2>1. F \in SUBSET SUBSET S
    OBVIOUS
  <2> HIDE DEF F
  <2> QED
    BY <2>1, SmallestSet
<1>2. s \in SUBSET S /\ ~Good(s) /\ \A t \in SUBSET s : t # s => Good(t)
  BY <1>1
<1> HIDE DEF F
<1>3. IsFiniteSet(s)
  BY <1>2, FS_Subset
<1>4. s # {}
  <2> SUFFICES ASSUME s = {}
               PROVE  Good({})
    BY <1>2
  <2>1. V({}) = 0
    BY SumEmpty
  <2> HIDE DEF V
  <2> QED
    BY <2>1
<1> DEFINE c == Pick(s)
<1>5. c \in s /\ V(s) = f[c] + V(s \ {c})
  BY <1>3, <1>4, Picked, SumPick
<1> HIDE DEF V, c
<1>6. Good(s \ {c})
  BY <1>2, <1>5
<1>7. V(s) \in Int
  BY <1>2, <1>5, <1>6
<1>8. ASSUME NEW x \in s, x # c
      PROVE  V(s) = f[x] + V(s \ {x})
  <2> DEFINE q == s \ {c, x}
  <2>1. /\ (s \ {c}) \ {x} = q /\ (s \ {x}) \ {c} = q
        /\ q \in SUBSET s /\ q # s /\ s \ {x} \in SUBSET s /\ s \ {x} # s
    BY <1>5
  <2> HIDE DEF q
  <2>2. V(s \ {c}) = f[x] + V(q)
    BY <1>6, <1>8, <2>1
  <2>3. V(s \ {x}) = f[c] + V(q)
    BY <1>2, <1>5, <1>8, <2>1
  <2>4. V(q) \in Int /\ f[x] \in Int /\ f[c] \in Int
    BY <1>2, <1>5, <2>1
  <2> QED
    BY <1>5, <2>2, <2>3, <2>4
<1> QED
  BY <1>2, <1>5, <1>7, <1>8

\* What sums of three functions have in common with their values.
LEMMA SumRelated ==
    ASSUME NEW S, IsFiniteSet(S), NEW f, NEW g, NEW h,
           \A x \in S : f[x] \in Int /\ g[x] \in Int /\ h[x] \in Int
    PROVE  /\ (\A x \in S : f[x] <= g[x]) => SumFunctionOnSet(f, S) <= SumFunctionOnSet(g, S)
           /\ (\A x \in S : h[x] = f[x] + g[x]) =>
                SumFunctionOnSet(h, S) = SumFunctionOnSet(f, S) + SumFunctionOnSet(g, S)
<1> DEFINE U(s) == SumFunctionOnSet(f, s)
           V(s) == SumFunctionOnSet(g, s)
           W(s) == SumFunctionOnSet(h, s)
           Good(s) == /\ (\A x \in s : f[x] <= g[x]) => U(s) <= V(s)
                      /\ (\A x \in s : h[x] = f[x] + g[x]) => W(s) = U(s) + V(s)
           F == {s \in SUBSET S : ~Good(s)}
<1> SUFFICES ASSUME F # {}
             PROVE  FALSE
  OBVIOUS
<1>1. PICK s \in F : \A t \in F : t \subseteq s => t = s
  <2>1. F \in SUBSET SUBSET S
    OBVIOUS
  <2> HIDE DEF F
  <2> QED
    BY <2>1, SmallestSet
<1>2. s \in SUBSET S /\ ~Good(s) /\ \A t \in SUBSET s : t # s => Good(t)
  BY <1>1
<1> HIDE DEF F
<1>3. s # {}
  <2> SUFFICES ASSUME s = {}
               PROVE  Good({})
    BY <1>2
  <2>1. U({}) = 0 /\ V({}) = 0 /\ W({}) = 0
    BY SumEmpty
  <2> HIDE DEF U, V, W
  <2> QED
    BY <2>1
<1>4. PICK x \in s : TRUE
  BY <1>3
<1> DEFINE r == s \ {x}
<1>5. IsFiniteSet(s) /\ IsFiniteSet(r) /\ r \in SUBSET s /\ r # s
  BY <1>2, <1>4, FS_Subset
<1>6. Good(r)
  BY <1>2, <1>5
<1>7. /\ U(s) = f[x] + U(r) /\ U(r) \in Int /\ V(s) = g[x] + V(r) /\ V(r) \in Int
      /\ W(s) = h[x] + W(r) /\ W(r) \in Int
  BY <1>2, <1>4, <1>5, SumTypeAndRemove
<1>8. f[x] \in Int /\ g[x] \in Int /\ h[x] \in Int
  BY <1>2
<1> HIDE DEF U, V, W
<1> QED
  BY <1>2, <1>5, <1>6, <1>7, <1>8

\* Functions that agree have the same sum, and one value that differs makes the difference.
LEMMA SumUpdate ==
    ASSUME NEW S, IsFiniteSet(S), NEW f, NEW g, \A x \in S : f[x] \in Int /\ g[x] \in Int
    PROVE  /\ (\A x \in S : f[x] = g[x]) => SumFunctionOnSet(f, S) = SumFunctionOnSet(g, S)
           /\ \A k \in S : (\A x \in S \ {k} : f[x] = g[x]) =>
                SumFunctionOnSet(g, S) = SumFunctionOnSet(f, S) + (g[k] - f[k])
<1>1. ASSUME NEW T \in SUBSET S, \A x \in T : f[x] = g[x]
      PROVE  SumFunctionOnSet(f, T) = SumFunctionOnSet(g, T)
  <2>1. IsFiniteSet(T)
    BY FS_Subset
  <2>2. /\ \A x \in T : f[x] <= g[x] /\ g[x] <= f[x]
        /\ \A x \in T : f[x] \in Int /\ g[x] \in Int
    BY <1>1
  <2>3. SumFunctionOnSet(f, T) <= SumFunctionOnSet(g, T)
    BY <2>1, <2>2, SumRelated
  <2>4. SumFunctionOnSet(g, T) <= SumFunctionOnSet(f, T)
    BY <2>1, <2>2, SumRelated
  <2>5. SumFunctionOnSet(f, T) \in Int /\ SumFunctionOnSet(g, T) \in Int
    BY <2>1, <2>2, SumTypeAndRemove
  <2> QED
    BY <2>3, <2>4, <2>5
<1>2. ASSUME NEW k \in S, \A x \in S \ {k} : f[x] = g[x]
      PROVE  SumFunctionOnSet(g, S) = SumFunctionOnSet(f, S) + (g[k] - f[k])
  <2>1. SumFunctionOnSet(f, S \ {k}) = SumFunctionOnSet(g, S \ {k})
    BY <1>1, <1>2
  <2>2. /\ SumFunctionOnSet(f, S) = f[k] + SumFunctionOnSet(f, S \ {k})
        /\ SumFunctionOnSet(g, S) = g[k] + SumFunctionOnSet(g, S \ {k})
    BY SumTypeAndRemove
  <2>3. SumFunctionOnSet(f, S \ {k}) \in Int
    <3>1. IsFiniteSet(S \ {k})
      BY FS_RemoveElement
    <3> QED
      BY <3>1, SumTypeAndRemove
  <2> QED
    BY <2>1, <2>2, <2>3
<1> QED
  BY <1>1, <1>2

-----------------------------------------------------------------------------
(* The bounded log: sizes, and ends of sequences of lines.                   *)

\* The lines of a log.
Lines == [number : Nat, size : Nat]

\* Joining sequences of lines is associative.
LEMMA Regrouped ==
    ASSUME NEW s \in Seq(Lines), NEW t \in Seq(Lines), NEW u \in Seq(Lines)
    PROVE  (s \o t) \o u = s \o (t \o u)
OBVIOUS

\* Appending a line is joining a sequence of one.
LEMMA OneLine ==
    ASSUME NEW l \in Lines, NEW s \in Seq(Lines)
    PROVE  <<l>> \in Seq(Lines) /\ Append(s, l) = s \o <<l>>
BY AppendIsConcat

\* A line appended to the second of two sequences is appended to both.
LEMMA AppendedLast ==
    ASSUME NEW s \in Seq(Lines), NEW t \in Seq(Lines), NEW l \in Lines
    PROVE  s \o Append(t, l) = Append(s \o t, l) /\ s \o t \in Seq(Lines)
<1>1. PICK e \in Seq(Lines) : e = <<l>>
  BY OneLine
<1>2. s \o t \in Seq(Lines)
  BY ConcatProperties
<1>3. Append(t, l) = t \o e /\ Append(s \o t, l) = (s \o t) \o e
  BY <1>1, <1>2, OneLine
<1>4. (s \o t) \o e = s \o (t \o e)
  BY Regrouped
<1> QED
  BY <1>2, <1>3, <1>4, Zenon

\* The bytes of a sequence of lines are a sum over its positions.
LEMMA BytesIs ==
    ASSUME NEW s \in Seq(Lines)
    PROVE  Bytes(s) = SumFunctionOnSet([i \in 1 .. Len(s) |-> s[i].size], 1 .. Len(s))
<1> DEFINE f == [i \in DOMAIN s |-> s[i].size]
<1>1. DOMAIN s = 1 .. Len(s) /\ DOMAIN f = 1 .. Len(s)
  OBVIOUS
<1>2. Bytes(s) = SumFunctionOnSet(f, DOMAIN f)
  BY DEF Bytes, SumFunction
<1> QED
  BY <1>1, <1>2

\* No lines, no bytes.
LEMMA EmptyBytes == Bytes(<<>>) = 0
<1>1. <<>> \in Seq(Lines) /\ 1 .. Len(<<>>) = {}
  OBVIOUS
<1> QED
  BY <1>1, BytesIs, SumEmpty

\* The lines of a sequence have sizes.
LEMMA SizesAreNumbers ==
    ASSUME NEW s \in Seq(Lines)
    PROVE  Len(s) \in Nat /\ \A i \in 1 .. Len(s) : s[i] \in Lines /\ s[i].size \in Nat
<1>1. \A i \in 1 .. Len(s) : s[i] \in Lines
  BY ElementOfSeq
<1> QED
  BY <1>1 DEF Lines

\* The positions of a sequence and of one that is a line longer.
LEMMA UpTo ==
    ASSUME NEW n \in Nat
    PROVE  /\ IsFiniteSet(1 .. n) /\ IsFiniteSet(1 .. n + 1)
           /\ n + 1 \in 1 .. n + 1 /\ (1 .. n + 1) \ {n + 1} = 1 .. n
<1>1. 1 \in Int /\ n \in Int /\ n + 1 \in Int
  OBVIOUS
<1>2. IsFiniteSet(1 .. n) /\ IsFiniteSet(1 .. n + 1)
  BY <1>1, FS_Interval
<1>3. n + 1 \in 1 .. n + 1
  OBVIOUS
<1>4. ASSUME NEW i
      PROVE  i \in (1 .. n + 1) \ {n + 1} <=> i \in 1 .. n
  OBVIOUS
<1> QED
  BY <1>2, <1>3, <1>4

\* An appended line adds its size.
LEMMA AppendBytes ==
    ASSUME NEW s \in Seq(Lines), NEW l \in Lines
    PROVE  Bytes(Append(s, l)) = Bytes(s) + l.size
<1> DEFINE n == Len(s)
           t == Append(s, l)
           f == [i \in 1 .. n |-> s[i].size]
           g == [i \in 1 .. n + 1 |-> t[i].size]
<1>1. /\ n \in Nat /\ t \in Seq(Lines) /\ Len(t) = n + 1 /\ t[n + 1] = l
      /\ \A i \in 1 .. n : t[i] = s[i]
  BY AppendProperties, LenProperties
<1>2. Bytes(s) = SumFunctionOnSet(f, 1 .. n) /\ Bytes(t) = SumFunctionOnSet(g, 1 .. n + 1)
  <2>1. Bytes(t) = SumFunctionOnSet([i \in 1 .. Len(t) |-> t[i].size], 1 .. Len(t))
    BY <1>1, BytesIs
  <2> HIDE DEF t
  <2> QED
    BY <1>1, <2>1, BytesIs
<1>3. \A i \in 1 .. n : f[i] \in Int /\ g[i] \in Int /\ f[i] = g[i]
  <2>1. \A i \in 1 .. n : s[i].size \in Nat /\ i \in 1 .. n + 1
    BY <1>1, SizesAreNumbers
  <2> HIDE DEF t
  <2> QED
    BY <1>1, <2>1
<1>4. g[n + 1] = l.size /\ l.size \in Int
  <2>1. n + 1 \in 1 .. n + 1
    BY <1>1
  <2> HIDE DEF t
  <2> QED
    BY <1>1, <2>1 DEF Lines
<1> HIDE DEF f, g, t
<1> DEFINE D == 1 .. n
           E == 1 .. n + 1
<1>5. /\ IsFiniteSet(D) /\ IsFiniteSet(E) /\ n + 1 \in E /\ E \ {n + 1} = D
      /\ \A i \in D : f[i] \in Int /\ g[i] \in Int /\ f[i] = g[i]
      /\ \A i \in E : i = n + 1 \/ i \in D
      /\ Bytes(s) = SumFunctionOnSet(f, D) /\ Bytes(t) = SumFunctionOnSet(g, E)
  BY <1>1, <1>2, <1>3, UpTo
<1> HIDE DEF D, E
<1>6. SumFunctionOnSet(f, D) = SumFunctionOnSet(g, D) /\ SumFunctionOnSet(f, D) \in Int
  BY <1>5, SumUpdate, SumTypeAndRemove
<1>7. \A i \in E : g[i] \in Int
  BY <1>4, <1>5
<1>8. SumFunctionOnSet(g, E) = g[n + 1] + SumFunctionOnSet(g, E \ {n + 1})
  BY <1>5, <1>7, SumTypeAndRemove
<1>9. Bytes(t) = l.size + Bytes(s) /\ Bytes(s) \in Int
  BY <1>4, <1>5, <1>6, <1>8
<1> QED
  BY <1>4, <1>9 DEF t

\* Bytes of lines one after the other add up.
LEMMA ConcatBytes ==
    ASSUME NEW s \in Seq(Lines), NEW t \in Seq(Lines)
    PROVE  Bytes(t) \in Nat /\ Bytes(s \o t) = Bytes(s) + Bytes(t)
<1> DEFINE Good(u) == Bytes(u) \in Nat /\ Bytes(s \o u) = Bytes(s) + Bytes(u)
           K == {n \in Nat : \E u \in Seq(Lines) : Len(u) = n /\ ~Good(u)}
<1> SUFFICES ASSUME K # {}
             PROVE  FALSE
  OBVIOUS
<1>1. PICK n \in K : \A k \in K : n <= k
  <2> HIDE DEF K
  <2> QED
    BY LeastNumber DEF K
<1>2. PICK u \in Seq(Lines) : Len(u) = n /\ ~Good(u)
  BY <1>1
<1>3. Bytes(s) \in Int
  <2> DEFINE D == 1 .. Len(s)
             f == [i \in D |-> s[i].size]
  <2>1. IsFiniteSet(D) /\ \A i \in D : f[i] \in Int
    <3>1. IsFiniteSet(D)
      BY SizesAreNumbers, UpTo
    <3>2. \A i \in D : f[i] \in Int
      BY SizesAreNumbers, SMTT(30)
    <3> QED
      BY <3>1, <3>2
  <2>2. Bytes(s) = SumFunctionOnSet(f, D)
    BY BytesIs
  <2> HIDE DEF D, f
  <2> QED
    BY <2>1, <2>2, SumTypeAndRemove
<1>4. u # <<>>
  <2> SUFFICES ASSUME u = <<>>
               PROVE  Good(<<>>)
    BY <1>2
  <2>1. s \o <<>> = s
    BY ConcatEmptySeq
  <2> QED
    BY <1>3, <2>1, EmptyBytes
<1>5. PICK v \in Seq(Lines), l \in Lines : u = Append(v, l)
  BY <1>4, SequenceEmptyOrAppend
<1>6. Len(v) \in Nat /\ Len(u) = Len(v) + 1
  BY <1>5, AppendProperties, LenProperties
<1>7. Good(v)
  BY <1>1, <1>2, <1>6
<1>8. Bytes(u) = Bytes(v) + l.size /\ l.size \in Nat
  BY <1>5, AppendBytes DEF Lines
<1>9. Bytes(s \o u) = Bytes(s \o v) + l.size
  <2> HIDE DEF K, Good
  <2>1. s \o u = Append(s \o v, l) /\ s \o v \in Seq(Lines)
    BY <1>5, AppendedLast
  <2> QED
    BY <2>1, AppendBytes
<1>10. Good(u)
  <2> HIDE DEF K
  <2> QED
    BY <1>3, <1>7, <1>8, <1>9
<1> QED
  BY <1>2, <1>10

-----------------------------------------------------------------------------
\* s is the end of t.
Ends(s, t) == \E u \in Seq(Lines) : t = u \o s

\* Such a sequence is a suffix in the library's sense.
LEMMA EndsIsSuffix ==
    ASSUME NEW s \in Seq(Lines), NEW t \in Seq(Lines), Ends(s, t)
    PROVE  IsSuffix(s, t)
<1>1. PICK u \in Seq(Lines) : t = u \o s
  BY DEF Ends
<1> DEFINE k == Len(u)
           n == Len(s)
           rs == Reverse(s)
           rt == Reverse(t)
<1>2. /\ k \in Nat /\ n \in Nat /\ Len(t) = k + n
      /\ \A i \in 1 .. k + n : t[i] = IF i <= k THEN u[i] ELSE s[i - k]
  BY <1>1, ConcatProperties, LenProperties
<1> HIDE DEF k, n
<1>3. rs = [i \in 1 .. n |-> s[(n - i) + 1]] /\ rt = [i \in 1 .. k + n |-> t[((k + n) - i) + 1]]
  BY <1>2 DEF Reverse, n
<1> HIDE DEF rs, rt
<1>4. ASSUME NEW i \in 1 .. n
      PROVE  rs[i] = rt[i]
  <2>1. /\ i \in 1 .. k + n /\ ((k + n) - i) + 1 \in 1 .. k + n /\ ~(((k + n) - i) + 1 <= k)
        /\ (((k + n) - i) + 1) - k = (n - i) + 1
    BY <1>2
  <2> QED
    BY <1>2, <1>3, <2>1
<1>5. /\ \A i \in 1 .. n : i \in 1 .. k + n
      /\ DOMAIN rs = 1 .. n /\ DOMAIN rt = 1 .. k + n
  BY <1>2, <1>3
<1>6. Len(rs) = n /\ Len(rt) = k + n
  BY <1>2, <1>3
<1>7. SubSeq(rs, 1, n) = SubSeq(rt, 1, n)
  <2>1. SubSeq(rs, 1, n) = [i \in 1 .. n |-> rs[i]] /\ SubSeq(rt, 1, n) = [i \in 1 .. n |-> rt[i]]
    BY <1>2
  <2> QED
    BY <1>4, <2>1
<1> QED
  BY <1>2, <1>6, <1>7 DEF IsSuffix, IsPrefix, rs, rt

\* An end of an end is an end.
LEMMA EndOfEnd ==
    ASSUME NEW r \in Seq(Lines), NEW s \in Seq(Lines), NEW t \in Seq(Lines), Ends(r, s), Ends(s, t)
    PROVE  Ends(r, t)
<1>1. PICK u \in Seq(Lines), v \in Seq(Lines) : s = u \o r /\ t = v \o s
  BY DEF Ends
<1>2. t = (v \o u) \o r /\ v \o u \in Seq(Lines)
  <2>1. (v \o u) \o r = v \o (u \o r)
    BY Regrouped, Zenon
  <2> QED
    BY <1>1, <2>1, ConcatProperties, Zenon
<1> QED
  BY <1>2 DEF Ends

\* A sequence, and the empty one, are ends of it.
LEMMA ItsOwnEnd ==
    ASSUME NEW s \in Seq(Lines)
    PROVE  Ends(s, s) /\ Ends(<<>>, s) /\ <<>> \in Seq(Lines) /\ s \o <<>> = s /\ <<>> \o s = s
<1>1. <<>> \in Seq(Lines) /\ s \o <<>> = s /\ <<>> \o s = s
  BY EmptySeq, ConcatEmptySeq
<1> QED
  BY <1>1 DEF Ends

\* One more line at both.
LEMMA EndGrows ==
    ASSUME NEW b \in Seq(Lines), NEW f \in Seq(Lines), NEW t \in Seq(Lines), NEW l \in Lines,
           Ends(b \o f, t)
    PROVE  /\ b \o Append(f, l) = Append(b \o f, l)
           /\ Ends(Append(b \o f, l), Append(t, l))
<1>1. PICK u \in Seq(Lines) : t = u \o (b \o f)
  BY DEF Ends
<1>2. b \o Append(f, l) = Append(b \o f, l) /\ b \o f \in Seq(Lines)
  BY AppendedLast
<1>3. u \o Append(b \o f, l) = Append(u \o (b \o f), l)
  BY <1>2, AppendedLast
<1> QED
  BY <1>1, <1>2, <1>3, Zenon DEF Ends

\* What a trim keeps is an end of the file below the limit.
LEMMA KeptEnds ==
    ASSUME NEW s \in Seq(Lines)
    PROVE  KeptTail(s) \in Seq(Lines) /\ Ends(KeptTail(s), s) /\ Bytes(KeptTail(s)) <= MaxBytes
<1> DEFINE from == {i \in DOMAIN s : Bytes(SubSeq(s, i, Len(s))) < MaxBytes}
<1>1. CASE from = {}
  <2>1. KeptTail(s) = <<>>
    BY <1>1 DEF KeptTail
  <2> QED
    BY <2>1, ItsOwnEnd, EmptyBytes, BoundedLogAssumption
<1>2. CASE from # {}
  <2>1. KeptTail(s) = SubSeq(s, Min(from), Len(s))
    BY <1>2 DEF KeptTail
  <2>2. from \in SUBSET Nat
    OBVIOUS
  <2>3. Min(from) \in from
    <3> HIDE DEF from
    <3> QED
      BY <1>2, <2>2, MinOf
  <2>4. PICK m \in 1 .. Len(s) : m = Min(from) /\ Bytes(SubSeq(s, m, Len(s))) < MaxBytes
    <3>1. /\ from \subseteq 1 .. Len(s)
          /\ \A i \in from : Bytes(SubSeq(s, i, Len(s))) < MaxBytes
      OBVIOUS
    <3> HIDE DEF from
    <3> QED
      BY <2>3, <3>1, Zenon
  <2> HIDE DEF from
  <2>5. /\ Len(s) \in Nat /\ Len(s) \in Int /\ m \in Int /\ m - 1 \in Int /\ 1 \in Int
        /\ \A i \in 1 .. m - 1 : s[i] \in Lines
        /\ \A i \in m .. Len(s) : s[i] \in Lines
    BY <2>4, SizesAreNumbers
  <2>6. SubSeq(s, m, Len(s)) \in Seq(Lines) /\ SubSeq(s, 1, m - 1) \in Seq(Lines)
    BY <2>5, SubSeqProperties
  <2>7. s = SubSeq(s, 1, m - 1) \o SubSeq(s, m, Len(s))
    <3>1. /\ 1 \in 1 .. Len(s) + 1 /\ m - 1 \in 1 - 1 .. Len(s) /\ Len(s) \in m - 1 .. Len(s)
          /\ (m - 1) + 1 = m
      BY <2>4, <2>5
    <3>2. SubSeq(s, 1, m - 1) \o SubSeq(s, (m - 1) + 1, Len(s)) = SubSeq(s, 1, Len(s))
      BY <3>1, ConcatAdjacentSubSeq
    <3> QED
      BY <3>1, <3>2, SubSeqFull
  <2>8. Bytes(SubSeq(s, m, Len(s))) \in Nat
    BY <2>6, ConcatBytes
  <2>9. Bytes(SubSeq(s, m, Len(s))) <= MaxBytes
    BY <2>4, <2>8, BoundedLogAssumption
  <2> QED
    BY <2>1, <2>4, <2>6, <2>7, <2>9, Zenon DEF Ends
<1> QED
  BY <1>1, <1>2

\* A trim of a file over the limit cuts a line that would not fit, with the newline
\* before it, beside what it keeps.
LEMMA CutDidNotFit ==
    ASSUME NEW s \in Seq(Lines), Bytes(s) > MaxBytes
    PROVE  /\ CutOff(s) \in Nat
           /\ Bytes(KeptTail(s)) + CutOff(s) > MaxBytes
<1> DEFINE from == {i \in DOMAIN s : Bytes(SubSeq(s, i, Len(s))) < MaxBytes}
<1>1. /\ Len(s) \in Nat /\ MaxBytes \in Nat /\ Bytes(s) \in Nat /\ s # <<>>
      /\ DOMAIN s = 1 .. Len(s) /\ from \in SUBSET Nat
  <2>1. Bytes(s) \in Nat /\ MaxBytes \in Nat
    BY ConcatBytes, BoundedLogAssumption
  <2>2. s # <<>>
    BY <2>1, EmptyBytes
  <2> QED
    BY <2>1, <2>2, SizesAreNumbers
<1>2. PICK j \in 1 .. Len(s) :
        j \notin from /\ KeptTail(s) = SubSeq(s, j + 1, Len(s))
  <2>1. CASE from = {}
    <3>1. KeptTail(s) = <<>> /\ Len(s) \in 1 .. Len(s) /\ Len(s) \notin from
      BY <1>1, <2>1 DEF KeptTail
    <3>2. SubSeq(s, Len(s) + 1, Len(s)) = <<>>
      BY <1>1, SubSeqEmpty
    <3> HIDE DEF from
    <3> QED
      BY <3>1, <3>2
  <2>2. CASE from # {}
    <3>1. KeptTail(s) = SubSeq(s, Min(from), Len(s))
      BY <2>2 DEF KeptTail
    <3>2. Min(from) \in from /\ \A k \in from : Min(from) <= k
      <4> HIDE DEF from
      <4> QED
        BY <1>1, <2>2, MinOf
    <3>3. PICK m \in from : m = Min(from) /\ \A k \in from : m <= k
      BY <3>2
    <3>4. m \in 1 .. Len(s) /\ Bytes(SubSeq(s, m, Len(s))) < MaxBytes
      BY <1>1, <3>3
    <3>5. m # 1
      <4> SUFFICES ASSUME m = 1
                   PROVE  FALSE
        OBVIOUS
      <4> HIDE DEF from
      <4>1. SubSeq(s, m, Len(s)) = s
        BY SubSeqFull
      <4>2. Bytes(s) < MaxBytes
        BY <3>4, <4>1
      <4> QED
        BY <1>1, <4>2
    <3> HIDE DEF from
    <3>6. m - 1 \in 1 .. Len(s) /\ (m - 1) + 1 = m /\ m - 1 \notin from
      BY <1>1, <3>3, <3>4, <3>5
    <3> QED
      BY <3>1, <3>3, <3>6
  <2> QED
    BY <2>1, <2>2
<1>3. ~(Bytes(SubSeq(s, j, Len(s))) < MaxBytes)
  BY <1>1, <1>2
<1> HIDE DEF from
<1>4. s[j] \in Lines /\ s[j].size \in Nat
  BY SizesAreNumbers
<1>5. /\ KeptTail(s) \in Seq(Lines) /\ Len(KeptTail(s)) = Len(s) - j
      /\ SubSeq(s, j, Len(s)) = <<s[j]>> \o KeptTail(s)
  <2>1. /\ j + 1 \in Int /\ Len(s) \in Int /\ j \in 1 .. Len(s) /\ Len(s) \in j .. Len(s)
        /\ \A i \in j + 1 .. Len(s) : s[i] \in Lines
    BY <1>1, SizesAreNumbers
  <2>2. /\ SubSeq(s, j + 1, Len(s)) \in Seq(Lines)
        /\ Len(SubSeq(s, j + 1, Len(s))) = IF j + 1 <= Len(s) THEN Len(s) - (j + 1) + 1 ELSE 0
    BY <2>1, SubSeqProperties
  <2>3. SubSeq(s, j, Len(s)) = <<s[j]>> \o SubSeq(s, j + 1, Len(s))
    BY <2>1, SubSeqRecursiveFirst
  <2>4. (IF j + 1 <= Len(s) THEN Len(s) - (j + 1) + 1 ELSE 0) = Len(s) - j
    <3>1. PICK k \in Nat : k = Len(s)
      BY <1>1
    <3>2. j \in Int /\ j <= k
      BY <1>2, <3>1
    <3>3. (IF j + 1 <= k THEN k - (j + 1) + 1 ELSE 0) = k - j
      BY <3>1, <3>2
    <3> QED
      BY <3>1, <3>3
  <2> QED
    BY <1>2, <2>2, <2>3, <2>4
<1>6. Bytes(SubSeq(s, j, Len(s))) = s[j].size + Bytes(KeptTail(s)) /\ Bytes(KeptTail(s)) \in Nat
  <2>1. <<s[j]>> \in Seq(Lines) /\ Append(<<>>, s[j]) = <<>> \o <<s[j]>>
    BY <1>4, OneLine, EmptySeq
  <2>2. Bytes(<<s[j]>>) = s[j].size
    <3>1. Append(<<>>, s[j]) = <<s[j]>>
      BY <2>1, ConcatEmptySeq
    <3>2. Bytes(Append(<<>>, s[j])) = Bytes(<<>>) + s[j].size
      BY <1>4, AppendBytes, EmptySeq
    <3> QED
      BY <1>4, <3>1, <3>2, EmptyBytes
  <2>3. Bytes(<<s[j]>> \o KeptTail(s)) = Bytes(<<s[j]>>) + Bytes(KeptTail(s))
    BY <1>5, <2>1, ConcatBytes
  <2>4. Bytes(KeptTail(s)) \in Nat
    BY <1>5, ConcatBytes
  <2> QED
    BY <1>5, <2>2, <2>3, <2>4
<1>7. CutOff(s) = s[j].size + 1
  <2>1. Len(s) - Len(KeptTail(s)) = j
    BY <1>1, <1>5
  <2> QED
    BY <2>1 DEF CutOff
<1> QED
  BY <1>1, <1>3, <1>4, <1>6, <1>7

\* The beginning of a sequence of lines has no more bytes than the whole.
LEMMA BeginningFits ==
    ASSUME NEW s \in Seq(Lines), NEW n \in 0 .. Len(s)
    PROVE  SubSeq(s, 1, n) \in Seq(Lines) /\ Bytes(SubSeq(s, 1, n)) <= Bytes(s)
<1>1. /\ Len(s) \in Nat /\ n \in Int /\ Len(s) \in Int /\ n + 1 \in Int /\ 1 \in Int
      /\ \A i \in 1 .. n : s[i] \in Lines
      /\ \A i \in n + 1 .. Len(s) : s[i] \in Lines
  BY SizesAreNumbers
<1>2. SubSeq(s, 1, n) \in Seq(Lines) /\ SubSeq(s, n + 1, Len(s)) \in Seq(Lines)
  BY <1>1, SubSeqProperties
<1>3. s = SubSeq(s, 1, n) \o SubSeq(s, n + 1, Len(s))
  <2>1. 1 \in 1 .. Len(s) + 1 /\ n \in 1 - 1 .. Len(s) /\ Len(s) \in n .. Len(s)
    BY <1>1
  <2>2. SubSeq(s, 1, n) \o SubSeq(s, n + 1, Len(s)) = SubSeq(s, 1, Len(s))
    BY <2>1, ConcatAdjacentSubSeq
  <2> QED
    BY <2>2, SubSeqFull
<1>4. PICK u \in Seq(Lines), v \in Seq(Lines) :
        u = SubSeq(s, 1, n) /\ v = SubSeq(s, n + 1, Len(s)) /\ s = u \o v
  BY <1>2, <1>3
<1>5. Bytes(s) = Bytes(u) + Bytes(v) /\ Bytes(u) \in Nat /\ Bytes(v) \in Nat
  BY <1>4, ConcatBytes
<1>6. Bytes(u) <= Bytes(s)
  BY <1>5
<1> QED
  BY <1>2, <1>4, <1>6

\* The types of the log's state.
LogTypes ==
    /\ file \in Seq(Lines) /\ backup \in Seq(Lines) /\ saved \in Seq(Lines) /\ tail \in Seq(Lines)
    /\ size \in Nat /\ longest \in Nat /\ line \in Lines
    /\ step \in {"none", "closed", "trim", "rewrite", "ready", "unlink", "replace", "reopen", "write"}

\* Where the writer is, the count and the line fit the file.
WriterFits ==
    /\ step = "none" => file = <<>> /\ backup = <<>>
    /\ step = "trim" => Bytes(file) > MaxBytes
    /\ step = "rewrite" =>
         /\ file = <<>> /\ backup = <<>>
         /\ Ends(tail, saved) /\ Bytes(tail) <= MaxBytes
    /\ step # "rewrite" => tail = <<>>
    /\ step \in {"ready", "unlink", "replace", "write"} => size = Bytes(file)
    /\ step \in {"unlink", "replace", "reopen", "write"} =>
         line.size <= MaxBytes /\ line.size <= longest
    /\ step = "unlink" => size + line.size > MaxBytes
    /\ step = "replace" => backup = <<>>
    /\ step = "reopen" => file = <<>>
    /\ step = "write" => size + line.size <= MaxBytes

\* A file over the limit is the log an earlier controller left.
OversizedIsOld ==
    Bytes(file) > MaxBytes => step \in {"closed", "trim"} /\ backup = <<>> /\ file = saved

\* The lines that are gone did not fit beside those on disk, or in a trim's memory.
GoneDidNotFit ==
    IF step = "rewrite"
    THEN Len(tail) < Len(saved) => Bytes(tail) + longest > MaxBytes
    ELSE Len(backup \o file) < Len(saved) => Bytes(backup \o file) + longest > MaxBytes

\* The inductive invariant of the log.
LogInv ==
    /\ LogTypes /\ WriterFits /\ OversizedIsOld /\ GoneDidNotFit
    /\ Ends(backup \o file, saved)
    /\ Bytes(backup) <= MaxBytes

\* What the lines on disk have in common.
LEMMA OnDisk ==
    ASSUME LogTypes
    PROVE  /\ backup \o file \in Seq(Lines) /\ Bytes(backup \o file) = Bytes(backup) + Bytes(file)
           /\ Bytes(backup) \in Nat /\ Bytes(file) \in Nat /\ Bytes(tail) \in Nat
           /\ Len(backup \o file) = Len(backup) + Len(file) /\ Len(backup) \in Nat /\ Len(file) \in Nat
           /\ Len(saved) \in Nat
<1>1. backup \o file \in Seq(Lines) /\ Len(backup \o file) = Len(backup) + Len(file)
  BY ConcatProperties DEF LogTypes
<1>2. /\ Bytes(backup \o file) = Bytes(backup) + Bytes(file)
      /\ Bytes(backup) \in Nat /\ Bytes(file) \in Nat /\ Bytes(tail) \in Nat
  BY ConcatBytes DEF LogTypes
<1>3. Len(backup) \in Nat /\ Len(file) \in Nat /\ Len(saved) \in Nat
  BY LenProperties DEF LogTypes
<1> QED
  BY <1>1, <1>2, <1>3

\* The invariant implies the property.
LEMMA RecentFromInv == LogInv => LogIsRecent
<1> SUFFICES ASSUME LogInv
             PROVE  LogIsRecent
  OBVIOUS
<1> DEFINE kept == backup \o file \o tail
<1>1. kept = IF step = "rewrite" THEN tail ELSE backup \o file
  <2>1. CASE step = "rewrite"
    <3>1. backup = <<>> /\ file = <<>> /\ tail \in Seq(Lines)
      BY <2>1 DEF LogInv, WriterFits, LogTypes
    <3>2. <<>> \o <<>> = <<>> /\ <<>> \o tail = tail
      BY <3>1, ItsOwnEnd
    <3> QED
      BY <2>1, <3>1, <3>2
  <2>2. CASE step # "rewrite"
    <3>1. tail = <<>> /\ backup \o file \in Seq(Lines)
      BY <2>2, OnDisk DEF LogInv, WriterFits
    <3> QED
      BY <2>2, <3>1, ItsOwnEnd
  <2> QED
    BY <2>1, <2>2
<1> HIDE DEF kept
<1>2. kept \in Seq(Lines) /\ Ends(kept, saved) /\ saved \in Seq(Lines)
  BY <1>1, OnDisk DEF LogInv, LogTypes, WriterFits
<1>3. IsSuffix(kept, saved)
  BY <1>2, EndsIsSuffix
<1>4. Len(kept) < Len(saved) => Bytes(kept) + longest > MaxBytes
  BY <1>1 DEF LogInv, GoneDidNotFit
<1>5. step \notin {"none", "closed", "trim"} => Bytes(file) <= MaxBytes
  BY OnDisk, BoundedLogAssumption DEF LogInv, OversizedIsOld
<1> QED
  BY <1>3, <1>4, <1>5 DEF LogInv, LogIsRecent, kept

\* An earlier log is found.
LEMMA FindLogInv == LogInv /\ FindLog => LogInv'
<1> SUFFICES ASSUME LogInv, FindLog
             PROVE  LogInv'
  OBVIOUS
<1>1. PICK sizes \in BoundedSeq(LineSizes, MaxOld) : file' = Numbered(sizes)
  BY DEF FindLog
<1>2. PICK m \in 0 .. MaxOld : sizes \in [1 .. m -> LineSizes]
  BY DEF BoundedSeq, SeqOf
<1>3. file' \in Seq(Lines)
  <2>1. Numbered(sizes) = [i \in 1 .. m |-> [number |-> i, size |-> sizes[i]]] /\ m \in Nat
    BY <1>2 DEF Numbered
  <2>2. \A i \in 1 .. m : [number |-> i, size |-> sizes[i]] \in Lines
    <3>1. ASSUME NEW i \in 1 .. m
          PROVE  i \in Nat /\ sizes[i] \in Nat
      <4>1. i \in Nat
        BY <2>1
      <4>2. sizes[i] \in LineSizes
        BY <1>2, Zenon
      <4>3. LineSizes \subseteq Nat
        BY Zenon, BoundedLogAssumption
      <4> QED
        BY <4>1, <4>2, <4>3, Zenon
    <3> QED
      BY <3>1 DEF Lines
  <2>3. Numbered(sizes) \in [1 .. m -> Lines]
    BY <2>1, <2>2
  <2> QED
    BY <1>1, <2>1, <2>3
<1>4. /\ saved' = file' /\ step' = "closed" /\ backup' = <<>> /\ backup = <<>>
      /\ UNCHANGED <<size, line, tail, longest>> /\ tail = <<>>
  BY DEF FindLog, LogInv, WriterFits
<1>5. backup' \o file' = file'
  BY <1>3, <1>4, ItsOwnEnd
<1>6. LogTypes'
  BY <1>3, <1>4 DEF LogInv, LogTypes
<1>7. Ends(backup' \o file', saved') /\ ~(Len(backup' \o file') < Len(saved'))
  <2>1. Len(saved') \in Nat
    BY <1>6, LenProperties DEF LogTypes
  <2> QED
    BY <1>3, <1>4, <1>5, <2>1, ItsOwnEnd
<1> QED
  BY <1>4, <1>6, <1>7 DEF LogInv, WriterFits, OversizedIsOld, GoneDidNotFit

\* Steps that leave the files alone.
LEMMA FilesKept ==
    ASSUME LogInv, LogTypes', UNCHANGED <<file, backup, saved>>, longest <= longest',
           step \notin {"none", "rewrite"}, step' # "rewrite", WriterFits',
           Bytes(file) > MaxBytes => step' \in {"closed", "trim"}
    PROVE  LogInv'
<1>1. OversizedIsOld'
  BY DEF LogInv, OversizedIsOld
<1>2. GoneDidNotFit'
  <2>1. /\ Bytes(backup \o file) \in Nat /\ longest \in Nat /\ longest' \in Nat
    BY OnDisk DEF LogInv, LogTypes
  <2>2. backup' \o file' = backup \o file
    OBVIOUS
  <2>3. Bytes(backup \o file) + longest > MaxBytes => Bytes(backup \o file) + longest' > MaxBytes
    BY <2>1, BoundedLogAssumption
  <2> QED
    BY <2>2, <2>3 DEF LogInv, GoneDidNotFit
<1> QED
  BY <1>1, <1>2 DEF LogInv

\* The steps that leave both files alone.
LEMMA QuietInv == LogInv /\ (Open \/ Close \/ Reopen) => LogInv'
<1> SUFFICES ASSUME LogInv, Open \/ Close \/ Reopen
             PROVE  LogInv'
  OBVIOUS
<1>1. /\ UNCHANGED <<file, backup, saved, longest>>
      /\ step \notin {"none", "rewrite"} /\ step' # "rewrite"
      /\ LogTypes /\ WriterFits /\ OversizedIsOld
  BY DEF LogInv, Open, Close, Reopen
<1>2. Bytes(file) \in Nat /\ longest \in Nat
  BY <1>1, OnDisk DEF LogTypes
<1>3. LogTypes' /\ WriterFits' /\ (Bytes(file) > MaxBytes => step' \in {"closed", "trim"})
  <2>1. CASE Open
    <3>1. LogTypes'
      BY <1>1, <1>2, <2>1 DEF Open, LogTypes
    <3>2. WriterFits'
      BY <1>1, <1>2, <2>1 DEF Open, WriterFits
    <3> QED
      BY <2>1, <3>1, <3>2 DEF Open
  <2>2. CASE Close
    <3>1. NoLine \in Lines /\ <<>> \in Seq(Lines)
      BY DEF NoLine, Lines
    <3> QED
      BY <1>1, <2>2, <3>1 DEF Close, LogTypes, WriterFits
  <2>3. CASE Reopen
    <3>1. file' = <<>> /\ Bytes(file') = 0
      BY <1>1, <2>3, EmptyBytes DEF Reopen, WriterFits
    <3>2. line.size \in Nat
      BY <1>1 DEF LogTypes, Lines
    <3>3. WriterFits'
      BY <1>1, <2>3, <3>1, <3>2 DEF Reopen, WriterFits
    <3>4. LogTypes'
      BY <1>1, <2>3 DEF Reopen, LogTypes
    <3> QED
      BY <1>1, <2>3, <3>3, <3>4 DEF Reopen, OversizedIsOld
  <2> QED
    BY <2>1, <2>2, <2>3
<1>4. longest <= longest'
  BY <1>1, <1>2
<1> QED
  BY <1>1, <1>3, <1>4, FilesKept

\* Taking the next line decides whether the file is rotated for it.
LEMMA WriteLineInv == LogInv /\ WriteLine => LogInv'
<1> SUFFICES ASSUME LogInv, WriteLine
             PROVE  LogInv'
  OBVIOUS
<1>1. PICK bytes \in LineSizes :
          /\ line' = [number |-> Len(saved) + 1, size |-> Min({bytes, MaxBytes})]
          /\ longest' = Max({longest, Min({bytes, MaxBytes})})
          /\ step' = IF NeedsRotation(Min({bytes, MaxBytes})) THEN "unlink" ELSE "write"
  BY DEF WriteLine
<1> DEFINE payload == Min({bytes, MaxBytes})
<1>2. payload \in Nat /\ payload <= MaxBytes
  <2>1. bytes \in Int /\ MaxBytes \in Int
    BY BoundedLogAssumption
  <2>2. payload = IF bytes <= MaxBytes THEN bytes ELSE MaxBytes
    BY <2>1, OfTwo, Zenon
  <2> QED
    BY <2>1, <2>2, BoundedLogAssumption
<1>3. /\ UNCHANGED <<file, backup, size, saved, tail>> /\ step = "ready"
      /\ LogTypes /\ WriterFits /\ OversizedIsOld
  BY DEF WriteLine, LogInv
<1> HIDE DEF payload
<1>4. /\ line' = [number |-> Len(saved) + 1, size |-> payload]
      /\ longest' = Max({longest, payload})
      /\ step' = IF size # 0 /\ size + payload > MaxBytes THEN "unlink" ELSE "write"
  BY <1>1 DEF payload, NeedsRotation
<1>5. longest' \in Nat /\ longest <= longest' /\ payload <= longest'
  <2>1. longest \in Int /\ payload \in Int /\ longest \in Nat
    BY <1>2, <1>3 DEF LogTypes
  <2>2. Max({longest, payload}) = IF longest >= payload THEN longest ELSE payload
    BY <2>1, OfTwo, Zenon
  <2> QED
    BY <1>2, <1>4, <2>1, <2>2
<1>6. line' \in Lines /\ line'.size = payload
  BY <1>2, <1>3, <1>4, OnDisk DEF Lines
<1>7. LogTypes'
  BY <1>3, <1>4, <1>5, <1>6 DEF LogTypes
<1>8. size \in Nat /\ size = Bytes(file)
  BY <1>3 DEF LogTypes, WriterFits
<1>9. WriterFits'
  <2>1. step' \in {"unlink", "write"} /\ line'.size <= MaxBytes /\ line'.size <= longest'
    BY <1>2, <1>4, <1>5, <1>6
  <2>2. step' = "unlink" => size' + line'.size > MaxBytes
    BY <1>3, <1>4, <1>6
  <2>3. step' = "write" => size' + line'.size <= MaxBytes
    BY <1>2, <1>3, <1>4, <1>6, <1>8, BoundedLogAssumption
  <2> QED
    BY <1>3, <1>8, <2>1, <2>2, <2>3 DEF WriterFits
<1>10. Bytes(file) > MaxBytes => step' \in {"closed", "trim"}
  BY <1>3 DEF OversizedIsOld
<1> QED
  BY <1>3, <1>4, <1>5, <1>7, <1>9, <1>10, FilesKept

\* The backup goes: what is left and the next line are over the limit.
LEMMA UnlinkInv == LogInv /\ Unlink => LogInv'
<1> SUFFICES ASSUME LogInv, Unlink
             PROVE  LogInv'
  OBVIOUS
<1>1. /\ backup' = <<>> /\ step = "unlink" /\ step' = "replace"
      /\ UNCHANGED <<file, size, line, saved, tail, longest>>
      /\ LogTypes /\ WriterFits /\ OversizedIsOld /\ Ends(backup \o file, saved)
  BY DEF LogInv, Unlink
<1>2. /\ file \in Seq(Lines) /\ backup \in Seq(Lines) /\ saved \in Seq(Lines)
      /\ backup' \o file' = file /\ <<>> \in Seq(Lines)
  BY <1>1, ItsOwnEnd DEF LogTypes
<1>3. LogTypes' /\ WriterFits'
  BY <1>1, <1>2 DEF LogTypes, WriterFits
<1>4. Ends(file, saved)
  <2>1. Ends(file, backup \o file) /\ backup \o file \in Seq(Lines)
    BY <1>1, <1>2, OnDisk DEF Ends
  <2> QED
    BY <1>1, <1>2, <2>1, EndOfEnd
<1>5. Bytes(file) + longest > MaxBytes
  <2>1. /\ Bytes(file) \in Nat /\ line.size \in Nat /\ longest \in Nat
        /\ Bytes(file) + line.size > MaxBytes /\ line.size <= longest
    BY <1>1, OnDisk DEF LogTypes, WriterFits, Lines
  <2> QED
    BY <2>1, BoundedLogAssumption
<1>6. Bytes(backup') <= MaxBytes
  BY <1>1, EmptyBytes, BoundedLogAssumption
<1> QED
  BY <1>1, <1>2, <1>3, <1>4, <1>5, <1>6 DEF LogInv, OversizedIsOld, GoneDidNotFit

\* os.replace makes the file the backup.
LEMMA ReplaceInv == LogInv /\ Replace => LogInv'
<1> SUFFICES ASSUME LogInv, Replace
             PROVE  LogInv'
  OBVIOUS
<1>1. /\ backup' = file /\ file' = <<>> /\ step = "replace" /\ step' = "reopen" /\ backup = <<>>
      /\ UNCHANGED <<size, line, saved, tail, longest>>
      /\ LogTypes /\ WriterFits /\ OversizedIsOld /\ GoneDidNotFit /\ Ends(backup \o file, saved)
  BY DEF LogInv, Replace, WriterFits
<1>2. backup' \o file' = backup \o file /\ <<>> \in Seq(Lines)
  <2>1. file \o <<>> = file /\ <<>> \o file = file /\ <<>> \in Seq(Lines)
    BY <1>1, ItsOwnEnd DEF LogTypes
  <2> QED
    BY <1>1, <2>1
<1>3. LogTypes' /\ WriterFits'
  BY <1>1, <1>2 DEF LogTypes, WriterFits
<1>4. Bytes(backup') <= MaxBytes /\ ~(Bytes(file') > MaxBytes)
  BY <1>1, OnDisk, EmptyBytes, BoundedLogAssumption DEF OversizedIsOld
<1> QED
  BY <1>1, <1>2, <1>3, <1>4 DEF LogInv, OversizedIsOld, GoneDidNotFit

\* The line that fits goes to the end of the file.
LEMMA FlushInv == LogInv /\ Flush => LogInv'
<1> SUFFICES ASSUME LogInv, Flush
             PROVE  LogInv'
  OBVIOUS
<1>1. /\ file' = Append(file, line) /\ saved' = Append(saved, line) /\ size' = size + line.size
      /\ step = "write" /\ step' = "ready"
      /\ UNCHANGED <<backup, line, tail, longest>>
      /\ LogTypes /\ WriterFits /\ GoneDidNotFit /\ Ends(backup \o file, saved)
  BY DEF LogInv, Flush
<1>2. /\ file \in Seq(Lines) /\ backup \in Seq(Lines) /\ saved \in Seq(Lines) /\ line \in Lines
      /\ line.size \in Nat /\ size \in Nat
  BY <1>1 DEF LogTypes, Lines
<1>3. /\ backup' \o file' = Append(backup \o file, line)
      /\ Ends(backup' \o file', saved')
  <2>1. /\ backup \o Append(file, line) = Append(backup \o file, line)
        /\ Ends(Append(backup \o file, line), Append(saved, line))
    BY <1>1, <1>2, EndGrows
  <2>2. backup' = backup /\ file' = Append(file, line) /\ saved' = Append(saved, line)
    BY <1>1
  <2> QED
    BY <2>1, <2>2, Zenon
<1>4. Bytes(file') = Bytes(file) + line.size /\ Bytes(file) = size
  BY <1>1, <1>2, AppendBytes DEF WriterFits
<1>5. Bytes(file') <= MaxBytes /\ size' = Bytes(file') /\ size' \in Nat
  BY <1>1, <1>2, <1>4 DEF WriterFits
<1>6. LogTypes'
  <2>1. file' \in Seq(Lines) /\ saved' \in Seq(Lines)
    BY <1>1, <1>2, AppendProperties
  <2> QED
    BY <1>1, <1>5, <2>1 DEF LogTypes
<1>7. WriterFits'
  BY <1>1, <1>5 DEF WriterFits
<1>8. GoneDidNotFit'
  <2> DEFINE kept == backup \o file
  <2>1. /\ kept \in Seq(Lines) /\ Len(kept) \in Nat /\ Len(saved) \in Nat /\ Bytes(kept) \in Nat
        /\ longest \in Nat
    BY <1>1, OnDisk DEF LogTypes
  <2>2. Bytes(kept) + longest > MaxBytes \/ ~(Len(kept) < Len(saved))
    BY <1>1 DEF GoneDidNotFit
  <2>3. Len(backup' \o file') = Len(kept) + 1 /\ Len(saved') = Len(saved) + 1
    BY <1>1, <1>2, <1>3, <2>1, AppendProperties
  <2>4. Bytes(backup' \o file') = Bytes(kept) + line.size
    BY <1>2, <1>3, <2>1, AppendBytes
  <2> HIDE DEF kept
  <2>5. Bytes(kept) + longest > MaxBytes => (Bytes(kept) + line.size) + longest > MaxBytes
    BY <1>2, <2>1, BoundedLogAssumption
  <2>6. Len(kept) + 1 < Len(saved) + 1 => Len(kept) < Len(saved)
    BY <2>1
  <2> QED
    BY <1>1, <2>2, <2>3, <2>4, <2>5, <2>6 DEF GoneDidNotFit
<1>9. ~(Bytes(file') > MaxBytes)
  BY <1>5, BoundedLogAssumption
<1>10. Bytes(backup') <= MaxBytes
  BY <1>1 DEF LogInv
<1> QED
  BY <1>3, <1>6, <1>7, <1>8, <1>9, <1>10 DEF LogInv, OversizedIsOld

\* The old log is cut: an end of it is read, the file emptied, the end written.
LEMMA TruncateInv == LogInv /\ Truncate => LogInv'
<1> SUFFICES ASSUME LogInv, Truncate
             PROVE  LogInv'
  OBVIOUS
<1>1. /\ tail' = KeptTail(file) /\ file' = <<>> /\ step = "trim" /\ step' = "rewrite"
      /\ longest' = Max({longest, CutOff(file)}) /\ UNCHANGED <<backup, size, line, saved>>
      /\ LogTypes /\ WriterFits /\ OversizedIsOld
  BY DEF LogInv, Truncate
<1>2. backup = <<>> /\ file = saved /\ file \in Seq(Lines) /\ saved \in Seq(Lines)
  BY <1>1 DEF WriterFits, OversizedIsOld, LogTypes
<1>3. tail' \in Seq(Lines) /\ Ends(tail', saved) /\ Bytes(tail') <= MaxBytes
  BY <1>1, <1>2, KeptEnds
<1>4. <<>> \in Seq(Lines) /\ Ends(<<>>, saved) /\ <<>> \o <<>> = <<>>
  BY <1>2, ItsOwnEnd
<1>5. /\ CutOff(file) \in Nat /\ longest' \in Nat
      /\ Bytes(tail') + longest' > MaxBytes
  <2>1. Bytes(file) > MaxBytes
    BY <1>1 DEF WriterFits
  <2>2. CutOff(file) \in Nat /\ Bytes(tail') + CutOff(file) > MaxBytes
    BY <1>1, <1>2, <2>1, CutDidNotFit
  <2>3. longest \in Int /\ CutOff(file) \in Int /\ longest \in Nat
    BY <1>1, <2>2 DEF LogTypes
  <2>4. Max({longest, CutOff(file)}) = IF longest >= CutOff(file) THEN longest ELSE CutOff(file)
    BY <2>3, OfTwo, Zenon
  <2>5. longest' \in Nat /\ CutOff(file) <= longest'
    BY <1>1, <2>2, <2>3, <2>4
  <2>6. Bytes(tail') \in Nat
    BY <1>3, ConcatBytes
  <2> QED
    BY <2>2, <2>5, <2>6, BoundedLogAssumption
<1>6. LogTypes' /\ WriterFits'
  BY <1>1, <1>2, <1>3, <1>4, <1>5 DEF LogTypes, WriterFits
<1>7. Ends(backup' \o file', saved')
  BY <1>1, <1>2, <1>4
<1>8. Bytes(backup') <= MaxBytes /\ ~(Bytes(file') > MaxBytes)
  BY <1>1, <1>2, EmptyBytes, BoundedLogAssumption
<1> QED
  BY <1>1, <1>6, <1>7, <1>8, <1>5 DEF LogInv, OversizedIsOld, GoneDidNotFit

\* The kept tail is written to the emptied file.
LEMMA RewriteInv == LogInv /\ Rewrite => LogInv'
<1> SUFFICES ASSUME LogInv, Rewrite
             PROVE  LogInv'
  OBVIOUS
<1>1. /\ file' = tail /\ size' = Bytes(tail) /\ tail' = <<>> /\ step = "rewrite" /\ step' = "ready"
      /\ UNCHANGED <<backup, line, saved, longest>>
      /\ LogTypes /\ WriterFits
  BY DEF LogInv, Rewrite
<1>2. /\ backup = <<>> /\ Ends(tail, saved) /\ Bytes(tail) <= MaxBytes /\ Bytes(tail) \in Nat
      /\ tail \in Seq(Lines)
  BY <1>1, OnDisk DEF WriterFits, LogTypes
<1>3. <<>> \in Seq(Lines) /\ backup' \o file' = tail
  BY <1>1, <1>2, ItsOwnEnd
<1>4. LogTypes' /\ WriterFits'
  BY <1>1, <1>2, <1>3 DEF LogTypes, WriterFits
<1>5. ~(Bytes(file') > MaxBytes)
  BY <1>1, <1>2, BoundedLogAssumption
<1> QED
  BY <1>1, <1>2, <1>3, <1>4, <1>5 DEF LogInv, OversizedIsOld, GoneDidNotFit

\* What an interrupted rewrite leaves is what counts as saved from then on.
LEMMA LoseTailInv == LogInv /\ LoseTail => LogInv'
<1> SUFFICES ASSUME LogInv, LoseTail
             PROVE  LogInv'
  OBVIOUS
<1>1. PICK n \in 0 .. Len(tail) :
        /\ file' = SubSeq(tail, 1, n) /\ saved' = file'
        /\ step = "rewrite" /\ step' = "closed" /\ size' = 0 /\ line' = NoLine /\ tail' = <<>>
        /\ UNCHANGED <<backup, longest>>
  BY DEF LoseTail
<1>2. /\ backup = <<>> /\ Bytes(tail) <= MaxBytes /\ Bytes(tail) \in Nat /\ tail \in Seq(Lines)
      /\ longest \in Nat
  BY <1>1, OnDisk DEF LogInv, WriterFits, LogTypes
<1>3. file' \in Seq(Lines) /\ Bytes(file') <= Bytes(tail)
  BY <1>1, <1>2, BeginningFits
<1>4. Bytes(file') \in Nat /\ ~(Bytes(file') > MaxBytes)
  BY <1>2, <1>3, ConcatBytes, BoundedLogAssumption
<1>5. backup' \o file' = file' /\ Ends(file', saved') /\ <<>> \in Seq(Lines)
  BY <1>1, <1>2, <1>3, ItsOwnEnd
<1>6. NoLine \in Lines
  BY DEF NoLine, Lines
<1>7. LogTypes'
  BY <1>1, <1>2, <1>3, <1>5, <1>6 DEF LogTypes
<1>8. Len(saved') \in Nat
  BY <1>7, LenProperties DEF LogTypes
<1>9. GoneDidNotFit'
  BY <1>1, <1>5, <1>8 DEF GoneDidNotFit
<1>10. Bytes(backup') <= MaxBytes
  BY <1>1, <1>2, EmptyBytes, BoundedLogAssumption
<1> QED
  BY <1>1, <1>4, <1>5, <1>7, <1>9, <1>10 DEF LogInv, WriterFits, OversizedIsOld

\* The backup followed by the log, and by what a trim holds in memory, is an unbroken
\* end of all that was saved, within its bounds, wherever _BoundedLogWriter is
\* interrupted, and what a rotation or a trim dropped did not fit: for any number of
\* lines of any size and any limit.  Only a trim interrupted before its tail is
\* written again loses more, and there the history begins anew (LoseTail).
THEOREM LogKeepsTheEnd == LogSpec => []LogIsRecent
<1>1. LogInit => LogInv
  <2> SUFFICES ASSUME LogInit
               PROVE  LogInv
    OBVIOUS
  <2>1. /\ file = <<>> /\ backup = <<>> /\ size = 0 /\ line = NoLine /\ tail = <<>>
        /\ step = "none" /\ saved = <<>> /\ longest = 0
    BY DEF LogInit
  <2>2. <<>> \in Seq(Lines) /\ <<>> \o <<>> = <<>> /\ Ends(<<>>, <<>>) /\ NoLine \in Lines
    BY ItsOwnEnd, EmptySeq DEF NoLine, Lines
  <2>3. LogTypes
    BY <2>1, <2>2 DEF LogTypes
  <2> QED
    BY <2>1, <2>2, <2>3, EmptyBytes, BoundedLogAssumption DEF LogInv, WriterFits, OversizedIsOld, GoneDidNotFit
<1>2. LogInv /\ [LogNext]_log => LogInv'
  <2> SUFFICES ASSUME LogInv, [LogNext]_log
               PROVE  LogInv'
    OBVIOUS
  <2>1. CASE UNCHANGED log
    BY <2>1 DEF log, LogInv, LogTypes, WriterFits, OversizedIsOld, GoneDidNotFit
  <2> QED
    BY <2>1, FindLogInv, QuietInv, TruncateInv, RewriteInv, LoseTailInv, WriteLineInv,
       UnlinkInv, ReplaceInv, FlushInv
       DEF LogNext
<1> QED
  BY <1>1, <1>2, RecentFromInv, PTL DEF LogSpec

-----------------------------------------------------------------------------
(* The schedule of a run: arithmetic.                                        *)

\* The remainder of the next number.
LEMMA ModSuccessor ==
    ASSUME NEW a \in Nat, NEW m \in Nat \ {0}
    PROVE  /\ a % m \in 0 .. m - 1
           /\ (a + 1) % m = IF (a % m) + 1 = m THEN 0 ELSE (a % m) + 1
<1> DEFINE d == a \div m
           e == (a + 1) \div m
           r == a % m
           t == (a + 1) % m
<1>1. d \in Int /\ e \in Int /\ r \in 0 .. m - 1 /\ t \in 0 .. m - 1
  OBVIOUS
<1>2. a = m * d + r /\ a + 1 = m * e + t
  OBVIOUS
<1> HIDE DEF d, e, r, t
<1>3. m * (e - d) = r + 1 - t /\ e - d \in Int
  BY <1>1, <1>2
<1>4. e - d < 2
  <2>1. SUFFICES ASSUME e - d >= 2
                 PROVE  FALSE
    BY <1>1
  <2>2. m * (e - d) >= 2 * m
    BY <1>3, <2>1
  <2> QED
    BY <1>1, <1>3, <2>2
<1>5. e - d > -1
  <2>1. SUFFICES ASSUME e - d <= -1
                 PROVE  FALSE
    BY <1>1
  <2>2. m * (e - d) <= -m
    BY <1>3, <2>1
  <2> QED
    BY <1>1, <1>3, <2>2
<1>6. CASE e - d = 0
  <2>1. r + 1 - t = 0
    BY <1>3, <1>6
  <2> QED
    BY <1>1, <2>1 DEF r, t
<1>7. CASE e - d = 1
  <2>1. r + 1 - t = m
    BY <1>3, <1>7
  <2> QED
    BY <1>1, <2>1 DEF r, t
<1> QED
  BY <1>1, <1>4, <1>5, <1>6, <1>7

\* The remainder of 0.
LEMMA ModZero ==
    ASSUME NEW m \in Nat \ {0}
    PROVE  0 % m = 0
<1> DEFINE d == 0 \div m
           r == 0 % m
<1>1. d \in Int /\ r \in 0 .. m - 1 /\ 0 = m * d + r
  OBVIOUS
<1> HIDE DEF d, r
<1>2. CASE d >= 1
  <2>1. m * d >= m
    BY <1>1, <1>2
  <2> QED
    BY <1>1, <2>1
<1>3. CASE d <= -1
  <2>1. m * d <= -m
    BY <1>1, <1>3
  <2> QED
    BY <1>1, <2>1
<1>4. CASE d = 0
  BY <1>1, <1>4 DEF r
<1> QED
  BY <1>1, <1>2, <1>3, <1>4

\* The sum of n equal terms.
LEMMA Multiples ==
    ASSUME NEW n \in Nat, NEW c \in Int, NEW f, \A i \in 1 .. n : f[i] = c
    PROVE  SumFunctionOnSet(f, 1 .. n) = n * c
<1> DEFINE B == {i \in 0 .. n : SumFunctionOnSet(f, 1 .. i) # i * c}
<1> SUFFICES ASSUME B # {}
             PROVE  FALSE
  OBVIOUS
<1>1. PICK i \in B : \A j \in B : i <= j
  <2>1. B \in SUBSET Nat
    OBVIOUS
  <2> HIDE DEF B
  <2> QED
    BY <2>1, LeastNumber
<1>2. i # 0
  <2>1. 1 .. 0 = {} /\ 0 * c = 0
    OBVIOUS
  <2> QED
    BY <1>1, <2>1, SumEmpty
<1>3. i - 1 \in 0 .. n /\ i - 1 \notin B /\ i \in 0 .. n
  BY <1>1, <1>2
<1>4. SumFunctionOnSet(f, 1 .. (i - 1)) = (i - 1) * c
  BY <1>3
<1> HIDE DEF B
<1>5. SumFunctionOnSet(f, 1 .. i) = f[i] + SumFunctionOnSet(f, (1 .. i) \ {i})
  <2> DEFINE D == 1 .. i
  <2>1. IsFiniteSet(D)
    BY <1>3, FS_Interval
  <2>2. i \in D /\ \A x \in D : f[x] \in Int
    BY <1>2, <1>3
  <2> HIDE DEF D
  <2>3. SumFunctionOnSet(f, D) = f[i] + SumFunctionOnSet(f, D \ {i})
    BY <2>1, <2>2, SumTypeAndRemove
  <2> QED
    BY <2>3 DEF D
<1>6. (1 .. i) \ {i} = 1 .. (i - 1) /\ f[i] = c
  BY <1>2, <1>3
<1>7. SumFunctionOnSet(f, 1 .. i) = c + (i - 1) * c
  BY <1>4, <1>5, <1>6
<1>8. c + (i - 1) * c = i * c
  BY <1>3
<1> QED
  BY <1>1, <1>7, <1>8 DEF B
-----------------------------------------------------------------------------
\* The nodes that a source can send to.
Others(k) == RemoveAt(RunNodes, CHOOSE i \in DOMAIN RunNodes : RunNodes[i] = SourceOf(k))

\* The messages each source of a flow is to send.
Planned(k) == MessagesPerFlow(flows[k[1]])

\* How many messages a source has sent.
Done(k) == IF k \in DOMAIN ticks THEN ticks[k] ELSE Planned(k)

\* What the sources of a flow have sent.
FlowDone(f) ==
    LET sources == 1 .. Len(flows[f].sources)
    IN  SumFunctionOnSet([s \in sources |-> Done(<<f, s>>)], sources)

\* The messages of a run.
RunMessages == [flow : Nat, source : Range(RunNodes), due : Int, to : Range(RunNodes)]

\* The types of the schedule's state.
ScheduleTypes ==
    /\ flows \in Seq(Flows) /\ duration \in Nat
    /\ \A f \in DOMAIN flows : offsets[f] \in [1 .. Len(flows[f].sources) -> Int]
    /\ DOMAIN ticks \subseteq AllSources(flows) /\ ticks \in [DOMAIN ticks -> Nat]
    /\ robin \in [AllSources(flows) -> Nat]
    /\ sent \in Seq(RunMessages)

\* A source that still has a timer has not sent all its messages.
TicksFit == \A k \in DOMAIN ticks : ticks[k] < Planned(k)

\* Messages left in the order they were due, and what is still to be sent is
\* due no earlier.
SentInOrder ==
    /\ \A i \in 1 .. Len(sent) - 1 : sent[i].due <= sent[i + 1].due
    /\ \A k \in DOMAIN ticks : sent # <<>> => sent[Len(sent)].due <= DueAt(k, ticks[k])

\* The messages sent are those the sources have counted.
SentIsCounted == Len(sent) = SumFunctionOnSet([f \in DOMAIN flows |-> FlowDone(f)], DOMAIN flows)

\* A round-robin source is in its q-th turn: the nodes it has passed in this
\* turn got one message more than the others.
Shared(k) ==
    \E q \in Nat : \A j \in 1 .. Len(RunNodes) - 1 :
        SentTo(k[1], SourceOf(k), Others(k)[j]) =
            IF j <= robin[k] % (Len(RunNodes) - 1) THEN q + 1 ELSE q

\* Every round-robin source shares its messages so.
RobinShares == \A k \in AllSources(flows) : flows[k[1]].fixed = "round-robin" => Shared(k)

\* The inductive invariant of a run that has begun.
RunInv == flows # <<>> /\ ScheduleTypes /\ TicksFit /\ SentInOrder /\ SentIsCounted /\ RobinShares

\* The inductive invariant of the schedule.
ScheduleInv == ScheduleInit \/ RunInv

\* A timer's key is a flow and one of its sources.
LEMMA SourceKeys ==
    ASSUME NEW request
    PROVE  /\ \A k \in AllSources(request) :
                 k = <<k[1], k[2]>> /\ k[1] \in DOMAIN request /\ k[2] \in DOMAIN request[k[1]].sources
           /\ \A f \in DOMAIN request : \A s \in DOMAIN request[f].sources :
                 <<f, s>> \in AllSources(request)
  BY DEF AllSources

\* What a run's flow is.
LEMMA FlowFacts ==
    ASSUME NEW fs \in Seq(Flows), NEW f \in DOMAIN fs
    PROVE  /\ fs[f] \in Flows /\ f \in Nat
           /\ fs[f].interval \in Nat /\ fs[f].interval > 0
           /\ fs[f].sources \in Seq(Range(RunNodes)) /\ fs[f].sources # <<>>
           /\ Len(fs[f].sources) \in Nat /\ Len(fs[f].sources) > 0
           /\ DOMAIN fs[f].sources = 1 .. Len(fs[f].sources)
           /\ IsInjective(fs[f].sources)
           /\ fs[f].fixed \in Range(RunNodes) \/ fs[f].fixed = "round-robin"
<1>1. fs[f] \in Flows /\ f \in Nat
  OBVIOUS
<1>2. /\ fs[f].interval \in Nat \ {0}
      /\ fs[f].sources \in Seq(Range(RunNodes)) \ {<<>>} /\ IsInjective(fs[f].sources)
      /\ fs[f].fixed \in (Range(RunNodes) \ Range(fs[f].sources)) \cup {"round-robin"}
  BY <1>1, ScheduleAssumption
<1>3. fs[f].sources \in Seq(Range(RunNodes)) /\ fs[f].sources # <<>>
  BY <1>2
<1>4. /\ Len(fs[f].sources) \in Nat /\ Len(fs[f].sources) > 0
      /\ DOMAIN fs[f].sources = 1 .. Len(fs[f].sources)
  BY <1>3, EmptySeq, LenProperties
<1> QED
  BY <1>1, <1>2, <1>3, <1>4

\* Every source sends at least one message.
LEMMA PlannedIsPositive ==
    ASSUME NEW flow \in Flows, NEW d \in Nat
    PROVE  LET n == Max({1, (d + flow.interval - 1) \div flow.interval})
           IN  n \in Nat /\ n >= 1
<1> DEFINE e == (d + flow.interval - 1) \div flow.interval
<1>1. flow.interval \in Nat \ {0}
  BY ScheduleAssumption
<1>2. e \in Int
  BY <1>1
<1> HIDE DEF e
<1>3. Max({1, e}) = IF 1 >= e THEN 1 ELSE e
  BY <1>2, OfTwo
<1>4. Max({1, e}) \in Nat /\ Max({1, e}) >= 1
  BY <1>2, <1>3
<1> QED
  BY <1>4 DEF e

\* What the nodes other than a source are.
LEMMA OthersAre ==
    ASSUME NEW source \in Range(RunNodes), NEW c,
           c = RemoveAt(RunNodes, CHOOSE i \in DOMAIN RunNodes : RunNodes[i] = source)
    PROVE  /\ Len(RunNodes) - 1 \in Nat \ {0}
           /\ Len(c) = Len(RunNodes) - 1
           /\ \A j \in 1 .. Len(RunNodes) - 1 : c[j] \in Range(RunNodes)
           /\ \A i, j \in 1 .. Len(RunNodes) - 1 : c[i] = c[j] => i = j
           /\ \A x \in Range(RunNodes) \ {source} : \E j \in 1 .. Len(RunNodes) - 1 : c[j] = x
<1> DEFINE n == Len(RunNodes)
           N == Range(RunNodes)
           p == CHOOSE i \in DOMAIN RunNodes : RunNodes[i] = source
<1>1. /\ RunNodes \in Seq(N) /\ n \in Nat /\ n >= 2 /\ DOMAIN RunNodes = 1 .. n
  BY ScheduleAssumption, LenProperties
<1>2. p \in 1 .. n /\ RunNodes[p] = source
  BY <1>1 DEF Range
<1>3. \A i, j \in 1 .. n : RunNodes[i] = RunNodes[j] => i = j
  BY <1>1, ScheduleAssumption DEF IsInjective
<1>4. \A x \in N : \E i \in 1 .. n : RunNodes[i] = x
  BY <1>1 DEF Range
<1>5. \A i \in 1 .. n : RunNodes[i] \in N
  BY <1>1 DEF Range
<1>6. c = SubSeq(RunNodes, 1, p - 1) \o SubSeq(RunNodes, p + 1, n)
  BY DEF RemoveAt
<1> HIDE DEF n, N, p
<1>7. /\ Len(c) = n - 1
      /\ \A j \in 1 .. n - 1 : c[j] = IF j < p THEN RunNodes[j] ELSE RunNodes[j + 1]
  <2>1. /\ SubSeq(RunNodes, 1, p - 1) \in Seq(N) /\ Len(SubSeq(RunNodes, 1, p - 1)) = p - 1
        /\ \A j \in 1 .. p - 1 : SubSeq(RunNodes, 1, p - 1)[j] = RunNodes[j]
    BY <1>1, <1>2, <1>5 DEF n
  <2>2. /\ SubSeq(RunNodes, p + 1, n) \in Seq(N) /\ Len(SubSeq(RunNodes, p + 1, n)) = n - p
        /\ \A j \in 1 .. n - p : SubSeq(RunNodes, p + 1, n)[j] = RunNodes[p + j]
    <3>1. \A i \in (p + 1) .. n : RunNodes[i] \in N
      BY <1>1, <1>2, <1>5
    <3>2. /\ SubSeq(RunNodes, p + 1, n) \in Seq(N)
          /\ Len(SubSeq(RunNodes, p + 1, n)) = IF p + 1 <= n THEN n - (p + 1) + 1 ELSE 0
          /\ \A i \in 1 .. n - (p + 1) + 1 : SubSeq(RunNodes, p + 1, n)[i] = RunNodes[p + 1 + i - 1]
      BY <1>1, <1>2, <3>1, SubSeqProperties DEF n
    <3> QED
      BY <1>1, <1>2, <3>2
  <2> DEFINE a == SubSeq(RunNodes, 1, p - 1)
               b == SubSeq(RunNodes, p + 1, n)
  <2>3. /\ a \in Seq(N) /\ b \in Seq(N) /\ Len(a) = p - 1 /\ Len(b) = n - p /\ c = a \o b
        /\ \A j \in 1 .. p - 1 : a[j] = RunNodes[j]
        /\ \A j \in 1 .. n - p : b[j] = RunNodes[p + j]
    BY <1>6, <2>1, <2>2
  <2> HIDE DEF a, b
  <2>4. Len(c) = n - 1
    BY <1>1, <1>2, <2>3
  <2>5. ASSUME NEW j \in 1 .. n - 1
        PROVE  c[j] = IF j < p THEN RunNodes[j] ELSE RunNodes[j + 1]
    <3>1. CASE j < p
      <4>1. c[j] = a[j]
        BY <1>1, <1>2, <2>3, <3>1
      <4> QED
        BY <1>1, <1>2, <2>3, <3>1, <4>1
    <3>2. CASE j >= p
      <4>1. c[j] = b[j - (p - 1)] /\ j - (p - 1) \in 1 .. n - p
        <5>1. j > Len(a) /\ j \in 1 .. Len(a) + Len(b) /\ j - (p - 1) \in 1 .. n - p
          BY <1>1, <1>2, <2>3, <3>2
        <5>2. (a \o b)[j] = b[j - Len(a)]
          BY <2>3, <5>1, ConcatProperties
        <5> QED
          BY <2>3, <5>1, <5>2
      <4>2. b[j - (p - 1)] = RunNodes[p + (j - (p - 1))] /\ p + (j - (p - 1)) = j + 1
        BY <1>1, <1>2, <2>3, <4>1
      <4> QED
        BY <1>1, <1>2, <3>2, <4>1, <4>2
    <3> QED
      BY <1>1, <1>2, <3>1, <3>2
  <2> QED
    BY <2>4, <2>5
<1>8. \A j \in 1 .. n - 1 : c[j] \in N
  BY <1>1, <1>2, <1>5, <1>7
<1>9. \A i, j \in 1 .. n - 1 : c[i] = c[j] => i = j
  BY <1>1, <1>2, <1>3, <1>7
<1>10. ASSUME NEW x \in N \ {source}
       PROVE  \E j \in 1 .. n - 1 : c[j] = x
  <2>1. PICK i \in 1 .. n : RunNodes[i] = x
    BY <1>4
  <2>2. i # p
    BY <1>2, <2>1
  <2>3. CASE i < p
    BY <1>1, <1>2, <1>7, <2>1, <2>3
  <2>4. CASE i > p
    <3>1. i - 1 \in 1 .. n - 1 /\ c[i - 1] = RunNodes[i]
      BY <1>1, <1>2, <1>7, <2>4
    <3> QED
      BY <2>1, <3>1
  <2> QED
    BY <1>2, <2>2, <2>3, <2>4
<1>11. /\ n - 1 \in Nat \ {0} /\ Len(c) = n - 1
  BY <1>1, <1>7
<1> QED
  BY <1>8, <1>9, <1>10, <1>11, Zenon DEF n, N

\* How one more message changes the counts.
LEMMA SentToGrows ==
    ASSUME sent \in Seq(RunMessages), NEW m \in RunMessages, sent' = Append(sent, m),
           NEW f, NEW source, NEW to
    PROVE  /\ SentTo(f, source, to) \in Nat
           /\ SentTo(f, source, to)' = IF m.flow = f /\ m.source = source /\ m.to = to
                                       THEN SentTo(f, source, to) + 1 ELSE SentTo(f, source, to)
<1> DEFINE n == Len(sent)
           D == {i \in DOMAIN sent : sent[i].flow = f /\ sent[i].source = source /\ sent[i].to = to}
           E == {i \in DOMAIN sent' : sent'[i].flow = f /\ sent'[i].source = source /\ sent'[i].to = to}
<1>1. n \in Nat /\ DOMAIN sent = 1 .. n
  BY LenProperties
<1>2. DOMAIN sent' = 1 .. n + 1 /\ sent'[n + 1] = m /\ \A i \in 1 .. n : sent'[i] = sent[i]
  BY <1>1, AppendProperties
<1>3. IsFiniteSet(D) /\ n + 1 \notin D
  <2>1. D \subseteq 1 .. n /\ IsFiniteSet(1 .. n)
    BY <1>1, FS_Interval
  <2>2. IsFiniteSet(D)
    BY <2>1, FS_Subset
  <2> QED
    BY <1>1, <2>1, <2>2
<1>4. Cardinality(D) \in Nat /\ Cardinality(D \cup {n + 1}) = Cardinality(D) + 1
  <2> HIDE DEF D, n
  <2> QED
    BY <1>3, FS_CardinalityType, FS_AddElement
<1>5. E = IF m.flow = f /\ m.source = source /\ m.to = to THEN D \cup {n + 1} ELSE D
  BY <1>1, <1>2
<1>6. SentTo(f, source, to) = Cardinality(D) /\ SentTo(f, source, to)' = Cardinality(E)
  BY DEF SentTo
<1> HIDE DEF D, E
<1> QED
  BY <1>4, <1>5, <1>6

\* The offsets of a flow.
LEMMA OffsetsAre ==
    ASSUME NEW fs \in Seq(Flows), NEW f \in DOMAIN fs, NEW o \in SourceOffsets(fs[f])
    PROVE  o \in [1 .. Len(fs[f].sources) -> Int]
<1> DEFINE flow == fs[f]
           count == Len(flow.sources)
<1>1. flow.interval \in Nat /\ flow.interval > 0 /\ count \in Nat /\ count > 0
  BY FlowFacts
<1>2. flow.timing \in {"aligned", "evenly-staggered", "deterministic-jitter"}
  <2>1. flow \in Flows
    BY FlowFacts
  <2> QED
    BY <2>1, ScheduleAssumption
<1>3. o \in SourceOffsets(flow)
  OBVIOUS
<1> HIDE DEF flow
<1>4. CASE flow.timing = "aligned"
  <2>1. o = [s \in 1 .. count |-> 0]
    BY <1>3, <1>4 DEF SourceOffsets
  <2> QED
    BY <2>1 DEF flow
<1>5. CASE flow.timing = "evenly-staggered"
  <2>1. o = [s \in 1 .. count |-> ((s - 1) * flow.interval) \div count]
    BY <1>3, <1>5 DEF SourceOffsets
  <2>2. ASSUME NEW s \in 1 .. count
        PROVE  ((s - 1) * flow.interval) \div count \in Int
    BY <1>1
  <2> QED
    BY <2>1, <2>2 DEF flow
<1>6. CASE flow.timing = "deterministic-jitter"
  <2>1. o \in [1 .. count -> 0 .. flow.interval - 1]
    BY <1>3, <1>6 DEF SourceOffsets
  <2> QED
    BY <1>1, <2>1 DEF flow
<1> QED
  BY <1>2, <1>4, <1>5, <1>6

\* A run has at least two nodes.
LEMMA EnoughNodes == Len(RunNodes) - 1 \in Nat \ {0}
<1> DEFINE n == Len(RunNodes)
<1>1. RunNodes \in Seq(Range(RunNodes)) /\ n >= 2
  BY ScheduleAssumption
<1>2. n \in Nat
  BY <1>1, LenProperties
<1> HIDE DEF n
<1>3. n - 1 \in Nat \ {0}
  BY <1>1, <1>2
<1> QED
  BY <1>3 DEF n

\* A run that begins satisfies the invariant.
LEMMA BeginRunInv == ScheduleInit /\ BeginRun => RunInv'
<1> SUFFICES ASSUME ScheduleInit, BeginRun
             PROVE  RunInv'
  OBVIOUS
<1>1. /\ flows' \in Seq(Flows) /\ duration' \in Nat /\ sent' = <<>>
      /\ ticks' = [k \in AllSources(flows') |-> 0] /\ robin' = ticks'
      /\ \A f \in DOMAIN flows' : offsets'[f] \in SourceOffsets(flows'[f])
  <2>1. flows' \in Seq(Flows)
    BY DEF BeginRun, BoundedSeq, SeqOf
  <2>2. duration' \in Nat
    BY ScheduleAssumption DEF BeginRun
  <2> QED
    BY <2>1, <2>2 DEF BeginRun, ScheduleInit
<1>2. ScheduleTypes'
  <2>1. \A f \in DOMAIN flows' : offsets'[f] \in [1 .. Len(flows'[f].sources) -> Int]
    BY <1>1, OffsetsAre
  <2>2. sent' \in Seq(RunMessages)
    BY <1>1
  <2>3. DOMAIN ticks' = AllSources(flows') /\ ticks' \in [AllSources(flows') -> Nat]
    BY <1>1
  <2> QED
    BY <1>1, <2>1, <2>2, <2>3 DEF ScheduleTypes
<1>3. TicksFit'
  <2>1. ASSUME NEW k \in DOMAIN ticks'
        PROVE  ticks'[k] < Planned(k)'
    <3>1. ticks'[k] = 0 /\ k \in AllSources(flows')
      BY <1>1
    <3>2. k[1] \in DOMAIN flows'
      BY <3>1, SourceKeys
    <3>3. flows'[k[1]] \in Flows
      BY <1>1, <3>2, FlowFacts
    <3>4. Planned(k)' \in Nat /\ Planned(k)' >= 1
      BY <1>1, <3>3, PlannedIsPositive DEF Planned, MessagesPerFlow
    <3> QED
      BY <3>1, <3>4
  <2> QED
    BY <2>1 DEF TicksFit
<1>4. SentInOrder'
  BY <1>1 DEF SentInOrder
<1>5. SentIsCounted'
  <2>1. ASSUME NEW f \in DOMAIN flows'
        PROVE  FlowDone(f)' = 0
    <3> DEFINE n == Len(flows'[f].sources)
               g == [s \in 1 .. n |-> Done(<<f, s>>)']
    <3>1. n \in Nat /\ DOMAIN flows'[f].sources = 1 .. n
      BY <1>1, FlowFacts
    <3>2. ASSUME NEW s \in 1 .. n
          PROVE  Done(<<f, s>>)' = 0
      <4>1. <<f, s>> \in AllSources(flows')
        BY <3>1, SourceKeys
      <4> QED
        BY <1>1, <4>1 DEF Done
    <3>3. \A s \in 1 .. n : g[s] = 0
      BY <3>2
    <3>4. FlowDone(f)' = SumFunctionOnSet(g, 1 .. n)
      BY DEF FlowDone
    <3> HIDE DEF n, g
    <3>5. ASSUME NEW c \in Int, \A s \in 1 .. n : g[s] = c
          PROVE  SumFunctionOnSet(g, 1 .. n) = n * c
      BY <3>1, <3>5, Multiples
    <3>6. SumFunctionOnSet(g, 1 .. n) = n * 0
      BY <3>3, <3>5
    <3> QED
      BY <3>1, <3>4, <3>6
  <2> DEFINE d == Len(flows')
             h == [f \in DOMAIN flows' |-> FlowDone(f)']
  <2>2. d \in Nat /\ DOMAIN flows' = 1 .. d
    BY <1>1, LenProperties
  <2>3. \A f \in 1 .. d : h[f] = 0
    BY <2>1, <2>2
  <2> HIDE DEF d, h
  <2>4. SumFunctionOnSet(h, 1 .. d) = d * 0
    <3>1. ASSUME NEW c \in Int, \A f \in 1 .. d : h[f] = c
          PROVE  SumFunctionOnSet(h, 1 .. d) = d * c
      BY <2>2, <3>1, Multiples
    <3> QED
      BY <2>3, <3>1
  <2>5. SumFunctionOnSet(h, DOMAIN flows') = 0
    BY <2>2, <2>4
  <2> QED
    BY <1>1, <2>5 DEF SentIsCounted, h
<1>6. RobinShares'
  <2>1. ASSUME NEW k \in AllSources(flows')
        PROVE  Shared(k)'
    <3>1. robin'[k] = 0
      BY <1>1
    <3>2. Len(RunNodes) - 1 \in Nat \ {0}
      BY EnoughNodes
    <3> DEFINE m == Len(RunNodes) - 1
    <3> HIDE DEF m
    <3>3. robin'[k] % m = 0 /\ m \in Nat
      BY <3>1, <3>2, ModZero DEF m
    <3>4. ASSUME NEW j \in 1 .. Len(RunNodes) - 1
          PROVE  SentTo(k[1], SourceOf(k), Others(k)[j])' = 0
      <4>1. DOMAIN sent' = {}
        BY <1>1
      <4> QED
        BY <4>1, FS_EmptySet DEF SentTo
    <3>5. \A j \in 1 .. m : SentTo(k[1], SourceOf(k), Others(k)[j])' =
                              IF j <= robin'[k] % m THEN 0 + 1 ELSE 0
      <4>1. ASSUME NEW j \in 1 .. m
            PROVE  ~(j <= robin'[k] % m)
        BY <3>3
      <4> QED
        BY <3>4, <4>1 DEF m
    <3>6. 0 \in Nat
      OBVIOUS
    <3> QED
      BY <3>5, <3>6, Zenon DEF Shared, m
  <2> QED
    BY <2>1 DEF RobinShares
<1> QED
  BY <1>2, <1>3, <1>4, <1>5, <1>6 DEF RunInv, BeginRun

\* A product grows with its first factor.
LEMMA TimesGrows ==
    ASSUME NEW a \in Nat, NEW d \in Nat, NEW b \in Nat
    PROVE  a * b <= (a + d) * b
<1>1. (a + d) * b = a * b + d * b /\ d * b >= 0
  OBVIOUS
<1> QED
  BY <1>1

\* The time of the next message is a number.
LEMMA DueIsNumber ==
    ASSUME ScheduleTypes, NEW k \in DOMAIN ticks
    PROVE  DueAt(k, ticks[k]) \in Int
<1>1. flows \in Seq(Flows) /\ k \in AllSources(flows) /\ ticks[k] \in Nat
  BY DEF ScheduleTypes
<1>2. k[1] \in DOMAIN flows /\ k[2] \in DOMAIN flows[k[1]].sources
  BY <1>1, SourceKeys
<1>3. k[2] \in 1 .. Len(flows[k[1]].sources) /\ flows[k[1]].interval \in Nat
  BY <1>1, <1>2, FlowFacts
<1>4. offsets[k[1]][k[2]] \in Int
  BY <1>2, <1>3 DEF ScheduleTypes
<1> QED
  BY <1>1, <1>3, <1>4 DEF DueAt

\* The source of a timer is a node of the run.
LEMMA SourceIsNode ==
    ASSUME flows \in Seq(Flows), NEW k \in AllSources(flows)
    PROVE  SourceOf(k) \in Range(RunNodes)
<1>1. k[1] \in DOMAIN flows /\ k[2] \in DOMAIN flows[k[1]].sources
  BY SourceKeys
<1>2. flows[k[1]].sources \in Seq(Range(RunNodes))
  BY <1>1, FlowFacts
<1> QED
  BY <1>1, <1>2 DEF SourceOf

\* The message a timer submits is one of Messages: its destination is a node.
LEMMA MessageFits ==
    ASSUME ScheduleTypes, NEW k \in DOMAIN ticks
    PROVE  [flow |-> k[1], source |-> SourceOf(k),
            due |-> DueAt(k, ticks[k]), to |-> Destination(k)] \in RunMessages
<1>1. flows \in Seq(Flows) /\ k \in AllSources(flows) /\ robin[k] \in Nat
  BY DEF ScheduleTypes
<1>2. k[1] \in DOMAIN flows
  BY <1>1, SourceKeys
<1>3. k[1] \in Nat /\ (flows[k[1]].fixed \in Range(RunNodes) \/ flows[k[1]].fixed = "round-robin")
  BY <1>1, <1>2, FlowFacts
<1>4. SourceOf(k) \in Range(RunNodes) /\ DueAt(k, ticks[k]) \in Int
  BY <1>1, SourceIsNode, DueIsNumber
<1>5. /\ Len(RunNodes) - 1 \in Nat \ {0} /\ Len(Others(k)) = Len(RunNodes) - 1
      /\ \A j \in 1 .. Len(RunNodes) - 1 : Others(k)[j] \in Range(RunNodes)
  BY <1>4, OthersAre DEF Others
<1>6. (robin[k] % Len(Others(k))) + 1 \in 1 .. Len(RunNodes) - 1
  <2>1. robin[k] % (Len(RunNodes) - 1) \in 0 .. (Len(RunNodes) - 1) - 1
    BY <1>1, <1>5, ModSuccessor
  <2> QED
    BY <1>5, <2>1
<1>7. Destination(k) = IF flows[k[1]].fixed # "round-robin" THEN flows[k[1]].fixed
                       ELSE Others(k)[(robin[k] % Len(Others(k))) + 1]
  BY DEF Destination, Others
<1>8. Destination(k) \in Range(RunNodes)
  BY <1>3, <1>5, <1>6, <1>7
<1> QED
  BY <1>3, <1>4, <1>8 DEF RunMessages

\* The source that is due first has sent one more message.
LEMMA SubmitFacts ==
    ASSUME RunInv, Submit
    PROVE  \E k \in DOMAIN ticks :
             /\ k \in AllSources(flows) /\ k[1] \in DOMAIN flows
             /\ \A l \in DOMAIN ticks : DueAt(k, ticks[k]) <= DueAt(l, ticks[l])
             /\ sent' = Append(sent, [flow |-> k[1], source |-> SourceOf(k),
                                      due |-> DueAt(k, ticks[k]), to |-> Destination(k)])
             /\ robin' = IF flows[k[1]].fixed = "round-robin" THEN [robin EXCEPT ![k] = @ + 1]
                         ELSE robin
             /\ ticks' = IF ticks[k] + 1 = Planned(k)
                         THEN [l \in DOMAIN ticks \ {k} |-> ticks[l]]
                         ELSE [ticks EXCEPT ![k] = @ + 1]
             /\ UNCHANGED <<flows, duration, offsets>>
<1>1. PICK k \in DOMAIN ticks :
         /\ \A l \in DOMAIN ticks : Before(k, l)
         /\ sent' = Append(sent, [flow |-> k[1], source |-> SourceOf(k),
                                  due |-> DueAt(k, ticks[k]), to |-> Destination(k)])
         /\ robin' = IF flows[k[1]].fixed = "round-robin" THEN [robin EXCEPT ![k] = @ + 1]
                     ELSE robin
         /\ ticks' = IF ticks[k] + 1 = MessagesPerFlow(flows[k[1]])
                     THEN [l \in DOMAIN ticks \ {k} |-> ticks[l]]
                     ELSE [ticks EXCEPT ![k] = @ + 1]
  BY DEF Submit
<1>2. k \in AllSources(flows)
  BY DEF RunInv, ScheduleTypes
<1>3. k[1] \in DOMAIN flows
  BY <1>2, SourceKeys
<1>4. ASSUME NEW l \in DOMAIN ticks
      PROVE  DueAt(k, ticks[k]) <= DueAt(l, ticks[l])
  <2>1. DueAt(k, ticks[k]) \in Int /\ DueAt(l, ticks[l]) \in Int
    BY DueIsNumber DEF RunInv
  <2> QED
    BY <1>1, <2>1 DEF Before
<1> QED
  BY <1>1, <1>2, <1>3, <1>4 DEF Planned, Submit

\* Submitting keeps the order.
LEMMA SubmitOrder ==
    ASSUME RunInv, Submit
    PROVE  ScheduleTypes' /\ TicksFit' /\ SentInOrder'
<1>1. PICK k \in DOMAIN ticks :
         /\ k \in AllSources(flows) /\ k[1] \in DOMAIN flows
         /\ \A l \in DOMAIN ticks : DueAt(k, ticks[k]) <= DueAt(l, ticks[l])
         /\ sent' = Append(sent, [flow |-> k[1], source |-> SourceOf(k),
                                  due |-> DueAt(k, ticks[k]), to |-> Destination(k)])
         /\ robin' = IF flows[k[1]].fixed = "round-robin" THEN [robin EXCEPT ![k] = @ + 1]
                     ELSE robin
         /\ ticks' = IF ticks[k] + 1 = Planned(k)
                     THEN [l \in DOMAIN ticks \ {k} |-> ticks[l]]
                     ELSE [ticks EXCEPT ![k] = @ + 1]
         /\ UNCHANGED <<flows, duration, offsets>>
  BY SubmitFacts
<1> DEFINE m == [flow |-> k[1], source |-> SourceOf(k),
                 due |-> DueAt(k, ticks[k]), to |-> Destination(k)]
<1>2. ScheduleTypes /\ TicksFit /\ SentInOrder
  BY DEF RunInv
<1>3. m \in RunMessages
  BY <1>1, <1>2, MessageFits
<1>4. sent' = Append(sent, m) /\ m.due = DueAt(k, ticks[k])
  BY <1>1
<1>5. DueAt(k, ticks[k]) \in Int /\ ticks[k] \in Nat /\ ticks[k] < Planned(k)
  BY <1>2, DueIsNumber DEF TicksFit, ScheduleTypes
<1>6. Planned(k) \in Nat
  <2>1. flows[k[1]] \in Flows
    BY <1>1, <1>2, FlowFacts DEF ScheduleTypes
  <2> QED
    BY <1>2, <2>1, PlannedIsPositive DEF Planned, MessagesPerFlow, ScheduleTypes
<1> HIDE DEF m
<1>7. ScheduleTypes'
  <2>1. sent' \in Seq(RunMessages)
    BY <1>2, <1>3, <1>4, AppendProperties DEF ScheduleTypes
  <2>2. DOMAIN ticks' \subseteq AllSources(flows) /\ ticks' \in [DOMAIN ticks' -> Nat]
    BY <1>1, <1>2, <1>5 DEF ScheduleTypes
  <2>3. robin' \in [AllSources(flows) -> Nat]
    BY <1>1, <1>2 DEF ScheduleTypes
  <2>4. flows' = flows /\ duration' = duration /\ offsets' = offsets
    BY <1>1
  <2> QED
    BY <1>2, <2>1, <2>2, <2>3, <2>4 DEF ScheduleTypes
<1>8. ASSUME NEW l \in DOMAIN ticks'
      PROVE  /\ l \in DOMAIN ticks /\ ticks'[l] < Planned(l)' /\ ticks'[l] >= ticks[l]
             /\ Planned(l)' = Planned(l)
  <2>1. Planned(l)' = Planned(l)
    BY <1>1 DEF Planned, MessagesPerFlow
  <2>2. l \in DOMAIN ticks /\ ticks[l] \in Nat /\ ticks[l] < Planned(l)
    BY <1>1, <1>2 DEF ScheduleTypes, TicksFit
  <2>3. ticks'[l] = IF l = k THEN ticks[k] + 1 ELSE ticks[l]
    BY <1>1, <2>2 DEF ScheduleTypes
  <2>4. l = k => ticks[k] + 1 # Planned(k)
    BY <1>1
  <2> QED
    BY <1>5, <1>6, <2>1, <2>2, <2>3, <2>4
<1>9. ASSUME NEW l \in DOMAIN ticks'
      PROVE  m.due <= DueAt(l, ticks[l])'
  <2>1. l \in AllSources(flows) /\ l[1] \in DOMAIN flows
    BY <1>2, <1>8, SourceKeys DEF ScheduleTypes
  <2>2. flows[l[1]].interval \in Nat
    BY <1>2, <2>1, FlowFacts DEF ScheduleTypes
  <2>3. offsets[l[1]][l[2]] \in Int /\ ticks[l] \in Nat /\ ticks'[l] \in Nat
    <3>1. l[2] \in 1 .. Len(flows[l[1]].sources)
      BY <1>2, <2>1, SourceKeys, FlowFacts DEF ScheduleTypes
    <3> QED
      BY <1>2, <1>7, <1>8, <2>1, <3>1 DEF ScheduleTypes
  <2>4. ticks[l] * flows[l[1]].interval <= ticks'[l] * flows[l[1]].interval
    <3>1. ticks'[l] = ticks[l] + (ticks'[l] - ticks[l]) /\ ticks'[l] - ticks[l] \in Nat
      BY <1>8, <2>3
    <3> QED
      BY <2>2, <2>3, <3>1, TimesGrows
  <2>5. DueAt(l, ticks[l])' = offsets[l[1]][l[2]] + ticks'[l] * flows[l[1]].interval
    BY <1>1 DEF DueAt
  <2>6. DueAt(l, ticks[l]) = offsets[l[1]][l[2]] + ticks[l] * flows[l[1]].interval
    BY DEF DueAt
  <2>7. DueAt(k, ticks[k]) <= DueAt(l, ticks[l])
    BY <1>1, <1>8
  <2> DEFINE a == ticks[l] * flows[l[1]].interval
             b == ticks'[l] * flows[l[1]].interval
  <2>8. a \in Int /\ b \in Int
    BY <2>2, <2>3
  <2> HIDE DEF a, b
  <2>9. DueAt(l, ticks[l])' = offsets[l[1]][l[2]] + b /\ DueAt(l, ticks[l]) = offsets[l[1]][l[2]] + a
        /\ a <= b
    BY <2>4, <2>5, <2>6 DEF a, b
  <2> QED
    BY <1>4, <1>5, <2>3, <2>7, <2>8, <2>9
<1>10. SentInOrder'
  <2> DEFINE n == Len(sent)
  <2>1. /\ n \in Nat /\ Len(sent') = n + 1 /\ sent'[n + 1] = m /\ sent' # <<>>
        /\ \A i \in 1 .. n : sent'[i] = sent[i]
    BY <1>2, <1>3, <1>4, AppendProperties DEF ScheduleTypes
  <2>2. ASSUME NEW i \in 1 .. n
        PROVE  sent'[i].due <= sent'[i + 1].due
    <3>1. CASE i < n
      BY <1>2, <2>1, <3>1 DEF SentInOrder
    <3>2. CASE i = n
      <4>1. sent # <<>> /\ sent[n].due <= DueAt(k, ticks[k])
        BY <1>2, <2>1, <3>2 DEF SentInOrder
      <4> QED
        BY <1>4, <2>1, <3>2, <4>1
    <3> QED
      BY <2>1, <3>1, <3>2
  <2>3. \A l \in DOMAIN ticks' : sent'[Len(sent')].due <= DueAt(l, ticks[l])'
    BY <1>9, <2>1
  <2> QED
    BY <2>1, <2>2, <2>3 DEF SentInOrder
<1> QED
  BY <1>7, <1>8, <1>10 DEF TicksFit

\* One more message is one more in the sums.
LEMMA SubmitCount ==
    ASSUME RunInv, Submit
    PROVE  SentIsCounted'
<1>1. PICK k \in DOMAIN ticks :
         /\ k \in AllSources(flows) /\ k[1] \in DOMAIN flows
         /\ sent' = Append(sent, [flow |-> k[1], source |-> SourceOf(k),
                                  due |-> DueAt(k, ticks[k]), to |-> Destination(k)])
         /\ ticks' = IF ticks[k] + 1 = Planned(k)
                     THEN [l \in DOMAIN ticks \ {k} |-> ticks[l]]
                     ELSE [ticks EXCEPT ![k] = @ + 1]
         /\ UNCHANGED <<flows, duration, offsets>>
  BY SubmitFacts
<1>2. ScheduleTypes /\ flows \in Seq(Flows)
  BY DEF RunInv, ScheduleTypes
<1>3. k[2] \in DOMAIN flows[k[1]].sources /\ k = <<k[1], k[2]>>
  BY <1>1, SourceKeys
<1>4. Len(sent') = Len(sent) + 1
  BY <1>1, <1>2, MessageFits, AppendProperties DEF ScheduleTypes
<1>5. \A l \in AllSources(flows) :
         /\ Done(l) \in Int /\ Done(l)' \in Int
         /\ Done(l)' = IF l = k THEN Done(l) + 1 ELSE Done(l)
  <2>1. ASSUME NEW l \in AllSources(flows)
        PROVE  Planned(l) \in Nat /\ Planned(l)' = Planned(l)
    <3>1. l[1] \in DOMAIN flows
      BY SourceKeys
    <3>2. flows[l[1]] \in Flows
      BY <1>2, <3>1, FlowFacts
    <3>3. Planned(l) \in Nat
      BY <1>2, <3>2, PlannedIsPositive DEF Planned, MessagesPerFlow, ScheduleTypes
    <3> QED
      BY <1>1, <3>3 DEF Planned, MessagesPerFlow
  <2>2. ASSUME NEW l \in AllSources(flows)
        PROVE  Done(l) \in Nat
    BY <1>2, <2>1 DEF Done, ScheduleTypes
  <2>3. ASSUME NEW l \in AllSources(flows)
        PROVE  Done(l)' = IF l = k THEN Done(l) + 1 ELSE Done(l)
    <3>1. CASE l # k
      <4>1. /\ l \in DOMAIN ticks' <=> l \in DOMAIN ticks
            /\ l \in DOMAIN ticks => ticks'[l] = ticks[l]
        BY <1>1, <1>2, <3>1 DEF ScheduleTypes
      <4> QED
        BY <2>1, <3>1, <4>1 DEF Done
    <3>2. CASE l = k
      <4>1. CASE ticks[k] + 1 = Planned(k)
        <5>1. k \notin DOMAIN ticks'
          BY <1>1, <4>1
        <5> QED
          BY <1>1, <2>1, <3>2, <4>1, <5>1 DEF Done
      <4>2. CASE ticks[k] + 1 # Planned(k)
        <5>1. k \in DOMAIN ticks' /\ ticks'[k] = ticks[k] + 1
          BY <1>1, <1>2, <4>2 DEF ScheduleTypes
        <5> QED
          BY <3>2, <5>1 DEF Done
      <4> QED
        BY <4>1, <4>2
    <3> QED
      BY <3>1, <3>2
  <2> QED
    BY <2>2, <2>3
<1>6. \A f \in DOMAIN flows :
         /\ FlowDone(f) \in Int /\ FlowDone(f)' \in Int
         /\ FlowDone(f)' = IF f = k[1] THEN FlowDone(f) + 1 ELSE FlowDone(f)
  <2> SUFFICES ASSUME NEW f \in DOMAIN flows
               PROVE  /\ FlowDone(f) \in Int /\ FlowDone(f)' \in Int
                      /\ FlowDone(f)' = IF f = k[1] THEN FlowDone(f) + 1 ELSE FlowDone(f)
    OBVIOUS
  <2>1. PICK S, g, h : /\ S = 1 .. Len(flows[f].sources)
                       /\ g = [s \in S |-> Done(<<f, s>>)] /\ h = [s \in S |-> Done(<<f, s>>)']
    OBVIOUS
  <2>2. FlowDone(f) = SumFunctionOnSet(g, S) /\ FlowDone(f)' = SumFunctionOnSet(h, S)
    BY <1>1, <2>1 DEF FlowDone
  <2>3. IsFiniteSet(S) /\ S = DOMAIN flows[f].sources
    BY <1>2, <2>1, FlowFacts, FS_Interval
  <2>4. \A s \in S : <<f, s>> \in AllSources(flows)
    BY <2>3, SourceKeys
  <2>5. \A s \in S : /\ g[s] \in Int /\ h[s] \in Int
                     /\ h[s] = IF <<f, s>> = k THEN g[s] + 1 ELSE g[s]
    BY <1>5, <2>1, <2>4
  <2>6. SumFunctionOnSet(g, S) \in Int /\ SumFunctionOnSet(h, S) \in Int
    BY <2>3, <2>5, SumTypeAndRemove
  <2>7. CASE f = k[1]
    <3>1. k[2] \in S /\ h[k[2]] = g[k[2]] + 1 /\ \A s \in S \ {k[2]} : g[s] = h[s]
      BY <1>3, <2>3, <2>5, <2>7
    <3>2. SumFunctionOnSet(h, S) = SumFunctionOnSet(g, S) + (h[k[2]] - g[k[2]])
      BY <2>3, <2>5, <3>1, SumUpdate
    <3> QED
      BY <2>2, <2>5, <2>6, <2>7, <3>1, <3>2
  <2>8. CASE f # k[1]
    <3>1. \A s \in S : g[s] = h[s]
      BY <1>3, <2>5, <2>8
    <3>2. SumFunctionOnSet(g, S) = SumFunctionOnSet(h, S)
      BY <2>3, <2>5, <3>1, SumUpdate
    <3> QED
      BY <2>2, <2>6, <2>8, <3>2
  <2> QED
    BY <2>7, <2>8
<1>7. PICK g, h, F : /\ F = DOMAIN flows
                     /\ g = [f \in F |-> FlowDone(f)] /\ h = [f \in F |-> FlowDone(f)']
  OBVIOUS
<1>8. IsFiniteSet(F)
  BY <1>2, <1>7, FS_Interval, LenProperties
<1>9. /\ \A f \in F : g[f] \in Int /\ h[f] \in Int
      /\ k[1] \in F /\ h[k[1]] = g[k[1]] + 1 /\ \A f \in F \ {k[1]} : g[f] = h[f]
  BY <1>1, <1>6, <1>7
<1>10. SumFunctionOnSet(h, F) = SumFunctionOnSet(g, F) + (h[k[1]] - g[k[1]])
  BY <1>8, <1>9, SumUpdate
<1>11. Len(sent) = SumFunctionOnSet(g, F) /\ Len(sent) \in Nat
  BY <1>2, <1>7, LenProperties DEF RunInv, SentIsCounted, ScheduleTypes
<1>12. Len(sent') = SumFunctionOnSet(h, F)
  BY <1>4, <1>9, <1>10, <1>11
<1> QED
  BY <1>1, <1>7, <1>12 DEF SentIsCounted

\* The sources of a flow are different nodes.
LEMMA SourcesDiffer ==
    ASSUME flows \in Seq(Flows), NEW k \in AllSources(flows), NEW l \in AllSources(flows),
           k[1] = l[1], SourceOf(k) = SourceOf(l)
    PROVE  k = l
<1>1. /\ k = <<k[1], k[2]>> /\ k[1] \in DOMAIN flows /\ k[2] \in DOMAIN flows[k[1]].sources
      /\ l = <<l[1], l[2]>> /\ l[2] \in DOMAIN flows[l[1]].sources
  BY SourceKeys
<1>2. IsInjective(flows[k[1]].sources)
  BY <1>1, FlowFacts
<1>3. k[2] = l[2]
  BY <1>1, <1>2 DEF SourceOf, IsInjective
<1> QED
  BY <1>1, <1>3

\* Submitting moves a round-robin source to the next node of its turn.
LEMMA SubmitShares ==
    ASSUME RunInv, Submit
    PROVE  RobinShares'
<1>1. PICK k \in DOMAIN ticks :
         /\ k \in AllSources(flows) /\ k[1] \in DOMAIN flows
         /\ sent' = Append(sent, [flow |-> k[1], source |-> SourceOf(k),
                                  due |-> DueAt(k, ticks[k]), to |-> Destination(k)])
         /\ robin' = IF flows[k[1]].fixed = "round-robin" THEN [robin EXCEPT ![k] = @ + 1]
                     ELSE robin
         /\ UNCHANGED <<flows, duration, offsets>>
  BY SubmitFacts
<1>2. ScheduleTypes /\ flows \in Seq(Flows) /\ sent \in Seq(RunMessages) /\ robin \in [AllSources(flows) -> Nat]
  BY DEF RunInv, ScheduleTypes
<1>3. PICK m : m = [flow |-> k[1], source |-> SourceOf(k),
                    due |-> DueAt(k, ticks[k]), to |-> Destination(k)]
  OBVIOUS
<1>4. /\ m \in RunMessages /\ sent' = Append(sent, m)
      /\ m.flow = k[1] /\ m.source = SourceOf(k) /\ m.to = Destination(k)
  BY <1>1, <1>2, <1>3, MessageFits
<1> SUFFICES ASSUME NEW l \in AllSources(flows), flows[l[1]].fixed = "round-robin"
             PROVE  Shared(l)'
  BY <1>1 DEF RobinShares
<1>5. PICK n, source, c : n = Len(RunNodes) - 1 /\ source = SourceOf(l) /\ c = Others(l)
  OBVIOUS
<1>6. /\ n \in Nat \ {0} /\ Len(c) = n
      /\ \A i, j \in 1 .. n : c[i] = c[j] => i = j
  <2>1. source \in Range(RunNodes)
    BY <1>2, <1>5, SourceIsNode
  <2>2. c = RemoveAt(RunNodes, CHOOSE i \in DOMAIN RunNodes : RunNodes[i] = source)
    BY <1>5 DEF Others
  <2> QED
    BY <1>5, <2>1, <2>2, OthersAre
<1>7. SourceOf(l)' = source /\ Others(l)' = c
  BY <1>1, <1>5 DEF SourceOf, Others
<1>8. robin[l] \in Nat /\ robin[l] % n \in 0 .. n - 1
  BY <1>2, <1>6, ModSuccessor
<1>9. PICK q \in Nat : \A j \in 1 .. n :
         SentTo(l[1], source, c[j]) = IF j <= robin[l] % n THEN q + 1 ELSE q
  BY <1>5 DEF RunInv, RobinShares, Shared
<1>10. \A j \in 1 .. n :
          SentTo(l[1], source, c[j])' =
              IF m.flow = l[1] /\ m.source = source /\ m.to = c[j]
              THEN SentTo(l[1], source, c[j]) + 1 ELSE SentTo(l[1], source, c[j])
  BY <1>2, <1>4, SentToGrows
<1>11. CASE l # k
  <2>1. robin'[l] = robin[l]
    BY <1>1, <1>2, <1>11
  <2>2. ~(m.flow = l[1] /\ m.source = source)
    BY <1>1, <1>2, <1>4, <1>5, <1>11, SourcesDiffer
  <2>3. \A j \in 1 .. n : SentTo(l[1], source, c[j])' = IF j <= robin'[l] % n THEN q + 1 ELSE q
    BY <1>9, <1>10, <2>1, <2>2
  <2> QED
    BY <1>5, <1>7, <2>3 DEF Shared
<1>12. CASE l = k
  <2>1. PICK r : r = robin[l] % n
    OBVIOUS
  <2>2. r \in 0 .. n - 1 /\ r + 1 \in 1 .. n
    BY <1>6, <1>8, <2>1
  <2>3. robin'[l] = robin[l] + 1
    BY <1>1, <1>2, <1>12
  <2>4. robin'[l] % n = IF r + 1 = n THEN 0 ELSE r + 1
    <3>1. (robin[l] + 1) % n = IF (robin[l] % n) + 1 = n THEN 0 ELSE (robin[l] % n) + 1
      BY <1>6, <1>8, ModSuccessor
    <3> QED
      BY <2>1, <2>3, <3>1, Zenon
  <2>5. m.to = c[r + 1]
    BY <1>4, <1>5, <1>6, <1>12, <2>1 DEF Destination, Others
  <2>6. ASSUME NEW j \in 1 .. n
        PROVE  SentTo(l[1], source, c[j])' = IF j <= r + 1 THEN q + 1 ELSE q
    <3>1. m.to = c[j] <=> j = r + 1
      BY <1>6, <2>2, <2>5
    <3>2. SentTo(l[1], source, c[j]) = IF j <= r THEN q + 1 ELSE q
      BY <1>9, <2>1
    <3>3. SentTo(l[1], source, c[j])' = IF j = r + 1 THEN SentTo(l[1], source, c[j]) + 1
                                        ELSE SentTo(l[1], source, c[j])
      BY <1>4, <1>5, <1>10, <1>12, <3>1
    <3> QED
      BY <2>2, <3>2, <3>3
  <2>7. CASE r + 1 = n
    <3>1. \A j \in 1 .. n : SentTo(l[1], source, c[j])' =
                              IF j <= robin'[l] % n THEN (q + 1) + 1 ELSE q + 1
      <4>1. ASSUME NEW j \in 1 .. n
            PROVE  j <= r + 1 /\ ~(j <= robin'[l] % n)
        BY <2>4, <2>7
      <4> QED
        BY <2>6, <4>1
    <3>2. q + 1 \in Nat
      OBVIOUS
    <3> QED
      BY <1>5, <1>7, <3>1, <3>2 DEF Shared
  <2>8. CASE r + 1 # n
    <3>1. \A j \in 1 .. n : SentTo(l[1], source, c[j])' =
                              IF j <= robin'[l] % n THEN q + 1 ELSE q
      BY <2>4, <2>6, <2>8
    <3> QED
      BY <1>5, <1>7, <3>1 DEF Shared
  <2> QED
    BY <2>7, <2>8
<1> QED
  BY <1>11, <1>12

\* Every node but the source is one of those it takes turns with.
LEMMA EveryOther ==
    ASSUME flows \in Seq(Flows), NEW k \in AllSources(flows)
    PROVE  \A z \in Range(RunNodes) \ {SourceOf(k)} :
              \E j \in 1 .. Len(RunNodes) - 1 : Others(k)[j] = z
<1>1. PICK c, source : source = SourceOf(k) /\ c = Others(k)
  OBVIOUS
<1>2. source \in Range(RunNodes)
  BY <1>1, SourceIsNode
<1>3. c = RemoveAt(RunNodes, CHOOSE i \in DOMAIN RunNodes : RunNodes[i] = source)
  BY <1>1 DEF Others
<1>4. \A z \in Range(RunNodes) \ {source} : \E j \in 1 .. Len(RunNodes) - 1 : c[j] = z
  BY <1>2, <1>3, OthersAre
<1> QED
  BY <1>1, <1>4, Zenon

\* What the invariant says of the sums and the shares.
LEMMA RunIsExact == RunInv => ScheduleIsExact
<1> SUFFICES ASSUME RunInv
             PROVE  ScheduleIsExact
  OBVIOUS
<1>1. ScheduleTypes /\ flows \in Seq(Flows) /\ TicksFit
  BY DEF RunInv, ScheduleTypes
<1>2. PICK F, g, h : /\ F = DOMAIN flows /\ g = [f \in F |-> FlowDone(f)]
                     /\ h = [f \in F |-> Len(flows[f].sources) * MessagesPerFlow(flows[f])]
  OBVIOUS
<1>3. IsFiniteSet(F)
  BY <1>1, <1>2, FS_Interval, LenProperties
<1>4. ASSUME NEW f \in F
      PROVE  /\ g[f] \in Int /\ h[f] \in Int /\ g[f] <= h[f]
             /\ DOMAIN ticks = {} => g[f] = h[f]
  <2>1. PICK c, n : n = Len(flows[f].sources) /\ c = MessagesPerFlow(flows[f])
    OBVIOUS
  <2>2. PICK S, a, b : S = 1 .. n /\ a = [s \in S |-> Done(<<f, s>>)] /\ b = [s \in S |-> c]
    OBVIOUS
  <2>3. /\ n \in Nat /\ S = DOMAIN flows[f].sources /\ IsFiniteSet(S) /\ flows[f] \in Flows
    <3>1. n \in Nat /\ DOMAIN flows[f].sources = 1 .. n /\ flows[f] \in Flows
      BY <1>1, <1>2, <2>1, FlowFacts
    <3> QED
      BY <2>2, <3>1, FS_Interval
  <2>4. c \in Nat
    BY <1>1, <2>1, <2>3, PlannedIsPositive DEF MessagesPerFlow, ScheduleTypes
  <2>5. ASSUME NEW s \in S
        PROVE  a[s] \in Nat /\ a[s] <= c /\ b[s] = c /\ (DOMAIN ticks = {} => a[s] = c)
    <3>1. Planned(<<f, s>>) = c
      BY <2>1 DEF Planned
    <3>2. a[s] = Done(<<f, s>>) /\ b[s] = c
      BY <2>2
    <3>3. CASE <<f, s>> \in DOMAIN ticks
      <4>1. ticks[<<f, s>>] \in Nat /\ ticks[<<f, s>>] < c
        BY <1>1, <3>1, <3>3 DEF ScheduleTypes, TicksFit
      <4> QED
        BY <2>4, <3>2, <3>3, <4>1 DEF Done
    <3>4. CASE <<f, s>> \notin DOMAIN ticks
      BY <2>4, <3>1, <3>2, <3>4 DEF Done
    <3> QED
      BY <3>3, <3>4
  <2>6. SumFunctionOnSet(a, S) \in Int /\ SumFunctionOnSet(a, S) <= SumFunctionOnSet(b, S)
    <3>1. \A s \in S : a[s] \in Int /\ b[s] \in Int /\ a[s] <= b[s]
      BY <2>4, <2>5
    <3> QED
      BY <2>3, <3>1, SumTypeAndRemove, SumRelated
  <2>7. SumFunctionOnSet(b, S) = n * c
    <3>1. c \in Int /\ \A i \in 1 .. n : b[i] = c
      BY <2>2, <2>4, <2>5
    <3>2. SumFunctionOnSet(b, 1 .. n) = n * c
      BY <2>3, <3>1, Multiples
    <3> QED
      BY <2>2, <3>2, Zenon
  <2>8. ASSUME DOMAIN ticks = {}
        PROVE  SumFunctionOnSet(a, S) = n * c
    <3>1. c \in Int /\ \A i \in 1 .. n : a[i] = c
      BY <2>2, <2>4, <2>5, <2>8
    <3>2. SumFunctionOnSet(a, 1 .. n) = n * c
      BY <2>3, <3>1, Multiples
    <3> QED
      BY <2>2, <3>2, Zenon
  <2>9. g[f] = SumFunctionOnSet(a, S) /\ h[f] = n * c
    BY <1>2, <2>1, <2>2 DEF FlowDone
  <2>10. n * c \in Int
    BY <2>3, <2>4
  <2> QED
    BY <2>6, <2>7, <2>8, <2>9, <2>10
<1>5. SumFunctionOnSet(g, F) <= SumFunctionOnSet(h, F)
  BY <1>3, <1>4, SumRelated
<1>6. DOMAIN ticks = {} => SumFunctionOnSet(g, F) = SumFunctionOnSet(h, F)
  BY <1>3, <1>4, SumUpdate
<1>7. MaximumSequence = SumFunctionOnSet(h, F) /\ Len(sent) = SumFunctionOnSet(g, F)
  BY <1>2 DEF MaximumSequence, SumFunction, RunInv, SentIsCounted
<1>8. ASSUME NEW k \in AllSources(flows), flows[k[1]].fixed = "round-robin",
             NEW x \in Range(RunNodes) \ {SourceOf(k)}, NEW y \in Range(RunNodes) \ {SourceOf(k)}
      PROVE  SentTo(k[1], SourceOf(k), x) <= SentTo(k[1], SourceOf(k), y) + 1
  <2>1. \A z \in Range(RunNodes) \ {SourceOf(k)} :
           \E j \in 1 .. Len(RunNodes) - 1 : Others(k)[j] = z
    BY <1>1, EveryOther
  <2>2. PICK i \in 1 .. Len(RunNodes) - 1 : Others(k)[i] = x
    BY <2>1
  <2>3. PICK j \in 1 .. Len(RunNodes) - 1 : Others(k)[j] = y
    BY <2>1
  <2>4. PICK q \in Nat :
           /\ SentTo(k[1], SourceOf(k), x) \in {q, q + 1}
           /\ SentTo(k[1], SourceOf(k), y) \in {q, q + 1}
    BY <1>8, <2>2, <2>3 DEF RunInv, RobinShares, Shared
  <2> QED
    BY <2>4
<1> QED
  BY <1>5, <1>6, <1>7, <1>8 DEF ScheduleIsExact, RunInv, SentInOrder

\* Messages leave in the order they are due, a finished run has sent exactly the
\* messages its flows planned, and a round-robin source has sent every other node
\* the same number but for one: for any flows, any nodes and any duration of
\* _schedule_flows.
THEOREM MessagesLeaveOnSchedule == ScheduleSpec => []ScheduleIsExact
<1>1. ScheduleInit => ScheduleInv
  BY DEF ScheduleInv
<1>2. ScheduleInv /\ [ScheduleNext]_schedule => ScheduleInv'
  <2>1. CASE ScheduleInit /\ BeginRun
    BY <2>1, BeginRunInv DEF ScheduleInv
  <2>2. ASSUME ScheduleInit
        PROVE  ~Submit
    BY <2>2 DEF ScheduleInit, Submit
  <2>3. ASSUME RunInv, BeginRun
        PROVE  RunInv'
    BY <2>3 DEF RunInv, BeginRun
  <2>4. ASSUME RunInv, Submit
        PROVE  RunInv'
    <3>1. flows' # <<>>
      BY <2>4 DEF RunInv, Submit
    <3> QED
      BY <2>4, <3>1, SubmitOrder, SubmitCount, SubmitShares DEF RunInv
  <2>5. ASSUME ScheduleInv, UNCHANGED schedule
        PROVE  ScheduleInv'
    <3>1. ScheduleInit => ScheduleInit'
      BY <2>5 DEF ScheduleInit, schedule
    <3>2. ScheduleTypes => ScheduleTypes'
      BY <2>5 DEF ScheduleTypes, schedule
    <3>3. TicksFit => TicksFit'
      BY <2>5 DEF TicksFit, Planned, MessagesPerFlow, schedule
    <3>4. SentInOrder => SentInOrder'
      BY <2>5 DEF SentInOrder, DueAt, schedule
    <3>5. SentIsCounted => SentIsCounted'
      BY <2>5 DEF SentIsCounted, FlowDone, Done, Planned, MessagesPerFlow, schedule
    <3>6. RobinShares => RobinShares'
      <4>1. UNCHANGED <<flows, robin, sent>>
        BY <2>5 DEF schedule
      <4>2. ASSUME NEW k, Shared(k)
            PROVE  Shared(k)'
        <5>1. PICK n, source, c : n = Len(RunNodes) - 1 /\ source = SourceOf(k) /\ c = Others(k)
          OBVIOUS
        <5>2. SourceOf(k)' = source /\ Others(k)' = c /\ robin'[k] = robin[k]
          BY <4>1, <5>1 DEF SourceOf, Others
        <5>3. \A j \in 1 .. n : SentTo(k[1], source, c[j])' = SentTo(k[1], source, c[j])
          BY <4>1 DEF SentTo
        <5>4. PICK q \in Nat : \A j \in 1 .. n :
                 SentTo(k[1], source, c[j]) = IF j <= robin[k] % n THEN q + 1 ELSE q
          BY <4>2, <5>1 DEF Shared
        <5>5. \A j \in 1 .. n :
                 SentTo(k[1], source, c[j])' = IF j <= robin'[k] % n THEN q + 1 ELSE q
          BY <5>2, <5>3, <5>4
        <5> QED
          BY <5>1, <5>2, <5>5 DEF Shared
      <4> QED
        BY <4>1, <4>2 DEF RobinShares
    <3>7. flows' = flows
      BY <2>5 DEF schedule
    <3> QED
      BY <2>5, <3>1, <3>2, <3>3, <3>4, <3>5, <3>6, <3>7 DEF ScheduleInv, RunInv
  <2> QED
    BY <2>1, <2>2, <2>3, <2>4, <2>5 DEF ScheduleInv, ScheduleNext
<1>3. ScheduleInv => ScheduleIsExact
  <2>1. ScheduleInit => ScheduleIsExact
    BY DEF ScheduleInit, ScheduleIsExact, AllSources
  <2> QED
    BY <2>1, RunIsExact DEF ScheduleInv
<1> QED
  BY <1>1, <1>2, <1>3, PTL DEF ScheduleSpec

-----------------------------------------------------------------------------
(* The sampling of local statistics.                                         *)

\* A report of a node's local statistics.
Report == [id : Nat, total : Nat]

\* The types of the sampling's state.
SampleTypes ==
    /\ bad \in [Counted -> Nat] /\ metrics \in [Counted -> Nat]
    /\ packetId \in [Counted -> Nat] /\ response \in [Counted -> Nat]
    /\ asked \in [Counted -> SUBSET Nat] /\ expected \in [Counted -> SUBSET Nat]
    /\ wire \in [Counted -> Seq(Report)]
    /\ sample \in [Counted -> Int] /\ floor \in [Counted -> Int]
    /\ pc \in [Counted -> {"idle", "send", "wait", "done"}]

\* Every id in circulation was given out, and 0 is never waited for.
IdsGiven(n) ==
    /\ \A id \in asked[n] \cup expected[n] : id <= packetId[n]
    /\ 0 \notin expected[n]
    /\ response[n] <= packetId[n]
    /\ \A i \in DOMAIN wire[n] : wire[n][i].id <= packetId[n]

\* An answer to a request of this sampling, on the way or taken, was counted
\* after the sampling began.
AnswersFresh(n) ==
    /\ floor[n] <= bad[n]
    /\ \A i \in DOMAIN wire[n] :
         wire[n][i].id \in expected[n] => wire[n][i].total >= floor[n]
    /\ response[n] \in expected[n] => metrics[n] >= floor[n]

\* The inductive invariant of the sampling.
SampleInv ==
    /\ SampleTypes
    /\ \A n \in Counted : IdsGiven(n) /\ AnswersFresh(n)
    /\ SampleIsFresh

\* What the invariant depends on: a step that leaves it alone preserves it.
SampleState == <<bad, asked, wire, metrics, response, pc, expected, sample, packetId, floor>>

\* Steps that leave the sampling alone.
LEMMA SampleUntouched == SampleInv /\ UNCHANGED SampleState => SampleInv'
BY DEF SampleInv, SampleState, SampleTypes, IdsGiven, AnswersFresh, SampleIsFresh,
   Unknown

\* What is on the way from a node.
LEMMA ReportTypes ==
    ASSUME SampleTypes, NEW n \in Counted, NEW i \in DOMAIN wire[n]
    PROVE  wire[n][i].id \in Nat /\ wire[n][i].total \in Nat
<1>1. wire[n] \in Seq(Report)
  BY DEF SampleTypes
<1>2. wire[n][i] \in Report
  BY <1>1
<1> QED
  BY <1>2 DEF Report

\* A new sampling starts from the counters of this moment and waits for nothing yet.
LEMMA NewSampling ==
    ASSUME SampleInv, NEW who, BeginSampling(who),
           UNCHANGED <<bad, asked, wire, metrics, response, packetId>>
    PROVE  SampleInv'
<1>1. /\ floor' = bad /\ sample' = [n \in Counted |-> -1]
      /\ expected' = [n \in Counted |-> {}] /\ pc' = [n \in Counted |-> "send"]
  BY DEF BeginSampling, NoValue, Unknown
<1>2. SampleTypes'
  BY <1>1 DEF SampleInv, SampleTypes
<1>3. ASSUME NEW n \in Counted
      PROVE  IdsGiven(n)' /\ AnswersFresh(n)'
  <2>1. floor'[n] = bad[n] /\ bad[n] \in Nat /\ expected'[n] = {}
    BY <1>1 DEF SampleInv, SampleTypes
  <2> QED
    BY <2>1 DEF SampleInv, IdsGiven, AnswersFresh
<1>4. SampleIsFresh'
  BY <1>1 DEF SampleIsFresh, Unknown
<1> QED
  BY <1>2, <1>3, <1>4 DEF SampleInv

\* The end of a sampling keeps the samples and waits for nothing more.
LEMMA SamplingOver ==
    ASSUME SampleInv, EndSampling, UNCHANGED <<bad, asked, wire, metrics, response>>
    PROVE  SampleInv'
<1>1. /\ expected' = [n \in Counted |-> {}] /\ pc' = [n \in Counted |-> "idle"]
      /\ sample' = sample /\ packetId' = packetId /\ floor' = floor
  BY DEF EndSampling
<1>2. SampleTypes'
  BY <1>1 DEF SampleInv, SampleTypes
<1>3. ASSUME NEW n \in Counted
      PROVE  IdsGiven(n)' /\ AnswersFresh(n)'
  BY <1>1 DEF SampleInv, IdsGiven, AnswersFresh
<1>4. SampleIsFresh'
  BY <1>1 DEF SampleInv, SampleIsFresh, Unknown
<1> QED
  BY <1>2, <1>3, <1>4 DEF SampleInv

\* A counter only grows.
LEMMA CollideSample ==
    ASSUME SampleInv, NEW n \in Counted, Collide(n)
    PROVE  SampleInv'
<1>1. /\ bad' = [bad EXCEPT ![n] = @ + 1]
      /\ UNCHANGED <<asked, wire, metrics, response, pc, expected, sample, packetId, floor>>
  BY DEF Collide, view, sampling
<1>2. SampleTypes'
  BY <1>1 DEF SampleInv, SampleTypes
<1>3. ASSUME NEW k \in Counted
      PROVE  IdsGiven(k)' /\ AnswersFresh(k)'
  <2>1. bad'[k] >= bad[k] /\ bad[k] \in Nat /\ bad'[k] \in Nat /\ floor[k] \in Int
    BY <1>1 DEF SampleInv, SampleTypes
  <2>2. floor'[k] <= bad'[k]
    BY <1>1, <2>1 DEF SampleInv, AnswersFresh
  <2> QED
    BY <1>1, <2>2 DEF SampleInv, IdsGiven, AnswersFresh
<1>4. SampleIsFresh'
  BY <1>1 DEF SampleInv, SampleIsFresh, Unknown
<1> QED
  BY <1>2, <1>3, <1>4 DEF SampleInv

\* A report carries the counter of this moment, which is not below the floor.
LEMMA TelemetrySample ==
    ASSUME SampleInv, NEW n \in Counted, NEW id \in asked[n] \cup {0},
           Telemetry(n, id)
    PROVE  SampleInv'
<1> DEFINE r == [id |-> id, total |-> bad[n]]
<1>1. /\ wire' = [wire EXCEPT ![n] = Append(wire[n], r)]
      /\ asked' = [asked EXCEPT ![n] = asked[n] \ {id}]
      /\ UNCHANGED <<bad, metrics, response, pc, expected, sample, packetId, floor>>
  BY DEF Telemetry, view, sampling
<1>2. /\ SampleTypes /\ id \in Nat /\ r \in Report /\ wire[n] \in Seq(Report)
      /\ r.id = id /\ r.total = bad[n] /\ bad[n] \in Nat /\ packetId[n] \in Nat
  BY DEF SampleInv, SampleTypes, Report
<1> HIDE DEF r
<1>3. SampleTypes'
  BY <1>1, <1>2 DEF SampleTypes
<1>4. /\ DOMAIN wire'[n] = 1 .. Len(wire[n]) + 1 /\ DOMAIN wire[n] = 1 .. Len(wire[n])
      /\ Len(wire[n]) \in Nat
      /\ \A i \in 1 .. Len(wire[n]) : wire'[n][i] = wire[n][i]
      /\ wire'[n][Len(wire[n]) + 1] = r
  BY <1>1, <1>2 DEF SampleTypes
<1>5. IdsGiven(n) /\ AnswersFresh(n)
  BY DEF SampleInv
<1>6. id <= packetId[n]
  BY <1>2, <1>5 DEF IdsGiven
<1>7. IdsGiven(n)'
  <2>1. \A k \in asked'[n] \cup expected'[n] : k <= packetId'[n]
    BY <1>1, <1>2, <1>5 DEF IdsGiven, SampleTypes
  <2>2. \A i \in DOMAIN wire'[n] : wire'[n][i].id <= packetId'[n]
    BY <1>1, <1>2, <1>4, <1>5, <1>6 DEF IdsGiven
  <2> QED
    BY <1>1, <1>5, <2>1, <2>2 DEF IdsGiven
<1>8. AnswersFresh(n)'
  <2>1. \A i \in DOMAIN wire'[n] :
          wire'[n][i].id \in expected'[n] => wire'[n][i].total >= floor'[n]
    <3>1. r.total >= floor[n]
      BY <1>2, <1>5 DEF AnswersFresh, SampleTypes
    <3> QED
      BY <1>1, <1>4, <1>5, <3>1 DEF AnswersFresh
  <2> QED
    BY <1>1, <1>5, <2>1 DEF AnswersFresh
<1>9. ASSUME NEW k \in Counted, k # n
      PROVE  IdsGiven(k)' /\ AnswersFresh(k)'
  <2>1. wire'[k] = wire[k] /\ asked'[k] = asked[k]
    BY <1>1, <1>2, <1>9 DEF SampleTypes
  <2> QED
    BY <1>1, <2>1 DEF SampleInv, IdsGiven, AnswersFresh
<1>10. SampleIsFresh'
  BY <1>1 DEF SampleInv, SampleIsFresh, Unknown
<1> QED
  BY <1>3, <1>7, <1>8, <1>9, <1>10 DEF SampleInv

\* What is taken from the wire is as fresh as it was there.
LEMMA ReceiveSample ==
    ASSUME SampleInv, NEW n \in Counted, Receive(n)
    PROVE  SampleInv'
<1> DEFINE m == Head(wire[n])
<1>1. /\ wire[n] # <<>>
      /\ metrics' = [metrics EXCEPT ![n] = m.total]
      /\ response' = [response EXCEPT ![n] = m.id]
      /\ wire' = [wire EXCEPT ![n] = Tail(wire[n])]
      /\ UNCHANGED <<bad, asked, pc, expected, sample, packetId, floor>>
  BY DEF Receive
<1>2. SampleTypes /\ wire[n] \in Seq(Report)
  BY DEF SampleInv, SampleTypes
<1>3. /\ m = wire[n][1] /\ 1 \in DOMAIN wire[n] /\ m \in Report
      /\ Tail(wire[n]) \in Seq(Report)
      /\ \A i \in DOMAIN Tail(wire[n]) :
           i + 1 \in DOMAIN wire[n] /\ Tail(wire[n])[i] = wire[n][i + 1]
  BY <1>1, <1>2
<1> HIDE DEF m
<1>4. m.id \in Nat /\ m.total \in Nat
  BY <1>3 DEF Report
<1>5. SampleTypes'
  BY <1>1, <1>2, <1>3, <1>4 DEF SampleTypes
<1>6. IdsGiven(n) /\ AnswersFresh(n)
  BY DEF SampleInv
<1>7. wire'[n] = Tail(wire[n]) /\ response'[n] = m.id /\ metrics'[n] = m.total
  BY <1>1, <1>2 DEF SampleTypes
<1>8. IdsGiven(n)'
  BY <1>1, <1>3, <1>6, <1>7 DEF IdsGiven
<1>9. AnswersFresh(n)'
  BY <1>1, <1>3, <1>6, <1>7 DEF AnswersFresh
<1>10. ASSUME NEW k \in Counted, k # n
       PROVE  IdsGiven(k)' /\ AnswersFresh(k)'
  <2>1. wire'[k] = wire[k] /\ response'[k] = response[k] /\ metrics'[k] = metrics[k]
    BY <1>1, <1>2, <1>10 DEF SampleTypes
  <2> QED
    BY <1>1, <2>1 DEF SampleInv, IdsGiven, AnswersFresh
<1>11. SampleIsFresh'
  BY <1>1 DEF SampleInv, SampleIsFresh, Unknown
<1> QED
  BY <1>5, <1>8, <1>9, <1>10, <1>11 DEF SampleInv

\* sample_node returns the view, which is fresh if it holds an awaited answer,
\* or None.
LEMMA ReturnedSample ==
    ASSUME SampleInv, NEW n \in Counted, NEW value,
           value = -1 \/ (value = metrics[n] /\ response[n] \in expected[n]),
           Return(n, value),
           UNCHANGED <<bad, metrics, response, wire, floor>>
    PROVE  /\ pc' \in [Counted -> {"idle", "send", "wait", "done"}]
           /\ sample' \in [Counted -> Int]
           /\ SampleIsFresh'
<1>1. /\ sample' = [sample EXCEPT ![n] = value] /\ pc' = [pc EXCEPT ![n] = "done"]
  BY DEF Return
<1>2. SampleTypes /\ AnswersFresh(n) /\ SampleIsFresh
  BY DEF SampleInv
<1>3. value \in Int /\ (value # -1 => value >= floor[n])
  BY <1>2 DEF SampleTypes, AnswersFresh
<1>4. pc' \in [Counted -> {"idle", "send", "wait", "done"}] /\ sample' \in [Counted -> Int]
  BY <1>1, <1>2, <1>3 DEF SampleTypes
<1>5. ASSUME NEW k \in Counted, sample'[k] # -1
      PROVE  sample'[k] >= floor'[k]
  <2>1. sample'[k] = IF k = n THEN value ELSE sample[k]
    BY <1>1, <1>2 DEF SampleTypes
  <2> QED
    BY <1>2, <1>3, <1>5, <2>1 DEF SampleIsFresh, Unknown
<1> QED
  BY <1>4, <1>5 DEF SampleIsFresh, Unknown

\* A request has an id that no answer can have yet.
LEMMA AskSample ==
    ASSUME SampleInv, NEW n \in Counted, Ask(n)
    PROVE  SampleInv'
<1> DEFINE id == packetId[n] + 1
<1>1. /\ packetId' = [packetId EXCEPT ![n] = packetId[n] + 1]
      /\ asked' = [asked EXCEPT ![n] = asked[n] \cup {packetId'[n]}]
      /\ expected' = [expected EXCEPT ![n] = expected[n] \cup {packetId'[n]}]
      /\ UNCHANGED <<bad, wire, metrics, response, floor>>
  BY DEF Ask, view
<1>2. SampleTypes /\ IdsGiven(n) /\ AnswersFresh(n)
  BY DEF SampleInv
<1>3. /\ packetId'[n] = id
      /\ asked'[n] = asked[n] \cup {id} /\ expected'[n] = expected[n] \cup {id}
      /\ packetId[n] \in Nat /\ id \in Nat /\ id > packetId[n] /\ response[n] \in Nat
  BY <1>1, <1>2 DEF SampleTypes
<1> HIDE DEF id
<1>4. response[n] # id /\ \A i \in DOMAIN wire[n] : wire[n][i].id # id
  BY <1>2, <1>3 DEF IdsGiven
<1>5. IdsGiven(n)'
  <2>1. asked[n] \subseteq Nat /\ expected[n] \subseteq Nat
    BY <1>2 DEF SampleTypes
  <2>2. \A i \in DOMAIN wire[n] : wire[n][i].id \in Nat
    BY <1>2, ReportTypes
  <2> QED
    BY <1>1, <1>2, <1>3, <2>1, <2>2 DEF IdsGiven
<1>6. AnswersFresh(n)'
  BY <1>1, <1>2, <1>3, <1>4 DEF AnswersFresh
<1>7. ASSUME NEW k \in Counted, k # n
      PROVE  IdsGiven(k)' /\ AnswersFresh(k)'
  <2>1. packetId'[k] = packetId[k] /\ asked'[k] = asked[k] /\ expected'[k] = expected[k]
    BY <1>1, <1>2, <1>7 DEF SampleTypes
  <2> QED
    BY <1>1, <2>1 DEF SampleInv, IdsGiven, AnswersFresh
<1>8. /\ packetId' \in [Counted -> Nat] /\ asked' \in [Counted -> SUBSET Nat]
      /\ expected' \in [Counted -> SUBSET Nat]
  BY <1>1, <1>2, <1>3 DEF SampleTypes
<1>9. /\ pc' \in [Counted -> {"idle", "send", "wait", "done"}]
      /\ sample' \in [Counted -> Int] /\ SampleIsFresh'
  <2>1. CASE response[n] \in expected'[n]
    <3>1. Return(n, metrics[n])
      BY <2>1 DEF Ask, Arrived
    <3>2. response[n] \in expected[n]
      BY <1>3, <1>4, <2>1
    <3> QED
      BY <1>1, <3>1, <3>2, ReturnedSample
  <2>2. CASE response[n] \notin expected'[n]
    <3>1. pc' = [pc EXCEPT ![n] = "wait"] /\ sample' = sample
      BY <2>2 DEF Ask, Arrived
    <3> QED
      BY <1>1, <1>2, <3>1 DEF SampleInv, SampleTypes, SampleIsFresh, Unknown
  <2> QED
    BY <2>1, <2>2
<1>10. SampleTypes'
  BY <1>1, <1>2, <1>8, <1>9 DEF SampleTypes
<1> QED
  BY <1>5, <1>6, <1>7, <1>9, <1>10 DEF SampleInv

\* The other steps of sample_node change at most where it is and what it returns.
LEMMA WaiterSample ==
    ASSUME SampleInv, NEW n \in Counted,
           WakeUp(n) \/ Retry(n) \/ GiveUp(n)
    PROVE  SampleInv'
<1>1. UNCHANGED <<bad, asked, wire, metrics, response, expected, packetId, floor>>
  BY DEF WakeUp, Retry, GiveUp, firmware, view
<1>2. /\ pc' \in [Counted -> {"idle", "send", "wait", "done"}]
      /\ sample' \in [Counted -> Int] /\ SampleIsFresh'
  <2>1. CASE WakeUp(n) /\ response[n] \in expected[n]
    <3>1. Return(n, metrics[n])
      BY <2>1 DEF WakeUp, Arrived
    <3> QED
      BY <1>1, <2>1, <3>1, ReturnedSample
  <2>2. CASE WakeUp(n) /\ response[n] \notin expected[n]
    <3>1. pc' = pc /\ sample' = sample
      BY <2>2 DEF WakeUp, Arrived
    <3> QED
      BY <1>1, <3>1 DEF SampleInv, SampleTypes, SampleIsFresh, Unknown
  <2>3. CASE Retry(n)
    <3>1. pc' = [pc EXCEPT ![n] = "send"] /\ sample' = sample
      BY <2>3 DEF Retry
    <3> QED
      BY <1>1, <3>1 DEF SampleInv, SampleTypes, SampleIsFresh, Unknown
  <2>4. CASE GiveUp(n)
    <3>1. Return(n, -1)
      BY <2>4 DEF GiveUp, Unknown
    <3> QED
      BY <1>1, <3>1, ReturnedSample
  <2> QED
    BY <2>1, <2>2, <2>3, <2>4
<1>3. SampleTypes'
  BY <1>1, <1>2 DEF SampleInv, SampleTypes
<1>4. ASSUME NEW k \in Counted
      PROVE  IdsGiven(k)' /\ AnswersFresh(k)'
  BY <1>1 DEF SampleInv, IdsGiven, AnswersFresh
<1> QED
  BY <1>2, <1>3, <1>4 DEF SampleInv

\* The result is frozen: floor and samples are forgotten together.
LEMMA FreezeSample == SampleInv /\ Freeze => SampleInv'
<1> SUFFICES ASSUME SampleInv, Freeze
             PROVE  SampleInv'
  OBVIOUS
<1>1. /\ sample' = [n \in Counted |-> -1] /\ floor' = [n \in Counted |-> -1]
      /\ UNCHANGED <<bad, asked, wire, metrics, response, pc, expected, packetId>>
  BY DEF Freeze, NoValue, Unknown, firmware, view
<1>2. SampleTypes /\ SampleTypes'
  BY <1>1 DEF SampleInv, SampleTypes
<1>3. ASSUME NEW n \in Counted
      PROVE  IdsGiven(n)' /\ AnswersFresh(n)'
  <2>1. floor'[n] = -1 /\ bad[n] \in Nat /\ metrics[n] \in Nat
    BY <1>1, <1>2 DEF SampleTypes
  <2>2. \A i \in DOMAIN wire[n] : wire[n][i].total \in Nat
    BY <1>2, ReportTypes
  <2> QED
    BY <1>1, <2>1, <2>2 DEF SampleInv, IdsGiven, AnswersFresh
<1>4. SampleIsFresh'
  BY <1>1 DEF SampleIsFresh, Unknown
<1> QED
  BY <1>2, <1>3, <1>4 DEF SampleInv

\* No step of the run, the firmware or the editor breaks the invariant.
LEMMA SampleStep == SampleInv /\ [EvidenceNext]_evidenceVars => SampleInv'
<1> SUFFICES ASSUME SampleInv, [EvidenceNext]_evidenceVars
             PROVE  SampleInv'
  OBVIOUS
<1>1. ASSUME NEW n \in Counted,
             \/ Collide(n)
             \/ \E id \in asked[n] \cup {0} : Telemetry(n, id)
             \/ Receive(n)
             \/ Ask(n) \/ WakeUp(n)
             \/ Retry(n) \/ GiveUp(n)
      PROVE  SampleInv'
  BY <1>1, CollideSample, TelemetrySample, ReceiveSample, AskSample, WaiterSample
<1>2. CASE \/ Expire \/ RunDrains \/ ApplyEdit
           \/ \E after \in Edits : BeginEdit(after)
  <2>1. UNCHANGED SampleState
    BY <1>2 DEF SampleState, Expire, RunDrains, ApplyEdit,
       BeginEdit, firmware, view, sampling
  <2> QED
    BY <2>1, SampleUntouched
<1>3. CASE StartTraffic \/ RunSettles \/ StopTraffic
  <2>1. \E who : BeginSampling(who)
    BY <1>3 DEF StartTraffic, RunSettles, StopTraffic
  <2>2. UNCHANGED <<bad, asked, wire, metrics, response, packetId>>
    BY <1>3 DEF StartTraffic, RunSettles, StopTraffic,
       firmware, view
  <2> QED
    BY <2>1, <2>2, NewSampling
<1>4. CASE RunStarts \/ SampleFinal
  <2>1. EndSampling /\ UNCHANGED <<bad, asked, wire, metrics, response>>
    BY <1>4 DEF RunStarts, SampleFinal, firmware, view
  <2> QED
    BY <2>1, SamplingOver
<1>5. CASE Freeze
  BY <1>5, FreezeSample
<1>6. CASE UNCHANGED evidenceVars
  <2>1. UNCHANGED SampleState
    BY <1>6 DEF SampleState, evidenceVars, firmware, view, sampling
  <2> QED
    BY <2>1, SampleUntouched
<1> QED
  BY <1>1, <1>2, <1>3, <1>4, <1>5, <1>6 DEF EvidenceNext

\* It holds before anything was sampled.
LEMMA SampleInit == EvidenceInit => SampleInv
<1> SUFFICES ASSUME EvidenceInit
             PROVE  SampleInv
  OBVIOUS
<1>1. /\ bad = [n \in Counted |-> 0] /\ asked = [n \in Counted |-> {}]
      /\ wire = [n \in Counted |-> <<>>] /\ metrics = [n \in Counted |-> 0]
      /\ response = [n \in Counted |-> 0] /\ pc = [n \in Counted |-> "idle"]
      /\ expected = [n \in Counted |-> {}] /\ sample = [n \in Counted |-> -1]
      /\ floor = [n \in Counted |-> -1] /\ packetId = [n \in Counted |-> 0]
  BY DEF EvidenceInit, NoValue, Unknown
<1>2. SampleTypes
  BY <1>1 DEF SampleTypes
<1>3. ASSUME NEW n \in Counted
      PROVE  IdsGiven(n) /\ AnswersFresh(n)
  BY <1>1 DEF IdsGiven, AnswersFresh
<1>4. SampleIsFresh
  BY <1>1 DEF SampleIsFresh, Unknown
<1> QED
  BY <1>2, <1>3, <1>4 DEF SampleInv

\* _sample_local_stats: what sample_node returns was counted after the sampling
\* began, for any number of nodes, requests and reports on the way.
THEOREM SamplesAreFresh == EvidenceSpec => []SampleIsFresh
<1>1. SampleInv => SampleIsFresh
  BY DEF SampleInv
<1> QED
  BY <1>1, SampleInit, SampleStep, PTL DEF EvidenceSpec

-----------------------------------------------------------------------------
(* The history of topology changes.                                          *)

\* The directed links a scenario can have.
Pairs == DirectedPairs(Range(NodeSeq))

\* The entries of the history.
Change == [pair : Pairs, enabled : BOOLEAN]

\* An edit that waits for the medium holds the lock and fits into the history.
EditFits ==
    /\ editing = <<>> \/ \E after \in SUBSET Pairs : editing = <<after>>
    /\ editing # <<>> =>
         /\ locked
         /\ Accepts => Len(changes) + Cardinality(Changed(links, editing[1])) <= MaxChanges
    /\ sampler = "start" => phase = "TERMINAL" /\ locked /\ editing = <<>>

\* The inductive invariant of the history.
HistoryInv ==
    /\ links \in SUBSET Pairs /\ snapshot \in SUBSET Pairs
    /\ changes \in Seq(Change) /\ Len(changes) <= MaxChanges
    /\ EditFits
    /\ HistoryReplays

\* There are finitely many links.
LEMMA PairsFinite == IsFiniteSet(Pairs) /\ \A S \in SUBSET Pairs : IsFiniteSet(S)
<1> DEFINE R == Range(NodeSeq)
<1>1. NodeSeq \in Surjection(1 .. Len(NodeSeq), R) /\ Len(NodeSeq) \in Nat
  BY RunEvidenceAssumption DEF Surjection, Range
<1>2. IsFiniteSet(R)
  BY <1>1, FS_Surjection, FS_Interval
<1>3. IsFiniteSet(R \X R)
  BY <1>2, FS_Product
<1>4. Pairs \subseteq R \X R
  BY DEF Pairs, DirectedPairs
<1>5. IsFiniteSet(Pairs)
  BY <1>3, <1>4, FS_Subset
<1> QED
  BY <1>5, FS_Subset

\* A preset generates links between nodes of the scenario.
LEMMA PresetPairs == \A preset : GenerateLinks(NodeSeq, preset) \in SUBSET Pairs
<1> SUFFICES ASSUME NEW preset, NEW l \in GenerateLinks(NodeSeq, preset)
             PROVE  l \in Pairs
  OBVIOUS
<1>1. PICK p \in DirectedPairs(DOMAIN NodeSeq) : l = <<NodeSeq[p[1]], NodeSeq[p[2]]>>
  BY DEF GenerateLinks
<1>2. p[1] \in DOMAIN NodeSeq /\ p[2] \in DOMAIN NodeSeq /\ p[1] # p[2]
  BY DEF DirectedPairs
<1>3. NodeSeq[p[1]] # NodeSeq[p[2]]
  BY <1>2, RunEvidenceAssumption DEF IsInjective
<1> QED
  BY <1>1, <1>2, <1>3 DEF Pairs, DirectedPairs, Range

\* So does an edit.
LEMMA EditedPairs ==
    ASSUME links \in SUBSET Pairs
    PROVE  \A after \in Edits : after \in SUBSET Pairs
<1>1. \A p \in Pairs : Changed(links, {p}) \in SUBSET Pairs
  BY DEF Changed
<1> QED
  BY <1>1, PresetPairs DEF Edits, Pairs

\* Whether a history ends with p enabled.
EndsEnabled(p, history, before) ==
    LET of == {i \in DOMAIN history : history[i].pair = p}
    IN  IF of = {} THEN p \in before ELSE history[Max(of)].enabled

\* What an edit records: a change of each pair that differs.
EntriesOf(from, to) ==
    LET order == SetToSeq(Changed(from, to))
    IN  [i \in DOMAIN order |-> [pair |-> order[i], enabled |-> order[i] \in to]]

\* A history that is continued by a change of each pair that differs.
LEMMA ContinuedHistory ==
    ASSUME NEW history \in Seq(Change), NEW before, NEW from \in SUBSET Pairs, NEW to \in SUBSET Pairs,
           \A p \in Pairs : EndsEnabled(p, history, before) <=> p \in from
    PROVE  /\ EntriesOf(from, to) \in Seq(Change)
           /\ Len(EntriesOf(from, to)) = Cardinality(Changed(from, to))
           /\ \A p \in Pairs : EndsEnabled(p, history \o EntriesOf(from, to), before) <=> p \in to
<1> DEFINE C == Changed(from, to)
           n == Cardinality(C)
           order == SetToSeq(C)
           entries == EntriesOf(from, to)
           whole == history \o entries
<1>1. C \in SUBSET Pairs
  BY DEF Changed
<1>2. /\ n \in Nat /\ order \in [1 .. n -> C]
      /\ \A i, j \in 1 .. n : order[i] = order[j] => i = j
      /\ \A x \in C : \E i \in 1 .. n : order[i] = x
  <2>1. IsFiniteSet(C)
    BY <1>1, PairsFinite
  <2> QED
    BY <2>1, Listed
<1> HIDE DEF n, order
<1>3. /\ entries \in [1 .. n -> Change]
      /\ \A i \in 1 .. n : entries[i].pair = order[i] /\ entries[i].enabled = (order[i] \in to)
  <2>1. entries = [i \in 1 .. n |-> [pair |-> order[i], enabled |-> order[i] \in to]]
    BY <1>2 DEF EntriesOf, order
  <2> HIDE DEF entries
  <2> QED
    BY <1>1, <1>2, <2>1 DEF Change
<1> HIDE DEF entries
<1>4. entries \in Seq(Change) /\ Len(entries) = n
  BY <1>2, <1>3
<1> DEFINE L == Len(history)
<1>6. L \in Nat /\ DOMAIN history = 1 .. L /\ DOMAIN entries = 1 .. n
  BY <1>4
<1>7. /\ DOMAIN whole = 1 .. L + n
      /\ \A i \in 1 .. L + n : whole[i] = IF i <= L THEN history[i] ELSE entries[i - L]
  <2>1. /\ whole \in Seq(Change) /\ Len(whole) = L + n
        /\ \A i \in 1 .. L + n : whole[i] = IF i <= L THEN history[i] ELSE entries[i - L]
    BY <1>4, ConcatProperties
  <2> HIDE DEF whole
  <2> QED
    BY <2>1
<1> HIDE DEF whole, L
<1>8. \A i \in 1 .. L : i \in DOMAIN whole /\ whole[i] = history[i]
  BY <1>2, <1>6, <1>7
<1>9. \A k \in 1 .. n : L + k \in DOMAIN whole /\ whole[L + k] = entries[k]
  <2> SUFFICES ASSUME NEW k \in 1 .. n
               PROVE  L + k \in DOMAIN whole /\ whole[L + k] = entries[k]
    OBVIOUS
  <2>1. L + k \in 1 .. L + n /\ ~(L + k <= L) /\ (L + k) - L = k
    BY <1>2, <1>6
  <2> QED
    BY <1>7, <2>1
<1>10. \A i \in DOMAIN whole : i \in 1 .. L \/ \E k \in 1 .. n : i = L + k
  <2> SUFFICES ASSUME NEW i \in 1 .. L + n, i \notin 1 .. L
               PROVE  \E k \in 1 .. n : i = L + k
    BY <1>7
  <2>1. i - L \in 1 .. n /\ i = L + (i - L)
    BY <1>2, <1>6
  <2> QED
    BY <2>1
<1>11. ASSUME NEW p \in Pairs
       PROVE  EndsEnabled(p, whole, before) <=> p \in to
  <2> DEFINE old == {i \in DOMAIN history : history[i].pair = p}
             all == {i \in DOMAIN whole : whole[i].pair = p}
  <2>1. /\ EndsEnabled(p, whole, before) = IF all = {} THEN p \in before ELSE whole[Max(all)].enabled
        /\ EndsEnabled(p, history, before) = IF old = {} THEN p \in before ELSE history[Max(old)].enabled
    BY DEF EndsEnabled
  <2>2. CASE p \in C
    <3>1. PICK k \in 1 .. n : order[k] = p /\ \A i \in 1 .. n : order[i] = p => i = k
      BY <1>2, <2>2
    <3>2. L + k \in all /\ whole[L + k] = entries[k]
      BY <1>3, <1>9, <3>1
    <3>3. ASSUME NEW i \in all
          PROVE  i <= L + k
      <4>1. CASE i \in 1 .. L
        BY <1>2, <1>6, <4>1
      <4>2. ASSUME NEW j \in 1 .. n, i = L + j
            PROVE  i <= L + k
        <5>1. entries[j].pair = p
          BY <1>9, <4>2
        <5>2. j = k
          BY <1>3, <3>1, <5>1
        <5> QED
          BY <1>2, <1>6, <4>2, <5>2
      <4> QED
        BY <1>10, <4>1, <4>2
    <3>4. Max(all) = L + k
      <4>1. all \in SUBSET (0 .. L + n) /\ L + n \in Nat
        BY <1>2, <1>6, <1>7
      <4> HIDE DEF all
      <4>2. Max(all) \in all /\ \A i \in all : i <= Max(all)
        BY <3>2, <4>1, MaxOf
      <4>3. Max(all) \in Nat /\ L + k \in Nat
        <5>1. Max(all) \in 0 .. L + n
          BY <4>1, <4>2
        <5> QED
          BY <1>2, <1>6, <5>1
      <4>4. Max(all) <= L + k /\ L + k <= Max(all)
        BY <3>2, <3>3, <4>2
      <4> QED
        BY <4>3, <4>4
    <3> HIDE DEF all, old
    <3>5. whole[Max(all)].enabled = (p \in to)
      BY <1>3, <3>1, <3>2, <3>4
    <3> QED
      BY <2>1, <3>2, <3>5
  <2>3. CASE p \notin C
    <3>1. p \in from <=> p \in to
      BY <2>3 DEF Changed
    <3>2. all = old
      <4>1. ASSUME NEW i \in all
            PROVE  i \in old
        <5>1. CASE i \in 1 .. L
          BY <1>6, <1>8, <5>1
        <5>2. ASSUME NEW j \in 1 .. n, i = L + j
              PROVE  FALSE
          <6>1. entries[j].pair = p
            BY <1>9, <5>2
          <6>2. order[j] \in C
            BY <1>2
          <6> QED
            BY <1>3, <2>3, <6>1, <6>2
        <5> QED
          BY <1>10, <5>1, <5>2
      <4>2. ASSUME NEW i \in old
            PROVE  i \in all
        BY <1>6, <1>8
      <4> QED
        BY <4>1, <4>2
    <3>3. old # {} => whole[Max(old)] = history[Max(old)]
      <4> SUFFICES ASSUME old # {}
                   PROVE  whole[Max(old)] = history[Max(old)]
        OBVIOUS
      <4>1. old \in SUBSET (0 .. L) /\ old \subseteq 1 .. L
        BY <1>6
      <4> HIDE DEF old
      <4>2. Max(old) \in 1 .. L
        BY <1>6, <4>1, MaxOf
      <4> QED
        BY <1>8, <4>2
    <3> HIDE DEF old, all
    <3> QED
      BY <2>1, <3>1, <3>2, <3>3
  <2> QED
    BY <2>2, <2>3
<1> QED
  BY <1>4, <1>11 DEF whole, entries, n

\* Replaying the history enables a link exactly if it ends enabled.
LEMMA ReplayedIs ==
    \A p \in Pairs : p \in Replayed <=> EndsEnabled(p, changes, snapshot)
BY DEF Replayed, EndsEnabled, Pairs

\* An edit that is applied appends what it changes, once per link.
LEMMA ApplyEditHistory == HistoryInv /\ ApplyEdit => HistoryInv'
<1> SUFFICES ASSUME HistoryInv, ApplyEdit
             PROVE  HistoryInv'
  OBVIOUS
<1>1. PICK after \in SUBSET Pairs : editing = <<after>>
  BY DEF HistoryInv, EditFits, ApplyEdit
<1>2. /\ links' = after /\ changes' = Recorded(after) /\ editing' = <<>>
      /\ snapshot' = snapshot /\ phase' = phase /\ sampler' = sampler
  BY <1>1 DEF ApplyEdit, sampling
<1>3. editing # <<>> /\ editing[1] = after
  BY <1>1
<1>4. EditFits'
  BY <1>2, <1>3 DEF HistoryInv, EditFits
<1>5. CASE ~Accepts
  <2>1. changes' = changes /\ ~Accepts'
    BY <1>2, <1>5 DEF Recorded, Accepts
  <2> QED
    BY <1>2, <1>4, <2>1 DEF HistoryInv, HistoryReplays
<1>6. CASE Accepts
  <2> DEFINE entries == EntriesOf(links, after)
  <2>1. \A p \in Pairs : EndsEnabled(p, changes, snapshot) <=> p \in links
    BY <1>6, ReplayedIs DEF HistoryInv, HistoryReplays
  <2>2. /\ entries \in Seq(Change) /\ Len(entries) = Cardinality(Changed(links, after))
        /\ \A p \in Pairs : EndsEnabled(p, changes \o entries, snapshot) <=> p \in after
    <3>1. changes \in Seq(Change) /\ links \in SUBSET Pairs
      BY DEF HistoryInv
    <3> QED
      BY <1>1, <2>1, <3>1, ContinuedHistory
  <2>3. changes' = SubSeq(changes \o entries, 1, Min({MaxChanges, Len(changes) + Len(entries)}))
    BY <1>2, <1>6 DEF Recorded, EntriesOf
  <2> HIDE DEF entries
  <2>4. Len(changes) + Len(entries) <= MaxChanges
    BY <1>3, <1>6, <2>2 DEF HistoryInv, EditFits
  <2>5. Len(changes) \in Nat /\ Len(entries) \in Nat
    BY <2>2 DEF HistoryInv
  <2>6. Min({MaxChanges, Len(changes) + Len(entries)}) = Len(changes) + Len(entries)
    <3>1. MaxChanges \in Int /\ Len(changes) + Len(entries) \in Int
      BY <2>5, RunEvidenceAssumption
    <3> DEFINE a == MaxChanges
               b == Len(changes) + Len(entries)
    <3>2. a \in Int /\ b \in Int /\ b <= a
      BY <2>4, <3>1
    <3> HIDE DEF a, b
    <3>3. Min({a, b}) = IF a <= b THEN a ELSE b
      BY <3>2, OfTwo, Zenon
    <3>4. Min({a, b}) = b
      BY <3>2, <3>3
    <3> QED
      BY <3>4 DEF a, b
  <2>7. /\ changes \o entries \in Seq(Change)
        /\ Len(changes \o entries) = Len(changes) + Len(entries)
    BY <2>2, ConcatProperties DEF HistoryInv
  <2>8. changes' = changes \o entries
    BY <2>3, <2>6, <2>7, SubSeqFull
  <2>9. \A p \in Pairs : p \in Replayed' <=> p \in after
    <3>1. \A p \in Pairs : p \in Replayed' <=> EndsEnabled(p, changes', snapshot')
      BY DEF Replayed, EndsEnabled, Pairs
    <3> QED
      BY <1>2, <2>2, <2>8, <3>1
  <2>10. Replayed' \subseteq Pairs
    BY DEF Replayed, Pairs
  <2>11. Replayed' = links'
    BY <1>2, <2>9, <2>10
  <2> QED
    BY <1>2, <1>4, <2>4, <2>7, <2>8, <2>11 DEF HistoryInv, HistoryReplays
<1> QED
  BY <1>5, <1>6

\* An edit that would pass the limit of the history is refused.
LEMMA BeginEditHistory ==
    ASSUME HistoryInv, NEW after \in Edits, BeginEdit(after)
    PROVE  HistoryInv'
<1>1. after \in SUBSET Pairs
  BY EditedPairs DEF HistoryInv
<1>2. /\ editing' = <<after>> /\ locked' /\ ~locked /\ HasCapacity(Cardinality(Changed(links, after)))
      /\ UNCHANGED <<links, snapshot, changes, phase, sampler>>
  BY DEF BeginEdit, sampling
<1>3. EditFits'
  BY <1>1, <1>2 DEF HistoryInv, EditFits, HasCapacity, Accepts
<1> QED
  BY <1>2, <1>3 DEF HistoryInv, HistoryReplays, Replayed, Accepts

\* The start of a run takes the links of this moment, and no edit is under way.
LEMMA RunStartsHistory == HistoryInv /\ RunStarts => HistoryInv'
<1> SUFFICES ASSUME HistoryInv, RunStarts
             PROVE  HistoryInv'
  OBVIOUS
<1>1. /\ snapshot' = links /\ changes' = <<>> /\ links' = links /\ editing' = editing
      /\ sampler = "start" /\ sampler' = "none"
  BY DEF RunStarts, EndSampling
<1>2. EditFits'
  BY <1>1 DEF HistoryInv, EditFits
<1>3. changes' \in Seq(Change) /\ Len(changes') = 0 /\ \A i : i \notin DOMAIN changes'
  BY <1>1
<1>4. Replayed' = links'
  BY <1>1, <1>3 DEF Replayed, HistoryInv, Pairs
<1> QED
  BY <1>1, <1>2, <1>3, <1>4, RunEvidenceAssumption DEF HistoryInv, HistoryReplays

\* A frozen run keeps its history.
LEMMA FreezeHistory == HistoryInv /\ Freeze => HistoryInv'
<1> SUFFICES ASSUME HistoryInv, Freeze
             PROVE  HistoryInv'
  OBVIOUS
<1>1. /\ snapshot' = {} /\ changes' = <<>> /\ links' = links /\ editing' = editing
      /\ phase = "FINALIZING" /\ phase' = "TERMINAL" /\ sampler' = sampler
      /\ locked' = (locked /\ editing # <<>>)
  BY DEF Freeze
<1>2. EditFits'
  BY <1>1 DEF HistoryInv, EditFits, Accepts
<1>3. changes' \in Seq(Change) /\ Len(changes') = 0 /\ ~Accepts'
  BY <1>1 DEF Accepts
<1> QED
  BY <1>1, <1>2, <1>3, RunEvidenceAssumption DEF HistoryInv, HistoryReplays

\* The other steps leave the links and the history alone.
LEMMA PhaseHistory ==
    ASSUME HistoryInv, UNCHANGED <<links, snapshot, changes, editing>>,
           \/ UNCHANGED <<phase, sampler, locked>>
           \/ StartTraffic \/ RunDrains \/ RunSettles \/ StopTraffic \/ SampleFinal
    PROVE  HistoryInv'
<1>1. Accepts' => Accepts
  BY DEF Accepts, StartTraffic, RunDrains, RunSettles, StopTraffic, SampleFinal
<1>2. EditFits'
  <2>1. CASE UNCHANGED <<phase, sampler, locked>>
    BY <2>1 DEF HistoryInv, EditFits, Accepts
  <2>2. CASE StartTraffic
    BY <2>2 DEF HistoryInv, EditFits, Accepts, StartTraffic, BeginSampling
  <2>3. CASE RunDrains \/ RunSettles \/ StopTraffic \/ SampleFinal
    <3>1. sampler' # "start" /\ (locked => locked')
      BY <2>3 DEF RunDrains, RunSettles, StopTraffic, SampleFinal, BeginSampling, EndSampling, sampling
    <3> QED
      BY <1>1, <3>1 DEF HistoryInv, EditFits
  <2> QED
    BY <2>1, <2>2, <2>3
<1> QED
  BY <1>1, <1>2 DEF HistoryInv, HistoryReplays, Replayed

\* Every step keeps the invariant.
LEMMA HistoryStep == HistoryInv /\ [EvidenceNext]_evidenceVars => HistoryInv'
<1> SUFFICES ASSUME HistoryInv, [EvidenceNext]_evidenceVars
             PROVE  HistoryInv'
  OBVIOUS
<1>1. CASE \/ Expire
           \/ \E n \in Counted : \/ Collide(n)
                                 \/ \E id \in asked[n] \cup {0} : Telemetry(n, id)
                                 \/ Receive(n) \/ Ask(n) \/ WakeUp(n) \/ Retry(n) \/ GiveUp(n)
  <2>1. UNCHANGED <<links, snapshot, changes, editing, phase, sampler, locked>>
    BY <1>1 DEF Expire, Collide, Telemetry, Receive, Ask, WakeUp, Retry, GiveUp, topology, sampling
  <2> QED
    BY <2>1, PhaseHistory
<1>2. CASE StartTraffic \/ RunDrains \/ RunSettles \/ StopTraffic \/ SampleFinal
  <2>1. UNCHANGED <<links, snapshot, changes, editing>>
    BY <1>2 DEF StartTraffic, RunDrains, RunSettles, StopTraffic, SampleFinal, topology
  <2> QED
    BY <1>2, <2>1, PhaseHistory
<1>3. CASE UNCHANGED evidenceVars
  <2>1. UNCHANGED <<links, snapshot, changes, editing, phase, sampler, locked>>
    BY <1>3 DEF evidenceVars, topology, sampling
  <2> QED
    BY <2>1, PhaseHistory
<1> QED
  BY <1>1, <1>2, <1>3, ApplyEditHistory, BeginEditHistory, RunStartsHistory, FreezeHistory
     DEF EvidenceNext

\* The topology changes a run records, replayed on the snapshot it began with,
\* give the links in force, at every moment of a run and for any edits: no edit
\* is applied that the evidence does not show, however it falls between the
\* start, the drain and the end of the run, and none passes the limit on the
\* number of changes.
THEOREM HistoryIsComplete == EvidenceSpec => []HistoryReplays
<1>1. EvidenceInit => HistoryInv
  <2> SUFFICES ASSUME EvidenceInit
               PROVE  HistoryInv
    OBVIOUS
  <2>1. links \in SUBSET Pairs
    <3>1. PICK preset \in {"full-mesh", "line"} : links = GenerateLinks(NodeSeq, preset)
      BY DEF EvidenceInit
    <3> QED
      BY <3>1, PresetPairs
  <2>2. /\ snapshot = {} /\ changes = <<>> /\ editing = <<>> /\ sampler = "none" /\ ~Accepts
    BY DEF EvidenceInit, Accepts
  <2>3. changes \in Seq(Change) /\ Len(changes) = 0
    BY <2>2
  <2> QED
    BY <2>1, <2>2, <2>3, RunEvidenceAssumption DEF HistoryInv, EditFits, HistoryReplays
<1>2. HistoryInv => HistoryReplays
  BY DEF HistoryInv
<1> QED
  BY <1>1, <1>2, HistoryStep, PTL DEF EvidenceSpec

-----------------------------------------------------------------------------
(* The order of the reports, and the failed receptions counted from them.    *)

\* The totals of a node's reports only grow: the view, what is on the way, the counter.
ReportsInOrder(n) ==
    /\ metrics[n] <= bad[n]
    /\ \A i \in DOMAIN wire[n] : metrics[n] <= wire[n][i].total /\ wire[n][i].total <= bad[n]
    /\ \A i, j \in DOMAIN wire[n] : i < j => wire[n][i].total <= wire[n][j].total

\* A sampling belongs to the start of a run or to one that takes events, and without
\* one no sample is taken.
SamplerFits ==
    /\ phase \in {"TERMINAL", "GENERATING", "DRAINING", "FINALIZING"}
    /\ sampler \in {"none", "start", "task", "stop"}
    /\ sampler = "start" => phase = "TERMINAL"
    /\ sampler \in {"task", "stop"} => Accepts
    /\ sampler = "none" => \A n \in Counted : pc[n] = "idle"

\* The inductive invariant of the order in which reports arrive.
OrderInv ==
    /\ \A n \in Counted : ReportsInOrder(n)
    /\ \A n \in Counted : sample[n] # -1 => sample[n] <= metrics[n]
    /\ SamplerFits

\* A node's part of the invariant depends on its own state only.
LEMMA OtherReports ==
    ASSUME NEW n \in Counted, ReportsInOrder(n),
           bad'[n] = bad[n], wire'[n] = wire[n], metrics'[n] = metrics[n]
    PROVE  ReportsInOrder(n)'
BY DEF ReportsInOrder

\* A failed reception raises the node's counter.
LEMMA CollideOrder ==
    ASSUME SampleTypes, OrderInv, NEW n \in Counted, Collide(n)
    PROVE  OrderInv'
<1>1. /\ bad' = [bad EXCEPT ![n] = @ + 1]
      /\ UNCHANGED <<wire, metrics, sample, pc, sampler, phase>>
  BY DEF Collide, view, sampling
<1>2. ASSUME NEW k \in Counted
      PROVE  ReportsInOrder(k)'
  <2>1. bad[k] \in Nat /\ bad'[k] \in Nat /\ bad[k] <= bad'[k] /\ metrics[k] \in Nat
    BY <1>1 DEF SampleTypes
  <2>2. \A i \in DOMAIN wire[k] : wire[k][i].total \in Nat
    BY ReportTypes
  <2> QED
    BY <1>1, <2>1, <2>2 DEF OrderInv, ReportsInOrder
<1> QED
  BY <1>1, <1>2 DEF OrderInv, SamplerFits, Accepts

\* A new report has the counter of its moment.
LEMMA TelemetryOrder ==
    ASSUME SampleTypes, OrderInv, NEW n \in Counted, NEW id \in asked[n] \cup {0}, Telemetry(n, id)
    PROVE  OrderInv'
<1> DEFINE r == [id |-> id, total |-> bad[n]]
<1>1. /\ wire' = [wire EXCEPT ![n] = Append(wire[n], r)]
      /\ UNCHANGED <<bad, metrics, sample, pc, sampler, phase>>
  BY DEF Telemetry, view, sampling
<1>2. r \in Report /\ r.total = bad[n] /\ wire[n] \in Seq(Report) /\ bad[n] \in Nat /\ metrics[n] \in Nat
  BY DEF SampleTypes, Report
<1> HIDE DEF r
<1>3. wire'[n] = Append(wire[n], r)
  BY <1>1 DEF SampleTypes
<1>4. /\ DOMAIN wire'[n] = 1 .. Len(wire[n]) + 1 /\ DOMAIN wire[n] = 1 .. Len(wire[n])
      /\ Len(wire[n]) \in Nat
      /\ \A i \in 1 .. Len(wire[n]) : wire'[n][i] = wire[n][i]
      /\ wire'[n][Len(wire[n]) + 1] = r
  BY <1>2, <1>3
<1>5. ReportsInOrder(n)
  BY DEF OrderInv
<1>6. \A i \in DOMAIN wire'[n] :
          \/ i \in DOMAIN wire[n] /\ wire'[n][i] = wire[n][i]
          \/ i = Len(wire[n]) + 1 /\ wire'[n][i] = r
  BY <1>4
<1>7. \A i \in DOMAIN wire'[n] : metrics[n] <= wire'[n][i].total /\ wire'[n][i].total <= bad[n]
  BY <1>2, <1>5, <1>6 DEF ReportsInOrder
<1>8. ASSUME NEW i \in DOMAIN wire'[n], NEW j \in DOMAIN wire'[n], i < j
      PROVE  wire'[n][i].total <= wire'[n][j].total
  <2>1. i \in DOMAIN wire[n] /\ wire'[n][i] = wire[n][i]
    BY <1>4, <1>8
  <2>2. CASE j \in DOMAIN wire[n] /\ wire'[n][j] = wire[n][j]
    BY <1>5, <1>8, <2>1, <2>2 DEF ReportsInOrder
  <2>3. CASE wire'[n][j] = r
    BY <1>2, <1>7, <2>3
  <2> QED
    BY <1>6, <2>2, <2>3
<1>9. ReportsInOrder(n)'
  BY <1>1, <1>5, <1>7, <1>8 DEF ReportsInOrder
<1>10. ASSUME NEW k \in Counted, k # n
       PROVE  ReportsInOrder(k)'
  <2>1. wire'[k] = wire[k]
    BY <1>1, <1>10 DEF SampleTypes
  <2> QED
    BY <1>1, <2>1, OtherReports DEF OrderInv
<1> QED
  BY <1>1, <1>9, <1>10 DEF OrderInv, SamplerFits, Accepts

\* The view takes the oldest report on the way, which is not below what it has.
LEMMA ReceiveOrder ==
    ASSUME SampleTypes, OrderInv, NEW n \in Counted, Receive(n)
    PROVE  OrderInv'
<1> DEFINE m == Head(wire[n])
<1>1. /\ wire[n] # <<>>
      /\ metrics' = [metrics EXCEPT ![n] = m.total]
      /\ wire' = [wire EXCEPT ![n] = Tail(wire[n])]
      /\ UNCHANGED <<bad, pc, sample, sampler, phase>>
  BY DEF Receive
<1>2. wire[n] \in Seq(Report)
  BY DEF SampleTypes
<1>3. /\ m = wire[n][1] /\ 1 \in DOMAIN wire[n] /\ m \in Report
      /\ DOMAIN Tail(wire[n]) \subseteq Nat
      /\ \A i \in DOMAIN Tail(wire[n]) :
           i + 1 \in DOMAIN wire[n] /\ 1 < i + 1 /\ Tail(wire[n])[i] = wire[n][i + 1]
  BY <1>1, <1>2
<1> HIDE DEF m
<1>4. wire'[n] = Tail(wire[n]) /\ metrics'[n] = m.total
  BY <1>1 DEF SampleTypes
<1>5. ReportsInOrder(n)
  BY DEF OrderInv
<1>6. /\ m.total \in Nat /\ metrics[n] \in Nat
      /\ metrics[n] <= m.total /\ m.total <= bad[n]
      /\ \A i \in DOMAIN wire[n] : 1 < i => m.total <= wire[n][i].total
  BY <1>3, <1>5 DEF ReportsInOrder, Report, SampleTypes
<1>7. ReportsInOrder(n)'
  <2>1. ASSUME NEW i \in DOMAIN wire'[n], NEW j \in DOMAIN wire'[n], i < j
        PROVE  wire'[n][i].total <= wire'[n][j].total
    <3>1. /\ i + 1 \in DOMAIN wire[n] /\ j + 1 \in DOMAIN wire[n] /\ i + 1 < j + 1
          /\ wire'[n][i] = wire[n][i + 1] /\ wire'[n][j] = wire[n][j + 1]
      BY <1>3, <1>4, <2>1
    <3> QED
      BY <1>5, <3>1 DEF ReportsInOrder
  <2>2. ASSUME NEW i \in DOMAIN wire'[n]
        PROVE  metrics'[n] <= wire'[n][i].total /\ wire'[n][i].total <= bad'[n]
    <3>1. i + 1 \in DOMAIN wire[n] /\ 1 < i + 1 /\ wire'[n][i] = wire[n][i + 1]
      BY <1>3, <1>4
    <3> QED
      BY <1>1, <1>4, <1>5, <1>6, <3>1 DEF ReportsInOrder
  <2> QED
    BY <1>1, <1>4, <1>6, <2>1, <2>2 DEF ReportsInOrder
<1>8. ASSUME NEW k \in Counted, k # n
      PROVE  ReportsInOrder(k)' /\ metrics'[k] = metrics[k]
  <2>1. wire'[k] = wire[k] /\ metrics'[k] = metrics[k]
    BY <1>1, <1>8 DEF SampleTypes
  <2> QED
    BY <1>1, <2>1, OtherReports DEF OrderInv
<1>9. ASSUME NEW k \in Counted, sample'[k] # -1
      PROVE  sample'[k] <= metrics'[k]
  <2>1. sample[k] \in Int /\ sample[k] <= metrics[k]
    BY <1>1, <1>9 DEF OrderInv, SampleTypes
  <2> QED
    BY <1>1, <1>4, <1>6, <1>8, <2>1
<1> QED
  BY <1>1, <1>7, <1>8, <1>9 DEF OrderInv, SamplerFits, Accepts

\* sample_node returns the view or nothing, and only while a sampling goes on.
LEMMA WaiterOrder ==
    ASSUME SampleTypes, OrderInv, NEW n \in Counted, Ask(n) \/ WakeUp(n) \/ Retry(n) \/ GiveUp(n)
    PROVE  OrderInv' /\ sampler # "none"
<1>1. UNCHANGED <<bad, wire, metrics, sampler, phase>>
  BY DEF Ask, WakeUp, Retry, GiveUp, firmware, view
<1>2. pc[n] # "idle"
  BY DEF Ask, WakeUp, Retry, GiveUp
<1>3. sampler # "none"
  BY <1>2 DEF OrderInv, SamplerFits
<1>4. sample' = sample \/ \E value \in {metrics[n], -1} : sample' = [sample EXCEPT ![n] = value]
  BY DEF Ask, WakeUp, Retry, GiveUp, Return, Unknown
<1>5. ASSUME NEW k \in Counted, sample'[k] # -1
      PROVE  sample'[k] <= metrics[k]
  <2>1. sample'[k] = sample[k] \/ (k = n /\ sample'[k] \in {metrics[n], -1})
    BY <1>4 DEF SampleTypes
  <2> QED
    BY <1>5, <2>1 DEF OrderInv, SampleTypes
<1>6. ASSUME NEW k \in Counted
      PROVE  ReportsInOrder(k)'
  BY <1>1, OtherReports DEF OrderInv
<1> QED
  BY <1>1, <1>3, <1>5, <1>6 DEF OrderInv, SamplerFits, Accepts

\* The steps of the run change who samples and the phase together.
LEMMA RunOrder ==
    ASSUME SampleTypes, OrderInv,
           \/ StartTraffic \/ RunStarts \/ RunDrains \/ RunSettles \/ StopTraffic \/ SampleFinal \/ Freeze
    PROVE  OrderInv'
<1>1. UNCHANGED <<bad, wire, metrics>>
  BY DEF StartTraffic, RunStarts, RunDrains, RunSettles, StopTraffic, SampleFinal, Freeze, firmware, view
<1>2. ASSUME NEW n \in Counted
      PROVE  ReportsInOrder(n)' /\ (sample'[n] # -1 => sample'[n] <= metrics'[n])
  <2>1. sample' = sample \/ sample'[n] = -1
    BY DEF StartTraffic, RunStarts, RunDrains, RunSettles, StopTraffic, SampleFinal, Freeze,
       BeginSampling, EndSampling, sampling, NoValue, Unknown
  <2> QED
    BY <1>1, <2>1, OtherReports DEF OrderInv
<1>3. SamplerFits'
  <2>1. CASE StartTraffic \/ RunSettles \/ StopTraffic
    BY <2>1 DEF OrderInv, SamplerFits, Accepts, StartTraffic, RunSettles, StopTraffic, BeginSampling
  <2>2. CASE RunStarts \/ SampleFinal
    <3>1. /\ sampler' = "none" /\ \A n \in Counted : pc'[n] = "idle"
          /\ phase' \in {"GENERATING", "FINALIZING"}
      BY <2>2 DEF RunStarts, SampleFinal, EndSampling
    <3> QED
      BY <3>1 DEF SamplerFits
  <2>3. CASE RunDrains \/ Freeze
    BY <2>3 DEF OrderInv, SamplerFits, Accepts, RunDrains, Freeze, sampling
  <2> QED
    BY <2>1, <2>2, <2>3
<1> QED
  BY <1>2, <1>3 DEF OrderInv

\* Every step keeps the order.
LEMMA OrderStep ==
    SampleInv /\ OrderInv /\ [EvidenceNext]_evidenceVars => OrderInv'
<1> SUFFICES ASSUME SampleTypes, OrderInv, [EvidenceNext]_evidenceVars
             PROVE  OrderInv'
  BY DEF SampleInv
<1>1. CASE \E n \in Counted : \/ Collide(n)
                              \/ \E id \in asked[n] \cup {0} : Telemetry(n, id)
                              \/ Receive(n) \/ Ask(n) \/ WakeUp(n) \/ Retry(n) \/ GiveUp(n)
  BY <1>1, CollideOrder, TelemetryOrder, ReceiveOrder, WaiterOrder
<1>2. CASE \/ Expire \/ ApplyEdit \/ UNCHANGED evidenceVars
           \/ \E after \in Edits : BeginEdit(after)
  <2>1. UNCHANGED <<bad, wire, metrics, sample, pc, sampler, phase>>
    BY <1>2 DEF Expire, ApplyEdit, BeginEdit, evidenceVars, firmware, view, sampling
  <2>2. ASSUME NEW n \in Counted
        PROVE  ReportsInOrder(n)'
    BY <2>1, OtherReports DEF OrderInv
  <2> QED
    BY <2>1, <2>2 DEF OrderInv, SamplerFits, Accepts
<1> QED
  BY <1>1, <1>2, RunOrder DEF EvidenceNext

\* The sum over the counted nodes.
Total(f) == SumFunctionOnSet(f, Counted)

\* What each node's counter has grown by, from the totals b to the totals f.
Growths(b, f) == [n \in Counted |-> IF b[n] = -1 THEN 0 ELSE f[n] - b[n]]

\* There are finitely many of them.
LEMMA CountedFinite == IsFiniteSet(Counted)
<1> DEFINE R == Range(NodeSeq)
<1>1. NodeSeq \in Surjection(1 .. Len(NodeSeq), R) /\ Len(NodeSeq) \in Nat
  BY RunEvidenceAssumption DEF Surjection, Range
<1>2. IsFiniteSet(R)
  BY <1>1, FS_Surjection, FS_Interval
<1> QED
  BY <1>2, RunEvidenceAssumption, FS_Subset

\* It is the sum the model uses.
LEMMA TotalIs == \A f : DOMAIN f = Counted => SumFunction(f) = Total(f)
BY DEF SumFunction, Total

\* FailedReceptionsExact in these terms.
Exact ==
    /\ failed <= Total(Growths(base, bad))
    /\ phase = "FINALIZING" /\ missing = {} =>
         /\ \A n \in Counted : base[n] # -1 /\ sample[n] # -1
         /\ failed >= Total(Growths(base, sample))

\* The property, with the model's sums written as totals.
LEMMA PropertyIs == FailedReceptionsExact <=> Exact
<1>1. /\ SumFunction([n \in Counted |-> Growth(n, bad)]) = Total(Growths(base, bad))
      /\ SumFunction([n \in Counted |-> Growth(n, sample)]) = Total(Growths(base, sample))
  <2>1. /\ [n \in Counted |-> Growth(n, bad)] = Growths(base, bad)
        /\ [n \in Counted |-> Growth(n, sample)] = Growths(base, sample)
    BY DEF Growth, Growths, Unknown
  <2>2. DOMAIN Growths(base, bad) = Counted /\ DOMAIN Growths(base, sample) = Counted
    BY DEF Growths
  <2> QED
    BY <2>1, <2>2, TotalIs
<1> QED
  BY <1>1 DEF FailedReceptionsExact, Exact, Unknown

\* The growths are numbers, and so is their total.
LEMMA GrowthsAt ==
    ASSUME NEW b \in [Counted -> Int], NEW f \in [Counted -> Int]
    PROVE  /\ Total(Growths(b, f)) \in Int
           /\ \A n \in Counted : /\ Growths(b, f)[n] \in Int
                                 /\ Growths(b, f)[n] = IF b[n] = -1 THEN 0 ELSE f[n] - b[n]
<1>1. \A n \in Counted : /\ Growths(b, f)[n] \in Int
                         /\ Growths(b, f)[n] = IF b[n] = -1 THEN 0 ELSE f[n] - b[n]
  BY DEF Growths
<1> QED
  BY <1>1, CountedFinite, SumTypeAndRemove DEF Total

\* The total of nothing is 0.
LEMMA ZeroTotal ==
    ASSUME NEW f, \A n \in Counted : f[n] = 0
    PROVE  Total(f) = 0
<1>1. \A n \in Counted : f[n] \in Int /\ f[n] = f[n] + f[n]
  OBVIOUS
<1>2. Total(f) \in Int
  BY <1>1, CountedFinite, SumTypeAndRemove DEF Total
<1>3. Total(f) = Total(f) + Total(f)
  BY <1>1, CountedFinite, SumRelated DEF Total
<1>4. \A t \in Int : t = t + t => t = 0
  OBVIOUS
<1> QED
  BY <1>2, <1>3, <1>4

\* Counters that are not below others have grown by no less.
LEMMA MoreGrowth ==
    ASSUME NEW b \in [Counted -> Int], NEW f \in [Counted -> Int], NEW g \in [Counted -> Int],
           \A n \in Counted : b[n] # -1 => f[n] <= g[n]
    PROVE  Total(Growths(b, f)) <= Total(Growths(b, g))
<1>1. \A n \in Counted : /\ Growths(b, f)[n] \in Int /\ Growths(b, g)[n] \in Int
                         /\ Growths(b, f)[n] <= Growths(b, g)[n]
  BY GrowthsAt
<1> QED
  BY <1>1, CountedFinite, SumRelated DEF Total

\* The run's account: a node has a first and a latest total or neither, and the
\* failed receptions are what lies between them.
AccountOpen ==
    /\ \A n \in Counted : /\ base[n] = -1 <=> latest[n] = -1
                          /\ latest[n] # -1 => base[n] <= latest[n] /\ latest[n] <= metrics[n]
    /\ failed = Total(Growths(base, latest))

\* The inductive invariant of the account.
AccountInv ==
    /\ latest \in [Counted -> Int] /\ base \in [Counted -> Int] /\ failed \in Int
    /\ Accepts => AccountOpen
    /\ phase = "FINALIZING" => FailedReceptionsExact
    /\ phase = "TERMINAL" => base = [n \in Counted |-> -1] /\ failed = 0

\* The invariants imply the property.
LEMMA AccountIsExact ==
    ASSUME SampleTypes, OrderInv, AccountInv
    PROVE  FailedReceptionsExact
<1>1. CASE phase = "FINALIZING"
  BY <1>1 DEF AccountInv
<1>2. CASE phase = "TERMINAL"
  <2>1. Total(Growths(base, bad)) = 0
    <3>1. \A n \in Counted : Growths(base, bad)[n] = 0
      BY <1>2 DEF AccountInv, Growths
    <3> QED
      BY <3>1, ZeroTotal
  <2> QED
    BY <1>2, <2>1, PropertyIs DEF AccountInv, Exact
<1>3. CASE Accepts
  <2>1. /\ base \in [Counted -> Int] /\ latest \in [Counted -> Int] /\ bad \in [Counted -> Int]
    BY DEF AccountInv, SampleTypes
  <2>2. ASSUME NEW n \in Counted, base[n] # -1
        PROVE  latest[n] <= bad[n]
    <3>1. latest[n] <= metrics[n] /\ metrics[n] <= bad[n]
      BY <1>3, <2>2 DEF AccountInv, AccountOpen, OrderInv, ReportsInOrder
    <3> QED
      BY <2>1, <3>1 DEF SampleTypes
  <2>3. Total(Growths(base, latest)) <= Total(Growths(base, bad))
    BY <2>1, <2>2, MoreGrowth
  <2> QED
    BY <1>3, <2>3, PropertyIs DEF AccountInv, AccountOpen, Accepts, Exact
<1> QED
  BY <1>1, <1>2, <1>3 DEF OrderInv, SamplerFits, Accepts

\* A new failure only widens what the account may hold.
LEMMA CollideAccount ==
    ASSUME SampleTypes, SampleTypes', AccountInv, NEW n \in Counted, Collide(n)
    PROVE  AccountInv'
<1>1. /\ bad' = [bad EXCEPT ![n] = @ + 1]
      /\ UNCHANGED <<metrics, sample, phase, latest, base, failed, missing>>
  BY DEF Collide, view, sampling, account
<1>2. bad \in [Counted -> Int] /\ bad' \in [Counted -> Int] /\ \A k \in Counted : bad[k] <= bad'[k]
  <2>1. bad \in [Counted -> Nat] /\ bad' \in [Counted -> Nat]
    BY DEF SampleTypes
  <2>2. \A k \in Counted : bad[k] <= bad'[k]
    BY <1>1, <2>1
  <2> QED
    BY <2>1, <2>2
<1>3. phase = "FINALIZING" => FailedReceptionsExact'
  <2> SUFFICES ASSUME phase = "FINALIZING"
               PROVE  FailedReceptionsExact'
    OBVIOUS
  <2>1. /\ failed <= Total(Growths(base, bad))
        /\ missing = {} => /\ \A k \in Counted : base[k] # -1 /\ sample[k] # -1
                           /\ failed >= Total(Growths(base, sample))
    BY PropertyIs DEF AccountInv, Exact
  <2>2. Total(Growths(base, bad)) <= Total(Growths(base, bad'))
    BY <1>2, MoreGrowth DEF AccountInv
  <2>3. failed <= Total(Growths(base, bad'))
    BY <1>2, <2>1, <2>2, GrowthsAt DEF AccountInv
  <2>4. FailedReceptionsExact' <=> Exact'
    BY PropertyIs, PTL
  <2> QED
    BY <1>1, <2>1, <2>3, <2>4 DEF Exact
<1>4. Accepts' => AccountOpen'
  BY <1>1 DEF AccountInv, AccountOpen, Accepts
<1> QED
  BY <1>1, <1>3, <1>4 DEF AccountInv

\* A report adds to the account what the counter grew since the last one.
LEMMA ReceiveAccount ==
    ASSUME SampleTypes, SampleTypes', OrderInv, AccountInv, NEW n \in Counted, Receive(n)
    PROVE  AccountInv'
<1> DEFINE m == Head(wire[n])
           total == m.total
<1>1. /\ wire[n] # <<>> /\ metrics' = [metrics EXCEPT ![n] = total]
      /\ UNCHANGED <<bad, sample, phase, missing>>
      /\ IF Accepts THEN Record(n, total) ELSE UNCHANGED <<latest, base, failed>>
  BY DEF Receive
<1>2. /\ total \in Nat /\ metrics[n] \in Nat /\ metrics[n] <= total
  <2>1. wire[n] \in Seq(Report) /\ metrics[n] \in Nat
    BY DEF SampleTypes
  <2>2. m = wire[n][1] /\ 1 \in DOMAIN wire[n] /\ m \in Report
    BY <1>1, <2>1
  <2> QED
    BY <2>1, <2>2 DEF Report, OrderInv, ReportsInOrder
<1> HIDE DEF m, total
<1>3. latest \in [Counted -> Int] /\ base \in [Counted -> Int] /\ failed \in Int
  BY DEF AccountInv
<1>4. CASE ~Accepts
  <2>1. UNCHANGED <<latest, base, failed>> /\ ~Accepts'
    BY <1>1, <1>4 DEF Accepts
  <2>2. FailedReceptionsExact => FailedReceptionsExact'
    <3>1. FailedReceptionsExact' <=> Exact'
      BY PropertyIs, PTL
    <3> QED
      BY <1>1, <2>1, <3>1, PropertyIs DEF Exact
  <2> QED
    BY <1>1, <1>3, <2>1, <2>2 DEF AccountInv
<1>5. CASE Accepts
  <2> DEFINE first == latest[n] = -1
             f == Growths(base, latest)
             g == Growths(base', latest')
  <2>1. /\ latest' = [latest EXCEPT ![n] = total]
        /\ base' = [base EXCEPT ![n] = IF first THEN total ELSE @]
        /\ failed' = failed + Added(latest[n], total)
    BY <1>1, <1>5 DEF Record, Unknown
  <2>2. AccountOpen
    BY <1>5 DEF AccountInv
  <2>3. /\ latest' \in [Counted -> Int] /\ base' \in [Counted -> Int]
        /\ latest'[n] = total /\ base'[n] = IF first THEN total ELSE base[n]
        /\ \A k \in Counted : k # n => latest'[k] = latest[k] /\ base'[k] = base[k]
    BY <1>2, <1>3, <2>1
  <2>4. ~first => /\ latest[n] <= total /\ base[n] <= latest[n] /\ base[n] # -1
                  /\ Added(latest[n], total) = total - latest[n]
    <3> SUFFICES ASSUME ~first
                 PROVE  /\ latest[n] <= total /\ base[n] <= latest[n] /\ base[n] # -1
                        /\ Added(latest[n], total) = total - latest[n]
      OBVIOUS
    <3>1. latest[n] \in Int /\ latest[n] <= total /\ base[n] <= latest[n] /\ base[n] # -1
      BY <1>2, <1>3, <2>2 DEF AccountOpen
    <3> DEFINE d == total - latest[n]
    <3>2. d \in Int /\ 0 \in Int /\ d >= 0
      BY <1>2, <3>1
    <3>3. Added(latest[n], total) = Max({0, d})
      BY DEF Added, Unknown
    <3> HIDE DEF d
    <3>4. Max({0, d}) = IF 0 >= d THEN 0 ELSE d
      BY <3>2, OfTwo, Zenon
    <3>5. Max({0, d}) = d
      BY <3>2, <3>4
    <3> QED
      BY <3>1, <3>3, <3>5 DEF d
  <2>5. first => Added(latest[n], total) = 0 /\ base[n] = -1
    BY <2>2 DEF AccountOpen, Added, Unknown
  <2>6. \A k \in Counted : /\ f[k] \in Int /\ f[k] = IF base[k] = -1 THEN 0 ELSE latest[k] - base[k]
                           /\ g[k] \in Int /\ g[k] = IF base'[k] = -1 THEN 0 ELSE latest'[k] - base'[k]
    BY <1>3, <2>3, GrowthsAt
  <2>7. Total(f) \in Int /\ Total(g) \in Int
    BY <1>3, <2>3, GrowthsAt
  <2>8. failed = Total(f)
    BY <2>2 DEF AccountOpen
  <2> HIDE DEF f, g
  <2>9. \A k \in Counted \ {n} : f[k] = g[k]
    BY <2>3, <2>6
  <2>10. Total(g) = Total(f) + (g[n] - f[n])
    BY <2>6, <2>9, CountedFinite, SumUpdate DEF Total
  <2>11. g[n] - f[n] = Added(latest[n], total)
    <3>1. base[n] \in Int /\ latest[n] \in Int
      BY <1>3
    <3> QED
      BY <1>2, <2>3, <2>4, <2>5, <2>6, <3>1
  <2>12. failed' = Total(g)
    BY <2>1, <2>8, <2>10, <2>11
  <2>13. ASSUME NEW k \in Counted
         PROVE  /\ base'[k] = -1 <=> latest'[k] = -1
                /\ latest'[k] # -1 => base'[k] <= latest'[k] /\ latest'[k] <= metrics'[k]
    <3>1. CASE k = n
      <4>1. metrics'[n] = total
        BY <1>1 DEF SampleTypes
      <4>2. base[n] \in Int /\ latest[n] \in Int
        BY <1>3
      <4> QED
        BY <1>2, <2>3, <2>4, <3>1, <4>1, <4>2
    <3>2. CASE k # n
      <4>1. metrics'[k] = metrics[k]
        BY <1>1, <3>2 DEF SampleTypes
      <4> QED
        BY <2>2, <2>3, <3>2, <4>1 DEF AccountOpen
    <3> QED
      BY <3>1, <3>2
  <2>14. AccountOpen'
    BY <2>12, <2>13 DEF AccountOpen, g
  <2>15. phase' = phase /\ phase # "FINALIZING" /\ phase # "TERMINAL" /\ failed' \in Int
    BY <1>1, <1>5, <2>7, <2>12 DEF Accepts
  <2> QED
    BY <2>3, <2>14, <2>15 DEF AccountInv
<1> QED
  BY <1>4, <1>5

\* A run starts from the samples of its beginning.
LEMMA RunStartsAccount ==
    ASSUME SampleTypes, OrderInv, AccountInv, RunStarts
    PROVE  AccountInv'
<1>1. /\ latest' = sample /\ base' = sample /\ failed' = 0 /\ phase' = "GENERATING" /\ metrics' = metrics
  BY DEF RunStarts, view
<1>2. sample \in [Counted -> Int]
  BY DEF SampleTypes
<1>3. Total(Growths(sample, sample)) = 0
  <2>1. \A n \in Counted : Growths(sample, sample)[n] = 0
    BY <1>2, GrowthsAt
  <2> QED
    BY <2>1, ZeroTotal
<1>4. AccountOpen'
  BY <1>1, <1>2, <1>3 DEF AccountOpen, OrderInv
<1> QED
  BY <1>1, <1>2, <1>4 DEF AccountInv

\* The final sample adds to the account what the counters grew to the sample, and
\* nothing where the account is ahead of it.
LEMMA SampleFinalAccount ==
    ASSUME SampleTypes, OrderInv, AccountInv, SampleFinal
    PROVE  AccountInv'
<1> DEFINE known == {n \in Sampled : latest[n] # Unknown}
           more == [n \in Counted |-> IF n \in known THEN Added(latest[n], sample[n]) ELSE 0]
           f == Growths(base, latest)
           g == [n \in Counted |-> f[n] + more[n]]
<1>1. /\ latest' = [n \in Counted |-> IF n \in known THEN sample[n] ELSE latest[n]]
      /\ failed' = failed + SumFunction(more)
      /\ missing' = missing \cup (Counted \ known)
      /\ phase' = "FINALIZING"
      /\ UNCHANGED <<bad, metrics, base, sample>>
  BY DEF SampleFinal, EndSampling, firmware, view
<1>2. AccountOpen /\ Accepts
  BY DEF SampleFinal, OrderInv, SamplerFits, AccountInv
<1>3. /\ latest \in [Counted -> Int] /\ base \in [Counted -> Int] /\ sample \in [Counted -> Int]
      /\ bad \in [Counted -> Int]
  BY DEF AccountInv, SampleTypes
<1>4. known = {n \in Counted : sample[n] # -1 /\ latest[n] # -1}
  BY DEF Sampled, Unknown
<1>5. SumFunction(more) = Total(more)
  BY TotalIs
<1>6. ASSUME NEW n \in Counted
      PROVE  more[n] = IF n \in known /\ sample[n] > latest[n] THEN sample[n] - latest[n] ELSE 0
  <2>1. CASE n \in known
    <3> DEFINE d == sample[n] - latest[n]
    <3>1. d \in Int /\ 0 \in Int /\ sample[n] \in Int /\ latest[n] \in Int
      BY <1>3
    <3>2. more[n] = Max({0, d})
      BY <1>4, <2>1 DEF Added, Unknown
    <3> HIDE DEF d
    <3>3. Max({0, d}) = IF 0 >= d THEN 0 ELSE d
      BY <3>1, OfTwo, Zenon
    <3>4. more[n] = IF 0 >= d THEN 0 ELSE d
      BY <3>2, <3>3
    <3> HIDE DEF more, known
    <3> QED
      BY <2>1, <3>1, <3>4 DEF d
  <2>2. CASE n \notin known
    BY <2>2
  <2> QED
    BY <2>1, <2>2
<1>7. \A n \in Counted : f[n] \in Int /\ f[n] = IF base[n] = -1 THEN 0 ELSE latest[n] - base[n]
  BY <1>3, GrowthsAt
<1> HIDE DEF known, more, f
<1>8. \A n \in Counted : more[n] \in Int /\ g[n] \in Int /\ g[n] = f[n] + more[n]
  BY <1>3, <1>6, <1>7
<1> HIDE DEF g
<1>9. /\ Total(more) \in Int /\ Total(g) \in Int /\ Total(f) \in Int
      /\ Total(g) = Total(f) + Total(more)
  <2>1. Total(more) \in Int /\ Total(g) \in Int /\ Total(f) \in Int
    BY <1>7, <1>8, CountedFinite, SumTypeAndRemove DEF Total
  <2>2. Total(g) = Total(f) + Total(more)
    BY <1>7, <1>8, CountedFinite, SumRelated DEF Total
  <2> QED
    BY <2>1, <2>2
<1>10. failed' = Total(g)
  BY <1>1, <1>2, <1>5, <1>9 DEF AccountOpen, f
<1>11. ASSUME NEW n \in Counted
       PROVE  g[n] <= Growths(base, bad)[n]
  <2>1. Growths(base, bad)[n] = IF base[n] = -1 THEN 0 ELSE bad[n] - base[n]
    BY <1>3, GrowthsAt
  <2>2. /\ base[n] = -1 <=> latest[n] = -1
        /\ latest[n] # -1 => latest[n] <= bad[n]
        /\ sample[n] # -1 => sample[n] <= bad[n]
    <3>1. metrics[n] <= bad[n] /\ metrics[n] \in Int /\ (sample[n] # -1 => sample[n] <= metrics[n])
      BY DEF OrderInv, ReportsInOrder, SampleTypes
    <3> QED
      BY <1>2, <1>3, <3>1 DEF AccountOpen
  <2>3. base[n] \in Int /\ latest[n] \in Int /\ sample[n] \in Int /\ bad[n] \in Int
    BY <1>3
  <2>4. CASE base[n] = -1
    BY <1>4, <1>6, <1>7, <1>8, <2>1, <2>2, <2>4
  <2>5. CASE base[n] # -1
    BY <1>4, <1>6, <1>7, <1>8, <2>1, <2>2, <2>3, <2>5
  <2> QED
    BY <2>4, <2>5
<1>12. Total(g) <= Total(Growths(base, bad))
  BY <1>3, <1>8, <1>11, GrowthsAt, CountedFinite, SumRelated DEF Total
<1>13. ASSUME missing' = {}
       PROVE  /\ \A n \in Counted : base[n] # -1 /\ sample[n] # -1
              /\ Total(g) >= Total(Growths(base, sample))
  <2>1. \A n \in Counted : base[n] # -1 /\ sample[n] # -1 /\ latest[n] # -1 /\ n \in known
    BY <1>1, <1>2, <1>4, <1>13 DEF AccountOpen
  <2>2. ASSUME NEW n \in Counted
        PROVE  Growths(base, sample)[n] <= g[n] /\ Growths(base, sample)[n] \in Int
    <3>1. Growths(base, sample)[n] = sample[n] - base[n]
      BY <1>3, <2>1, GrowthsAt
    <3>2. base[n] \in Int /\ latest[n] \in Int /\ sample[n] \in Int
      BY <1>3
    <3> QED
      BY <1>6, <1>7, <1>8, <2>1, <3>1, <3>2
  <2>3. Total(Growths(base, sample)) <= Total(g)
    BY <1>8, <2>2, CountedFinite, SumRelated DEF Total
  <2>4. Total(Growths(base, sample)) \in Int
    BY <1>3, GrowthsAt
  <2> QED
    BY <1>9, <2>1, <2>3, <2>4
<1>14. FailedReceptionsExact'
  <2>1. FailedReceptionsExact' <=> Exact'
    BY PropertyIs, PTL
  <2> QED
    BY <1>1, <1>10, <1>12, <1>13, <2>1 DEF Exact
<1>15. latest' \in [Counted -> Int]
  BY <1>1, <1>3
<1> QED
  BY <1>1, <1>3, <1>9, <1>10, <1>14, <1>15 DEF AccountInv, Accepts

\* Steps that leave the account alone.
LEMMA AccountUntouched ==
    ASSUME AccountInv, UNCHANGED <<bad, metrics, latest, base, failed, missing>>,
           \/ UNCHANGED <<phase, sample>>
           \/ phase' = phase /\ phase # "FINALIZING"
           \/ Accepts /\ Accepts'
    PROVE  AccountInv'
<1>1. Accepts' => AccountOpen'
  BY DEF AccountInv, AccountOpen, Accepts
<1>2. phase' = "FINALIZING" => FailedReceptionsExact'
  <2>1. FailedReceptionsExact' <=> Exact'
    BY PropertyIs, PTL
  <2> QED
    BY <2>1, PropertyIs DEF AccountInv, Accepts, Exact
<1> QED
  BY <1>1, <1>2 DEF AccountInv, Accepts

\* Every step keeps the account.
LEMMA AccountStep ==
    SampleInv /\ SampleInv' /\ OrderInv /\ AccountInv /\ [EvidenceNext]_evidenceVars => AccountInv'
<1> SUFFICES ASSUME SampleTypes, SampleTypes', OrderInv, AccountInv, [EvidenceNext]_evidenceVars
             PROVE  AccountInv'
  BY DEF SampleInv
<1>1. CASE \E n \in Counted : Collide(n) \/ Receive(n)
  BY <1>1, CollideAccount, ReceiveAccount
<1>2. CASE \/ Expire \/ ApplyEdit \/ UNCHANGED evidenceVars
           \/ \E after \in Edits : BeginEdit(after)
           \/ \E n \in Counted : \E id : Telemetry(n, id)
  <2>1. UNCHANGED <<bad, metrics, latest, base, failed, missing, phase, sample>>
    BY <1>2 DEF Expire, ApplyEdit, BeginEdit, Telemetry, evidenceVars, firmware, view, sampling, account
  <2> QED
    BY <2>1, AccountUntouched
<1>3. CASE \E n \in Counted : Ask(n) \/ WakeUp(n) \/ Retry(n) \/ GiveUp(n)
  <2>1. UNCHANGED <<bad, metrics, latest, base, failed, missing, phase>>
    BY <1>3 DEF Ask, WakeUp, Retry, GiveUp, firmware, view, account
  <2>2. phase # "FINALIZING"
    BY <1>3, WaiterOrder DEF OrderInv, SamplerFits, Accepts
  <2> QED
    BY <2>1, <2>2, AccountUntouched
<1>4. CASE StartTraffic \/ RunDrains \/ RunSettles \/ StopTraffic
  <2>1. UNCHANGED <<bad, metrics, latest, base, failed, missing>>
    BY <1>4 DEF StartTraffic, RunDrains, RunSettles, StopTraffic, firmware, view, account
  <2>2. (phase' = phase /\ phase # "FINALIZING") \/ (Accepts /\ Accepts')
    BY <1>4 DEF StartTraffic, RunDrains, RunSettles, StopTraffic, Accepts
  <2> QED
    BY <2>1, <2>2, AccountUntouched
<1>5. CASE Freeze
  <2>1. /\ latest' = [n \in Counted |-> -1] /\ base' = [n \in Counted |-> -1] /\ failed' = 0
        /\ phase' = "TERMINAL"
    BY <1>5 DEF Freeze, NoValue, Unknown
  <2> QED
    BY <2>1 DEF AccountInv, Accepts
<1> QED
  BY <1>1, <1>2, <1>3, <1>4, <1>5, RunStartsAccount, SampleFinalAccount DEF EvidenceNext

\* The failed receptions a run reports are at most those its nodes met since
\* their base, and, if no sample is missing, at least those up to the final
\* sample: a late or a lost report, or one that answers an earlier request, is
\* never counted twice and never hides one, for any nodes and any number of
\* collisions.
THEOREM FailedReceptionsAreExact == EvidenceSpec => []FailedReceptionsExact
<1>1. EvidenceInit => OrderInv /\ AccountInv
  <2> SUFFICES ASSUME EvidenceInit
               PROVE  OrderInv /\ AccountInv
    OBVIOUS
  <2>1. /\ bad = [n \in Counted |-> 0] /\ wire = [n \in Counted |-> <<>>]
        /\ metrics = [n \in Counted |-> 0] /\ sample = [n \in Counted |-> -1]
        /\ sampler = "none" /\ pc = [n \in Counted |-> "idle"] /\ phase = "TERMINAL"
        /\ latest = [n \in Counted |-> -1] /\ base = [n \in Counted |-> -1] /\ failed = 0
    BY DEF EvidenceInit, NoValue, Unknown
  <2>2. OrderInv
    BY <2>1 DEF OrderInv, ReportsInOrder, SamplerFits
  <2>3. AccountInv
    BY <2>1 DEF AccountInv, Accepts
  <2> QED
    BY <2>2, <2>3
<1>2. SampleInv /\ OrderInv /\ AccountInv => FailedReceptionsExact
  BY AccountIsExact DEF SampleInv
<1> QED
  BY <1>1, <1>2, SampleInit, SampleStep, OrderStep, AccountStep, PTL DEF EvidenceSpec
=============================================================================
