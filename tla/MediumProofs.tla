--------------------------- MODULE MediumProofs ---------------------------
(***************************************************************************)
(* Theorems about Medium, for any nodes, link maps and queue sizes: every   *)
(* frame that is through went to a row of one link map, frames of one       *)
(* transmitter arrive in order, no loss goes unreported, and a stopped      *)
(* medium is quiet.  The inductive invariant follows a frame from the       *)
(* transmitter's queue through the injections of its worker to the queues   *)
(* of the receivers.                                                        *)
(***************************************************************************)
EXTENDS Medium, SequenceTheorems, TLAPS

\* Frames no worker has taken: in the order of their emission, with no outcome.
Queued(n) ==
    /\ \A i \in DOMAIN rf[n] :
         /\ rf[n][i] \in Frames /\ sender[rf[n][i]] = n
         /\ \A r \in Nodes : outcome[rf[n][i]][r] = "none"
    /\ \A i, j \in DOMAIN rf[n] : i < j => rf[n][i] < rf[n][j]

\* Injections that have not run belong to the one frame its worker is sending,
\* and that frame is older than those still queued.
Injecting(t) ==
    /\ outcome[t.frame][t.to] = "pending"
    /\ worker[sender[t.frame]] = "sending"
    /\ \A i \in DOMAIN rf[sender[t.frame]] : t.frame < rf[sender[t.frame]][i]
    /\ \A u \in tasks : sender[u.frame] = sender[t.frame] => u.frame = t.frame

\* Frames a receiver has got: injected there, and no younger than what its
\* transmitter still sends or has queued.
Arrived(r) ==
    \A i \in DOMAIN arrived[r] :
        /\ arrived[r][i] \in Frames /\ outcome[arrived[r][i]][r] = "injected"
        /\ \A t \in tasks : sender[t.frame] = sender[arrived[r][i]] => arrived[r][i] <= t.frame
        /\ \A j \in DOMAIN rf[sender[arrived[r][i]]] :
             arrived[r][i] < rf[sender[arrived[r][i]]][j]

\* A frame has no outcome at all, or one for every receiver from one link map.
OneMap(f) ==
    \/ \A r \in Nodes : outcome[f][r] = "none"
    \/ \E T \in maps : \A r \in Nodes :
         /\ outcome[f][r] = "none" <=> r = sender[f]
         /\ outcome[f][r] = "dropped" <=> r # sender[f] /\ r \notin Row(T, sender[f])

\* What the state of the simulator says of workers and losses.
ByLife ==
    /\ life \in {"STARTING", "STOPPED"} => \A n \in Nodes : worker[n] = "none"
    /\ life = "STARTING" => ~overflow /\ \A f \in Frames, r \in Nodes : outcome[f][r] = "none"
    /\ life = "STOPPED" => tasks = {}

IInv ==
    /\ TypeOK
    /\ \A n \in Nodes : Queued(n)
    /\ \A t \in tasks : Injecting(t)
    /\ \A r \in Nodes : Arrived(r)
    /\ \A f \in Frames : OneMap(f)
    /\ ByLife
    /\ FramesInOrder
    /\ LossIsFailure

-----------------------------------------------------------------------------
(* Proofs.  First the steps that move no frame, then one lemma per action     *)
(* that does.                                                                 *)

USE DEF env

\* Where frames are looked up.
LEMMA Domains ==
    ASSUME IInv
    PROVE  /\ Len(sender) \in Nat /\ Frames = 1 .. Len(sender)
           /\ \A f \in Frames : sender[f] \in Nodes /\ f \in Nat /\ f >= 1
           /\ \A f \in Frames : outcome[f] \in [Nodes -> Outcomes]
           /\ \A n \in Nodes : /\ rf[n] \in Seq(Nat) /\ arrived[n] \in Seq(Nat)
                               /\ Len(rf[n]) \in Nat /\ Len(arrived[n]) \in Nat
                               /\ DOMAIN rf[n] = 1 .. Len(rf[n])
                               /\ DOMAIN arrived[n] = 1 .. Len(arrived[n])
           /\ \A t \in tasks : t.frame \in Frames /\ t.to \in Nodes
<1>1. TypeOK
  BY DEF IInv
<1>2. Len(sender) \in Nat /\ Frames = 1 .. Len(sender)
  BY <1>1 DEF TypeOK, Frames
<1>3. \A f \in Frames : sender[f] \in Nodes /\ f \in Nat /\ f >= 1
  BY <1>1, <1>2 DEF TypeOK
<1>4. \A f \in Frames : outcome[f] \in [Nodes -> Outcomes]
  BY <1>1, <1>2, ElementOfSeq DEF TypeOK
<1>5. \A n \in Nodes : /\ rf[n] \in Seq(Nat) /\ arrived[n] \in Seq(Nat)
                       /\ Len(rf[n]) \in Nat /\ Len(arrived[n]) \in Nat
                       /\ DOMAIN rf[n] = 1 .. Len(rf[n])
                       /\ DOMAIN arrived[n] = 1 .. Len(arrived[n])
  BY <1>1 DEF TypeOK
<1>6. \A t \in tasks : t.frame \in Frames /\ t.to \in Nodes
  BY <1>1 DEF TypeOK
<1> QED BY <1>2, <1>3, <1>4, <1>5, <1>6

\* A step that moves no frame.
LEMMA QuietStep ==
    ASSUME IInv, TypeOK', UNCHANGED <<sender, outcome, rf, arrived, tasks>>, maps \subseteq maps',
           \A t \in tasks : worker'[sender[t.frame]] = "sending",
           ByLife', LossIsFailure'
    PROVE  IInv'
<1>1. Frames' = Frames
  BY DEF Frames
<1>2. \A n \in Nodes : Queued(n)'
  BY DEF IInv, Queued, Frames
<1>3. \A t \in tasks' : Injecting(t)'
  BY DEF IInv, Injecting
<1>4. \A r \in Nodes : Arrived(r)'
  BY DEF IInv, Arrived, Frames
<1>5. \A f \in Frames' : OneMap(f)'
  BY <1>1 DEF IInv, OneMap, Row
<1>6. FramesInOrder'
  BY DEF IInv, FramesInOrder
<1> QED BY <1>2, <1>3, <1>4, <1>5, <1>6 DEF IInv

\* Writing to a gateway moves its mark along what arrived, in order.
LEMMA WriteStep ==
    ASSUME IInv, NEW r \in Nodes, Write(r)
    PROVE  IInv'
<1>1. TypeOK'
  <2>1. /\ written' = [written EXCEPT ![r] = written[r] + 1] /\ written[r] < Len(arrived[r])
        /\ UNCHANGED <<life, links, maps, gateway, rf, worker, tasks, outcome, sender, arrived,
                       overflow, edits>>
    BY DEF Write
  <2>2. TypeOK /\ written \in [Nodes -> Nat]
    BY DEF IInv, TypeOK
  <2>3. written' \in [Nodes -> Nat]
    BY <2>1, <2>2
  <2>4. \A n \in Nodes : Len(arrived'[n]) - written'[n] \in 0 .. WriteSize
    <3>1. \A n \in Nodes : Len(arrived[n]) \in Nat
      BY Domains
    <3>2. WriteSize \in Nat /\ \A n \in Nodes : Len(arrived[n]) - written[n] \in 0 .. WriteSize
      BY <2>2, MediumAssumption DEF TypeOK
    <3>3. /\ written'[r] = written[r] + 1 /\ arrived' = arrived
          /\ \A n \in Nodes : n # r => written'[n] = written[n]
      BY <2>1, <2>2
    <3>4. Len(arrived[r]) - (written[r] + 1) \in 0 .. WriteSize
      BY <2>1, <2>2, <3>1, <3>2
    <3> QED BY <3>2, <3>3, <3>4
  <2> QED BY <2>1, <2>2, <2>3, <2>4 DEF TypeOK, Frames
<1>2. ByLife' /\ LossIsFailure'
  BY DEF Write, IInv, ByLife, LossIsFailure, Failed, Frames
<1> QED BY <1>1, <1>2, QuietStep DEF Write, IInv, Injecting

\* Steps that only change the life of the simulator, a gateway or the links.
LEMMA LifeStep ==
    ASSUME IInv,
           \/ \E n \in Nodes : GatewayFails(n)
           \/ StartMedium \/ StopRequested \/ ApplyLinks \/ UpdateLink
    PROVE  IInv'
<1>1. /\ UNCHANGED <<sender, outcome, rf, arrived, tasks, written, overflow>>
      /\ maps \subseteq maps'
  BY DEF GatewayFails, StartMedium, StopRequested, ApplyLinks, UpdateLink, Install
<1>2. CASE \E n \in Nodes : GatewayFails(n)
  <2>1. UNCHANGED <<links, maps, worker, edits>> /\ life' = IF life = "UP" THEN "FAILED" ELSE life
    BY <1>2 DEF GatewayFails, Report
  <2>2. gateway' \in [Nodes -> {"RUNNING", "FAILED"}]
    BY <1>2 DEF GatewayFails, IInv, TypeOK
  <2>3. TypeOK'
    BY <1>1, <2>1, <2>2 DEF IInv, TypeOK, Frames
  <2>4. ByLife' /\ LossIsFailure'
    BY <1>1, <2>1 DEF IInv, ByLife, LossIsFailure, Failed, Frames
  <2> QED BY <1>1, <2>1, <2>3, <2>4, QuietStep DEF IInv, Injecting
<1>3. CASE StartMedium
  <2>1. /\ UNCHANGED <<links, maps, gateway, edits>> /\ life = "STARTING" /\ life' = "UP"
        /\ worker' = [n \in Nodes |-> "get"]
    BY <1>3 DEF StartMedium
  <2>2. TypeOK'
    BY <1>1, <2>1 DEF IInv, TypeOK, Frames
  <2>3. tasks = {}
    BY <2>1, Domains DEF IInv, ByLife, Injecting
  <2>4. \A n \in Nodes : Failed(n)' = {}
    BY <1>1, <2>1 DEF IInv, ByLife, Failed, Frames
  <2>5. ByLife' /\ LossIsFailure'
    BY <1>1, <2>1, <2>4 DEF IInv, ByLife, LossIsFailure
  <2> QED BY <1>1, <2>2, <2>3, <2>5, QuietStep
<1>4. CASE StopRequested
  <2>1. UNCHANGED <<links, maps, worker, gateway, edits>> /\ life = "UP" /\ life' = "STOPPING"
    BY <1>4 DEF StopRequested
  <2>2. TypeOK' /\ ByLife' /\ LossIsFailure'
    BY <1>1, <2>1 DEF IInv, TypeOK, Frames, ByLife, LossIsFailure
  <2> QED BY <1>1, <2>1, <2>2, QuietStep DEF IInv, Injecting
<1>5. ASSUME NEW T \in SUBSET Pairs, Install(T)
      PROVE  IInv'
  <2>1. /\ UNCHANGED <<life, worker, gateway>> /\ edits' = edits + 1
        /\ links' = T /\ maps' = maps \cup {T}
    BY <1>5 DEF Install
  <2>2. TypeOK'
    <3>1. edits' \in Nat /\ links' \in maps' /\ maps' \subseteq SUBSET Pairs
      BY <1>5, <2>1 DEF IInv, TypeOK
    <3> QED BY <1>1, <2>1, <3>1 DEF IInv, TypeOK, Frames
  <2>3. ByLife' /\ LossIsFailure'
    BY <1>1, <2>1 DEF IInv, ByLife, LossIsFailure, Failed, Frames
  <2> QED BY <1>1, <2>1, <2>2, <2>3, QuietStep DEF IInv, Injecting
<1>6. CASE ApplyLinks
  BY <1>5, <1>6, MediumAssumption DEF ApplyLinks
<1>7. CASE UpdateLink
  <2>1. \A p \in Pairs : (IF p \in links THEN links \ {p} ELSE links \cup {p}) \in SUBSET Pairs
    BY DEF IInv, TypeOK
  <2> QED BY <1>5, <1>7, <2>1 DEF UpdateLink
<1> QED BY <1>2, <1>3, <1>4, <1>6, <1>7

\* A delivery that is complete ends the turn of its worker, or fails the medium.
LEMMA SentStep ==
    ASSUME IInv, NEW n \in Nodes, Sent(n)
    PROVE  IInv'
<1>1. /\ UNCHANGED <<links, maps, rf, tasks, outcome, sender, arrived, edits, env>>
      /\ worker[n] = "sending" /\ TasksOf(n) = {}
      /\ \/ Failed(n) = {} /\ worker' = [worker EXCEPT ![n] = "get"] /\ life' = life
         \/ /\ worker' = [worker EXCEPT ![n] = "dead"]
            /\ life' = IF life = "UP" THEN "FAILED" ELSE life
  BY DEF Sent, Report
<1>2. worker \in [Nodes -> {"none", "get", "sending", "dead"}]
  BY DEF IInv, TypeOK
<1>3. worker' \in [Nodes -> {"none", "get", "sending", "dead"}]
      /\ \A m \in Nodes : m # n => worker'[m] = worker[m]
  BY <1>1, <1>2
<1>4. TypeOK'
  BY <1>1, <1>3 DEF IInv, TypeOK, Frames
<1>5. \A m \in Nodes : Failed(m)' = Failed(m)
  BY <1>1 DEF Failed
<1>6. life \notin {"STARTING", "STOPPED"}
  BY <1>1 DEF IInv, ByLife
<1>7. ByLife'
  BY <1>1, <1>6 DEF IInv, TypeOK, ByLife
<1>8. LossIsFailure'
  BY <1>1, <1>3, <1>5 DEF IInv, LossIsFailure
<1>9. \A t \in tasks : worker'[sender[t.frame]] = "sending"
  BY <1>1, <1>3, Domains DEF IInv, Injecting, TasksOf
<1> QED BY <1>1, <1>4, <1>7, <1>8, <1>9, QuietStep

\* A new frame: it is younger than every other, and has no outcome.
LEMMA EmitStep ==
    ASSUME IInv, NEW n \in Nodes, Emit(n)
    PROVE  IInv'
<1> USE Domains
<1>1. PICK f \in Nat : f = Len(sender) + 1
  OBVIOUS
<1>2. /\ sender' = Append(sender, n) /\ outcome' = Append(outcome, [r \in Nodes |-> "none"])
      /\ UNCHANGED <<links, maps, gateway, worker, tasks, arrived, written, edits>>
  BY DEF Emit
<1>3. /\ sender' \in Seq(Nodes) /\ Len(sender') = f /\ sender'[f] = n
      /\ \A g \in Frames : sender'[g] = sender[g]
  <2>1. sender \in Seq(Nodes)
    BY DEF IInv, TypeOK
  <2> QED BY <1>1, <1>2, <2>1, AppendProperties
<1>4. /\ outcome' \in Seq([Nodes -> Outcomes]) /\ Len(outcome') = f
      /\ \A r \in Nodes : outcome'[f][r] = "none"
      /\ \A g \in Frames : outcome'[g] = outcome[g]
  <2>1. outcome \in Seq([Nodes -> Outcomes]) /\ Len(outcome) = Len(sender)
    BY DEF IInv, TypeOK
  <2>2. [r \in Nodes |-> "none"] \in [Nodes -> Outcomes]
    BY DEF Outcomes
  <2> QED BY <1>1, <1>2, <2>1, <2>2, AppendProperties
<1>5. /\ Frames' = Frames \cup {f} /\ f \notin Frames
      /\ \A g \in Frames : g < f
  BY <1>1, <1>3 DEF Frames
<1>6. /\ rf' \in [Nodes -> Seq(Nat)]
      /\ \A m \in Nodes : /\ Len(rf'[m]) <= RFSize /\ DOMAIN rf'[m] = 1 .. Len(rf'[m])
                          /\ Len(rf'[m]) \in Nat
      /\ \A m \in Nodes : \A i \in DOMAIN rf'[m] :
           \/ i \in DOMAIN rf[m] /\ rf'[m][i] = rf[m][i]
           \/ m = n /\ rf'[m][i] = f /\ \A j \in DOMAIN rf'[m] : j <= i
  <2>1. rf \in [Nodes -> Seq(Nat)] /\ \A m \in Nodes : Len(rf[m]) <= RFSize
    BY DEF IInv, TypeOK
  <2>2. CASE rf' = rf
    BY <2>1, <2>2
  <2>3. CASE Len(rf[n]) < RFSize /\ rf' = [rf EXCEPT ![n] = Append(rf[n], f)]
    <3>1. /\ rf'[n] = Append(rf[n], f) /\ rf' \in [Nodes -> Seq(Nat)]
          /\ \A m \in Nodes : m # n => rf'[m] = rf[m]
      BY <2>1, <2>3
    <3>2. Len(rf'[n]) <= RFSize /\ Len(rf'[n]) = Len(rf[n]) + 1
      BY <2>1, <2>3, <3>1, MediumAssumption
    <3>3. ASSUME NEW i \in DOMAIN rf'[n]
          PROVE  \/ i \in DOMAIN rf[n] /\ rf'[n][i] = rf[n][i]
                 \/ rf'[n][i] = f /\ \A j \in DOMAIN rf'[n] : j <= i
      <4>1. DOMAIN rf'[n] = 1 .. Len(rf[n]) + 1
        BY <3>1, <3>2
      <4>2. CASE i = Len(rf[n]) + 1
        BY <3>1, <4>1, <4>2
      <4>3. CASE i \in 1 .. Len(rf[n])
        BY <3>1, <4>3
      <4> QED BY <4>1, <4>2, <4>3
    <3>4. \A m \in Nodes : /\ Len(rf'[m]) <= RFSize /\ DOMAIN rf'[m] = 1 .. Len(rf'[m])
                           /\ Len(rf'[m]) \in Nat
      <4>1. \A m \in Nodes : rf'[m] \in Seq(Nat)
        BY <3>1
      <4>2. \A m \in Nodes : Len(rf'[m]) \in Nat /\ DOMAIN rf'[m] = 1 .. Len(rf'[m])
        BY <4>1
      <4>3. \A m \in Nodes : Len(rf'[m]) <= RFSize
        BY <2>1, <3>1, <3>2
      <4> QED BY <4>2, <4>3
    <3>5. ASSUME NEW m \in Nodes, NEW i \in DOMAIN rf'[m]
          PROVE  \/ i \in DOMAIN rf[m] /\ rf'[m][i] = rf[m][i]
                 \/ m = n /\ rf'[m][i] = f /\ \A j \in DOMAIN rf'[m] : j <= i
      <4>1. CASE m = n
        BY <3>3, <3>5, <4>1
      <4>2. CASE m # n
        BY <3>1, <3>5, <4>2
      <4> QED BY <4>1, <4>2
    <3> QED BY <3>1, <3>4, <3>5
  <2> QED BY <1>1, <1>3, <2>2, <2>3 DEF Emit
<1>7. /\ life' \in {life, "FAILED"} /\ overflow' \in BOOLEAN
      /\ life' = "FAILED" => life \in {"UP", "FAILED"}
      /\ overflow' # overflow => life = "UP" /\ life' = "FAILED"
  BY DEF Emit, Report, IInv, TypeOK
<1>8. TypeOK'
  <2>1. tasks' \subseteq [frame : Frames', to : Nodes]
    BY <1>2, <1>5 DEF IInv, TypeOK
  <2> QED BY <1>2, <1>3, <1>4, <1>6, <1>7, <2>1 DEF IInv, TypeOK
<1>9. ASSUME NEW m \in Nodes PROVE Queued(m)'
  <2>1. Queued(m)
    BY DEF IInv
  <2>2. ASSUME NEW i \in DOMAIN rf'[m]
        PROVE  /\ rf'[m][i] \in Frames' /\ sender'[rf'[m][i]] = m
               /\ \A r \in Nodes : outcome'[rf'[m][i]][r] = "none"
    <3>1. CASE i \in DOMAIN rf[m] /\ rf'[m][i] = rf[m][i]
      <4>1. /\ rf[m][i] \in Frames /\ sender[rf[m][i]] = m
            /\ \A r \in Nodes : outcome[rf[m][i]][r] = "none"
        BY <2>1, <3>1 DEF Queued
      <4> QED BY <1>3, <1>4, <1>5, <3>1, <4>1
    <3>2. CASE m = n /\ rf'[m][i] = f
      BY <1>3, <1>4, <1>5, <3>2
    <3> QED BY <1>6, <3>1, <3>2
  <2>3. ASSUME NEW i \in DOMAIN rf'[m], NEW j \in DOMAIN rf'[m], i < j
        PROVE  rf'[m][i] < rf'[m][j]
    <3>1. i \in DOMAIN rf[m] /\ rf'[m][i] = rf[m][i]
      BY <1>6, <2>3
    <3>2. CASE j \in DOMAIN rf[m] /\ rf'[m][j] = rf[m][j]
      BY <2>1, <2>3, <3>1, <3>2 DEF Queued
    <3>3. CASE rf'[m][j] = f
      BY <1>5, <2>1, <3>1, <3>3 DEF Queued
    <3> QED BY <1>6, <3>2, <3>3
  <2> QED BY <2>2, <2>3 DEF Queued
<1>10. ASSUME NEW t \in tasks PROVE Injecting(t)'
  <2>1. Injecting(t) /\ t.frame \in Frames /\ t.to \in Nodes
    BY DEF IInv
  <2>2. sender'[t.frame] = sender[t.frame] /\ sender[t.frame] \in Nodes
    BY <1>3, <2>1
  <2>3. ASSUME NEW i \in DOMAIN rf'[sender[t.frame]]
        PROVE  t.frame < rf'[sender[t.frame]][i]
    <3>1. CASE /\ i \in DOMAIN rf[sender[t.frame]]
               /\ rf'[sender[t.frame]][i] = rf[sender[t.frame]][i]
      BY <2>1, <3>1 DEF Injecting
    <3>2. CASE rf'[sender[t.frame]][i] = f
      BY <1>5, <2>1, <3>2
    <3> QED BY <1>6, <2>2, <3>1, <3>2
  <2>4. \A u \in tasks : sender'[u.frame] = sender[u.frame]
    BY <1>3
  <2> QED BY <1>2, <1>4, <2>1, <2>2, <2>3, <2>4 DEF Injecting
<1>11. ASSUME NEW r \in Nodes PROVE Arrived(r)'
  <2> SUFFICES ASSUME NEW i \in DOMAIN arrived[r]
               PROVE  LET g == arrived[r][i] IN
                      /\ g \in Frames' /\ outcome'[g][r] = "injected"
                      /\ \A t \in tasks : sender'[t.frame] = sender'[g] => g <= t.frame
                      /\ \A j \in DOMAIN rf'[sender'[g]] : g < rf'[sender'[g]][j]
    BY <1>2 DEF Arrived
  <2> DEFINE g == arrived[r][i]
  <2>1. /\ g \in Frames /\ outcome[g][r] = "injected"
        /\ \A t \in tasks : sender[t.frame] = sender[g] => g <= t.frame
        /\ \A j \in DOMAIN rf[sender[g]] : g < rf[sender[g]][j]
    BY DEF IInv, Arrived
  <2> HIDE DEF g
  <2>2. sender'[g] = sender[g] /\ sender[g] \in Nodes /\ outcome'[g] = outcome[g]
    BY <1>3, <1>4, <2>1
  <2>3. \A t \in tasks : sender'[t.frame] = sender[t.frame]
    BY <1>3
  <2>4. ASSUME NEW j \in DOMAIN rf'[sender[g]] PROVE g < rf'[sender[g]][j]
    <3>1. CASE j \in DOMAIN rf[sender[g]] /\ rf'[sender[g]][j] = rf[sender[g]][j]
      BY <2>1, <3>1
    <3>2. CASE rf'[sender[g]][j] = f
      BY <1>5, <2>1, <3>2
    <3> QED BY <1>6, <2>2, <3>1, <3>2
  <2> QED BY <1>5, <2>1, <2>2, <2>3, <2>4 DEF g
<1>12. \A g \in Frames' : OneMap(g)'
  <2>1. ASSUME NEW g \in Frames PROVE OneMap(g)'
    <3>1. OneMap(g) /\ outcome'[g] = outcome[g] /\ sender'[g] = sender[g] /\ maps' = maps
      BY <1>2, <1>3, <1>4 DEF IInv
    <3> QED BY <3>1 DEF OneMap, Row
  <2>2. OneMap(f)'
    BY <1>4 DEF OneMap
  <2> QED BY <1>5, <2>1, <2>2
<1>13. \A m \in Nodes : Failed(m)' = Failed(m)
  <2> SUFFICES ASSUME NEW m \in Nodes PROVE Failed(m)' = Failed(m)
    OBVIOUS
  <2>1. Failed(m)' = {g \in Frames' : sender'[g] = m /\ \E r \in Nodes : outcome'[g][r] = "failed"}
    BY DEF Failed, Frames
  <2>2. Failed(m) = {g \in Frames : sender[g] = m /\ \E r \in Nodes : outcome[g][r] = "failed"}
    BY DEF Failed, Frames
  <2> QED BY <1>3, <1>4, <1>5, <2>1, <2>2
<1>14. ByLife'
  <2>1. life' = "STARTING" => \A g \in Frames', r \in Nodes : outcome'[g][r] = "none"
    BY <1>4, <1>5, <1>7 DEF IInv, ByLife
  <2> QED BY <1>2, <1>7, <2>1 DEF IInv, ByLife
<1>15. LossIsFailure'
  BY <1>2, <1>7, <1>13 DEF IInv, LossIsFailure
<1>16. FramesInOrder'
  <2>1. \A r \in Nodes : \A i \in 1 .. Len(arrived[r]) :
          sender'[arrived[r][i]] = sender[arrived[r][i]]
    BY <1>3 DEF IInv, Arrived
  <2> SUFFICES ASSUME NEW r \in Nodes, NEW i \in 1 .. Len(arrived[r]),
                      NEW j \in 1 .. Len(arrived[r]), i < j,
                      sender'[arrived[r][i]] = sender'[arrived[r][j]]
               PROVE  arrived[r][i] < arrived[r][j]
    BY <1>2 DEF FramesInOrder
  <2> QED BY <2>1 DEF IInv, FramesInOrder
<1> QED BY <1>2, <1>8, <1>9, <1>10, <1>11, <1>12, <1>14, <1>15, <1>16 DEF IInv

\* The worker takes its oldest frame and gives every receiver its outcome or an
\* injection, from the one link map of this moment.
LEMMA TransmitStep ==
    ASSUME IInv, NEW n \in Nodes, Transmit(n)
    PROVE  IInv'
<1> USE Domains
<1>1. worker[n] = "get" /\ rf[n] # <<>> /\ Queued(n)
  BY DEF Transmit, IInv
<1>2. Len(rf[n]) >= 1 /\ 1 \in DOMAIN rf[n] /\ Head(rf[n]) = rf[n][1]
  <2>1. rf[n] \in Seq(Nat)
    OBVIOUS
  <2> QED BY <1>1, <2>1
<1>3. PICK f \in Frames : f = rf[n][1]
  BY <1>1, <1>2 DEF Queued
<1> DEFINE enabled == Row(links, n)
           x == [r \in Nodes |-> IF r \in enabled THEN "pending"
                                 ELSE IF r = n THEN "none" ELSE "dropped"]
           new == {[frame |-> f, to |-> r] : r \in enabled}
<1>4. /\ tasks' = tasks \cup new /\ outcome' = [outcome EXCEPT ![f] = x]
      /\ rf' = [rf EXCEPT ![n] = Tail(rf[n])] /\ worker' = [worker EXCEPT ![n] = "sending"]
      /\ UNCHANGED <<life, links, maps, sender, arrived, edits, env>>
  BY <1>2, <1>3 DEF Transmit
<1>5. /\ enabled \subseteq Nodes /\ n \notin enabled
      /\ sender[f] = n /\ \A r \in Nodes : outcome[f][r] = "none"
  <2>1. links \subseteq Pairs
    BY DEF IInv, TypeOK
  <2>2. enabled \subseteq Nodes /\ n \notin enabled
    BY <2>1 DEF Row, Pairs
  <2>3. sender[f] = n /\ \A r \in Nodes : outcome[f][r] = "none"
    BY <1>1, <1>2, <1>3 DEF Queued
  <2> QED BY <2>2, <2>3
<1>6. x \in [Nodes -> Outcomes]
  BY DEF Outcomes
<1>7. /\ outcome' \in Seq([Nodes -> Outcomes]) /\ Len(outcome') = Len(sender)
      /\ outcome'[f] = x /\ \A g \in Frames : g # f => outcome'[g] = outcome[g]
  <2>1. outcome \in Seq([Nodes -> Outcomes]) /\ Len(outcome) = Len(sender)
    BY DEF IInv, TypeOK
  <2> HIDE DEF x
  <2> QED BY <1>4, <1>6, <2>1, ExceptSeq
<1>8. \A r \in Nodes : /\ outcome'[f][r] = "none" <=> r = n
                       /\ outcome'[f][r] = "pending" <=> r \in enabled
                       /\ outcome'[f][r] = "dropped" <=> r # n /\ r \notin enabled
                       /\ outcome'[f][r] # "failed"
  BY <1>5, <1>7
<1>9. /\ \A t \in new : t.frame = f /\ t.to \in enabled /\ t \in [frame : Frames, to : Nodes]
      /\ tasks' \subseteq [frame : Frames, to : Nodes]
  <2>1. \A t \in new : t.frame = f /\ t.to \in enabled /\ t \in [frame : Frames, to : Nodes]
    BY <1>5
  <2>2. tasks \subseteq [frame : Frames, to : Nodes]
    BY DEF IInv, TypeOK
  <2> HIDE DEF new, enabled
  <2> QED BY <1>4, <2>1, <2>2
<1> HIDE DEF x, new, enabled
<1>10. /\ worker' \in [Nodes -> {"none", "get", "sending", "dead"}] /\ worker'[n] = "sending"
       /\ \A m \in Nodes : m # n => worker'[m] = worker[m]
  BY <1>4 DEF IInv, TypeOK
<1>11. /\ rf' \in [Nodes -> Seq(Nat)] /\ \A m \in Nodes : Len(rf'[m]) <= RFSize
       /\ \A m \in Nodes : m # n => rf'[m] = rf[m]
       /\ \A i \in DOMAIN rf'[n] : i + 1 \in DOMAIN rf[n] /\ i \in Nat /\ i >= 1
                                   /\ rf'[n][i] = rf[n][i + 1]
  <2>1. rf \in [Nodes -> Seq(Nat)] /\ \A m \in Nodes : Len(rf[m]) <= RFSize
    BY DEF IInv, TypeOK
  <2>2. /\ Tail(rf[n]) \in Seq(Nat) /\ Len(Tail(rf[n])) = Len(rf[n]) - 1
        /\ \A i \in 1 .. Len(Tail(rf[n])) : Tail(rf[n])[i] = rf[n][i + 1]
    BY <1>1, <2>1, HeadTailProperties
  <2>3. /\ rf' \in [Nodes -> Seq(Nat)] /\ rf'[n] = Tail(rf[n])
        /\ \A m \in Nodes : m # n => rf'[m] = rf[m]
    BY <1>4, <2>1, <2>2
  <2>4. Len(rf'[n]) = Len(rf[n]) - 1 /\ Len(rf'[n]) <= RFSize
    BY <1>2, <2>1, <2>2, <2>3, MediumAssumption
  <2>5. DOMAIN rf'[n] = 1 .. Len(rf[n]) - 1 /\ DOMAIN rf[n] = 1 .. Len(rf[n]) /\ Len(rf[n]) \in Nat
    BY <2>2, <2>3, <2>4
  <2>6. \A i \in 1 .. Len(rf[n]) - 1 : i + 1 \in 1 .. Len(rf[n]) /\ i \in Nat /\ i >= 1
    BY <2>5
  <2>7. \A m \in Nodes : Len(rf'[m]) <= RFSize
    BY <2>1, <2>3, <2>4
  <2> QED BY <2>2, <2>3, <2>4, <2>5, <2>6, <2>7
<1>12. TypeOK'
  <2>1. Frames' = Frames
    BY <1>4 DEF Frames
  <2> QED BY <1>4, <1>7, <1>9, <1>10, <1>11, <2>1 DEF IInv, TypeOK
<1>13. ASSUME NEW i \in DOMAIN rf'[n] PROVE f < rf'[n][i] /\ rf'[n][i] \in Frames
  <2>1. i + 1 \in DOMAIN rf[n] /\ 1 < i + 1 /\ rf'[n][i] = rf[n][i + 1]
    BY <1>11
  <2> QED BY <1>1, <1>2, <1>3, <2>1 DEF Queued
<1>14. ASSUME NEW m \in Nodes PROVE Queued(m)'
  <2>1. Queued(m) /\ sender' = sender /\ Frames' = Frames
    BY <1>4 DEF IInv, Frames
  <2>2. CASE m # n
    <3>1. rf'[m] = rf[m] /\ \A i \in DOMAIN rf[m] : rf[m][i] # f
      BY <1>5, <1>11, <2>1, <2>2 DEF Queued
    <3>2. ASSUME NEW i \in DOMAIN rf[m]
          PROVE  /\ rf[m][i] \in Frames /\ sender[rf[m][i]] = m
                 /\ \A r \in Nodes : outcome'[rf[m][i]][r] = "none"
      <4>1. /\ rf[m][i] \in Frames /\ sender[rf[m][i]] = m
            /\ \A r \in Nodes : outcome[rf[m][i]][r] = "none"
        BY <2>1 DEF Queued
      <4>2. outcome'[rf[m][i]] = outcome[rf[m][i]]
        BY <1>7, <3>1, <4>1
      <4> QED BY <4>1, <4>2
    <3> QED BY <2>1, <3>1, <3>2 DEF Queued
  <2>3. CASE m = n
    <3>1. ASSUME NEW i \in DOMAIN rf'[n]
          PROVE  /\ rf'[n][i] \in Frames /\ sender[rf'[n][i]] = n
                 /\ \A r \in Nodes : outcome'[rf'[n][i]][r] = "none"
      <4>1. /\ i + 1 \in DOMAIN rf[n] /\ rf'[n][i] = rf[n][i + 1]
            /\ rf'[n][i] # f /\ rf'[n][i] \in Frames
        BY <1>3, <1>11, <1>13
      <4>2. sender[rf'[n][i]] = n /\ \A r \in Nodes : outcome[rf'[n][i]][r] = "none"
        BY <1>1, <4>1 DEF Queued
      <4>3. outcome'[rf'[n][i]] = outcome[rf'[n][i]]
        BY <1>7, <4>1
      <4> QED BY <4>1, <4>2, <4>3
    <3>2. ASSUME NEW i \in DOMAIN rf'[n], NEW j \in DOMAIN rf'[n], i < j
          PROVE  rf'[n][i] < rf'[n][j]
      <4>1. i + 1 < j + 1 /\ i + 1 \in DOMAIN rf[n] /\ j + 1 \in DOMAIN rf[n]
        BY <1>11, <3>2
      <4> QED BY <1>1, <1>11, <4>1 DEF Queued
    <3> QED BY <2>1, <2>3, <3>1, <3>2 DEF Queued
  <2> QED BY <2>2, <2>3
<1>15. \A t \in tasks : Injecting(t) /\ sender[t.frame] # n /\ t.frame # f
                        /\ sender[t.frame] \in Nodes
  BY <1>1, <1>5 DEF IInv, Injecting
<1>16. ASSUME NEW t \in tasks' PROVE Injecting(t)'
  <2>1. sender' = sender
    BY <1>4
  <2>2. CASE t \in tasks
    <3>1. Injecting(t) /\ sender[t.frame] # n /\ t.frame # f /\ t.frame \in Frames
          /\ sender[t.frame] \in Nodes
      BY <1>15, <2>2
    <3>2. \A u \in tasks' : sender[u.frame] = sender[t.frame] => u \in tasks
      BY <1>4, <1>5, <1>9, <3>1
    <3>3. outcome'[t.frame] = outcome[t.frame] /\ rf'[sender[t.frame]] = rf[sender[t.frame]]
          /\ worker'[sender[t.frame]] = worker[sender[t.frame]]
      BY <1>7, <1>10, <1>11, <3>1
    <3> QED BY <2>1, <3>1, <3>2, <3>3 DEF Injecting
  <2>3. CASE t \in new
    <3>1. t.frame = f /\ t.to \in enabled /\ t.to \in Nodes
      BY <1>5, <1>9, <2>3
    <3>2. \A u \in tasks' : sender[u.frame] = n => u.frame = f
      BY <1>4, <1>9, <1>15
    <3> QED BY <1>5, <1>8, <1>10, <1>13, <2>1, <3>1, <3>2 DEF Injecting
  <2> QED BY <1>4, <2>2, <2>3
<1>17. ASSUME NEW r \in Nodes PROVE Arrived(r)'
  <2> SUFFICES ASSUME NEW i \in DOMAIN arrived[r]
               PROVE  LET g == arrived[r][i] IN
                      /\ g \in Frames /\ outcome'[g][r] = "injected"
                      /\ \A t \in tasks' : sender[t.frame] = sender[g] => g <= t.frame
                      /\ \A j \in DOMAIN rf'[sender[g]] : g < rf'[sender[g]][j]
    BY <1>4 DEF Arrived, Frames
  <2>1. PICK g \in Frames : g = arrived[r][i]
    BY DEF IInv, Arrived
  <2>2. /\ outcome[g][r] = "injected"
        /\ \A t \in tasks : sender[t.frame] = sender[g] => g <= t.frame
        /\ \A j \in DOMAIN rf[sender[g]] : g < rf[sender[g]][j]
        /\ sender[g] \in Nodes /\ g # f
    BY <1>5, <2>1 DEF IInv, Arrived
  <2>3. \A t \in tasks' : sender[t.frame] = sender[g] => g <= t.frame
    <3>1. sender[g] = n => g < f
      BY <1>2, <1>3, <2>2
    <3>2. \A t \in new : sender[t.frame] = sender[g] => g <= t.frame
      BY <1>5, <1>9, <3>1
    <3> QED BY <1>4, <2>2, <3>2
  <2>4. \A j \in DOMAIN rf'[sender[g]] : g < rf'[sender[g]][j]
    <3>1. CASE sender[g] # n
      BY <1>11, <2>2, <3>1
    <3>2. CASE sender[g] = n
      BY <1>11, <2>2, <3>2
    <3> QED BY <3>1, <3>2
  <2> QED BY <1>7, <2>1, <2>2, <2>3, <2>4
<1>18. ASSUME NEW g \in Frames PROVE OneMap(g)'
  <2>1. CASE g = f
    <3>1. links \in maps' /\ sender'[f] = n
      BY <1>4, <1>5 DEF IInv, TypeOK
    <3>2. \A r \in Nodes : /\ outcome'[f][r] = "none" <=> r = sender'[f]
                           /\ outcome'[f][r] = "dropped"
                                <=> r # sender'[f] /\ r \notin Row(links, sender'[f])
      BY <1>8, <3>1 DEF enabled
    <3>3. \E T \in maps' : \A r \in Nodes :
            /\ outcome'[f][r] = "none" <=> r = sender'[f]
            /\ outcome'[f][r] = "dropped" <=> r # sender'[f] /\ r \notin Row(T, sender'[f])
      BY <3>1, <3>2
    <3> QED BY <2>1, <3>3 DEF OneMap, Row
  <2>2. CASE g # f
    <3>1. OneMap(g) /\ outcome'[g] = outcome[g] /\ sender'[g] = sender[g] /\ maps' = maps
      BY <1>4, <1>7, <2>2 DEF IInv
    <3> QED BY <3>1 DEF OneMap, Row
  <2> QED BY <2>1, <2>2
<1>19. \A m \in Nodes : m # n => Failed(m)' = Failed(m)
  <2> SUFFICES ASSUME NEW m \in Nodes, m # n PROVE Failed(m)' = Failed(m)
    OBVIOUS
  <2>1. Failed(m)' = {g \in Frames : sender[g] = m /\ \E r \in Nodes : outcome'[g][r] = "failed"}
    BY <1>4 DEF Failed, Frames
  <2>2. Failed(m) = {g \in Frames : sender[g] = m /\ \E r \in Nodes : outcome[g][r] = "failed"}
    BY DEF Failed, Frames
  <2> QED BY <1>5, <1>7, <2>1, <2>2
<1>20. ByLife'
  <2>1. life \notin {"STARTING", "STOPPED"}
    BY <1>1 DEF IInv, ByLife
  <2> QED BY <1>4, <2>1 DEF ByLife
<1>21. LossIsFailure'
  BY <1>4, <1>10, <1>19 DEF IInv, LossIsFailure
<1>22. FramesInOrder' /\ Frames' = Frames
  BY <1>4 DEF IInv, FramesInOrder, Frames
<1> QED BY <1>12, <1>14, <1>16, <1>17, <1>18, <1>20, <1>21, <1>22 DEF IInv

\* What decides whether a frame went to a row of one map.
LEMMA OneMapKept ==
    ASSUME NEW g, OneMap(g), sender'[g] = sender[g], maps' = maps,
           \A r \in Nodes : /\ outcome'[g][r] = "none" <=> outcome[g][r] = "none"
                            /\ outcome'[g][r] = "dropped" <=> outcome[g][r] = "dropped"
    PROVE  OneMap(g)'
<1>1. CASE \A r \in Nodes : outcome[g][r] = "none"
  BY <1>1 DEF OneMap
<1>2. ASSUME NEW T \in maps,
             \A r \in Nodes :
               /\ outcome[g][r] = "none" <=> r = sender[g]
               /\ outcome[g][r] = "dropped" <=> r # sender[g] /\ r \notin Row(T, sender[g])
      PROVE  OneMap(g)'
  <2>1. T \in maps' /\ \A r \in Nodes :
          /\ outcome'[g][r] = "none" <=> r = sender'[g]
          /\ outcome'[g][r] = "dropped" <=> r # sender'[g] /\ r \notin Row(T, sender'[g])
    BY <1>2
  <2> QED BY <2>1 DEF OneMap, Row
<1> QED BY <1>1, <1>2 DEF OneMap

\* An injection runs: its frame is the youngest its receiver has of that transmitter.
LEMMA InjectStep ==
    ASSUME IInv, NEW t \in tasks, Inject(t)
    PROVE  IInv'
<1> USE Domains
<1>1. PICK f \in Frames, s \in Nodes : f = t.frame /\ s = t.to
  OBVIOUS
<1>2. PICK o \in {"injected", "failed"} :
        /\ outcome' = [outcome EXCEPT ![f] = [outcome[f] EXCEPT ![s] = o]]
        /\ o = "injected" => /\ arrived' = [arrived EXCEPT ![s] = Append(arrived[s], f)]
                             /\ Len(arrived[s]) - written[s] # WriteSize
        /\ o = "failed" => arrived' = arrived
  BY <1>1 DEF Inject, Refuses
<1>3. tasks' = tasks \ {t} /\ UNCHANGED <<life, links, maps, rf, worker, sender, edits, env>>
  BY DEF Inject
<1>4. /\ outcome[f][s] = "pending" /\ worker[sender[f]] = "sending"
      /\ \A i \in DOMAIN rf[sender[f]] : f < rf[sender[f]][i]
      /\ \A u \in tasks : sender[u.frame] = sender[f] => u.frame = f
  BY <1>1 DEF IInv, Injecting
<1>5. /\ outcome' \in Seq([Nodes -> Outcomes]) /\ Len(outcome') = Len(sender)
      /\ outcome'[f] = [outcome[f] EXCEPT ![s] = o]
      /\ \A g \in Frames : g # f => outcome'[g] = outcome[g]
  <2>1. outcome \in Seq([Nodes -> Outcomes]) /\ Len(outcome) = Len(sender)
    BY DEF IInv, TypeOK
  <2>2. PICK x \in [Nodes -> Outcomes] : x = [outcome[f] EXCEPT ![s] = o]
    BY DEF Outcomes
  <2>3. outcome' = [outcome EXCEPT ![f] = x]
    BY <1>2, <2>2
  <2>4. /\ outcome' \in Seq([Nodes -> Outcomes]) /\ Len(outcome') = Len(sender)
        /\ outcome'[f] = x /\ \A g \in Frames : g # f => outcome'[g] = outcome[g]
    BY <2>1, <2>3, ExceptSeq
  <2> QED BY <2>2, <2>4
<1>6. /\ outcome'[f][s] = o
      /\ \A g \in Frames, r \in Nodes : (g # f \/ r # s) => outcome'[g][r] = outcome[g][r]
  BY <1>5
<1>7. ASSUME NEW u \in tasks'
      PROVE  u \in tasks /\ (u.frame # f \/ u.to # s)
  <2>1. u \in tasks /\ u # t /\ tasks \subseteq [frame : Frames, to : Nodes]
    BY <1>3 DEF IInv, TypeOK
  <2> QED BY <1>1, <2>1
<1>8. /\ arrived' \in [Nodes -> Seq(Nat)]
      /\ \A r \in Nodes : r # s => arrived'[r] = arrived[r]
      /\ \A i \in DOMAIN arrived'[s] :
           \/ i \in DOMAIN arrived[s] /\ arrived'[s][i] = arrived[s][i]
           \/ /\ o = "injected" /\ arrived'[s][i] = f
              /\ \A j \in DOMAIN arrived'[s] : j <= i
      /\ \A r \in Nodes : Len(arrived'[r]) - written[r] \in 0 .. WriteSize
  <2>1. /\ arrived \in [Nodes -> Seq(Nat)] /\ written \in [Nodes -> Nat]
        /\ \A r \in Nodes : Len(arrived[r]) - written[r] \in 0 .. WriteSize
    BY DEF IInv, TypeOK
  <2>2. CASE o = "failed"
    BY <1>2, <2>1, <2>2
  <2>3. CASE o = "injected"
    <3>1. /\ arrived' \in [Nodes -> Seq(Nat)] /\ arrived'[s] = Append(arrived[s], f)
          /\ \A r \in Nodes : r # s => arrived'[r] = arrived[r]
      <4>1. PICK y \in Seq(Nat) : y = Append(arrived[s], f)
        BY AppendProperties
      <4>2. arrived \in [Nodes -> Seq(Nat)] /\ arrived' = [arrived EXCEPT ![s] = y]
        BY <1>2, <2>1, <2>3, <4>1
      <4>3. /\ arrived' \in [Nodes -> Seq(Nat)] /\ arrived'[s] = y
            /\ \A r \in Nodes : r # s => arrived'[r] = arrived[r]
        BY <4>2
      <4> QED BY <4>1, <4>3
    <3>2. /\ Len(arrived'[s]) = Len(arrived[s]) + 1
          /\ DOMAIN arrived'[s] = 1 .. Len(arrived[s]) + 1
      BY <3>1
    <3>3. ASSUME NEW i \in DOMAIN arrived'[s]
          PROVE  \/ i \in DOMAIN arrived[s] /\ arrived'[s][i] = arrived[s][i]
                 \/ arrived'[s][i] = f /\ \A j \in DOMAIN arrived'[s] : j <= i
      BY <3>1, <3>2
    <3>4. Len(arrived'[s]) - written[s] \in 0 .. WriteSize
      <4>1. /\ Len(arrived[s]) \in Nat /\ written[s] \in Nat /\ WriteSize \in Nat
            /\ Len(arrived[s]) - written[s] \in 0 .. WriteSize
            /\ Len(arrived[s]) - written[s] # WriteSize
        BY <1>2, <2>1, <2>3, MediumAssumption
      <4>2. ASSUME NEW a \in Nat, NEW w \in Nat, NEW l \in Nat, a - w \in 0 .. l, a - w # l
            PROVE  (a + 1) - w \in 0 .. l
        BY <4>2
      <4> QED BY <3>2, <4>1, <4>2
    <3>5. \A r \in Nodes : Len(arrived'[r]) - written[r] \in 0 .. WriteSize
      BY <2>1, <3>1, <3>4
    <3> QED BY <2>3, <3>1, <3>3, <3>5
  <2> QED BY <2>2, <2>3
<1>9. TypeOK' /\ Frames' = Frames
  <2>1. Frames' = Frames
    BY <1>3 DEF Frames
  <2>2. tasks' \subseteq [frame : Frames, to : Nodes]
    BY <1>3 DEF IInv, TypeOK
  <2> QED BY <1>3, <1>5, <1>8, <2>1, <2>2 DEF IInv, TypeOK
<1>10. ASSUME NEW m \in Nodes PROVE Queued(m)'
  <2>1. Queued(m) /\ rf' = rf /\ sender' = sender
    BY <1>3 DEF IInv
  <2>2. ASSUME NEW i \in DOMAIN rf[m]
        PROVE  /\ rf[m][i] \in Frames /\ sender[rf[m][i]] = m
               /\ \A r \in Nodes : outcome'[rf[m][i]][r] = "none"
    <3>1. /\ rf[m][i] \in Frames /\ sender[rf[m][i]] = m
          /\ \A r \in Nodes : outcome[rf[m][i]][r] = "none"
      BY <2>1 DEF Queued
    <3>2. outcome'[rf[m][i]] = outcome[rf[m][i]]
      BY <1>4, <1>5, <3>1
    <3> QED BY <3>1, <3>2
  <2> QED BY <1>9, <2>1, <2>2 DEF Queued
<1>11. ASSUME NEW u \in tasks' PROVE Injecting(u)'
  <2>1. Injecting(u) /\ u.frame \in Frames /\ u.to \in Nodes
    BY <1>7 DEF IInv
  <2>2. outcome'[u.frame][u.to] = "pending"
    BY <1>6, <1>7, <2>1 DEF Injecting
  <2> QED BY <1>3, <2>1, <2>2 DEF Injecting
<1>12. \A r \in Nodes : \A i \in DOMAIN arrived[r] :
         /\ arrived[r][i] \in Frames /\ outcome[arrived[r][i]][r] = "injected"
         /\ \A u \in tasks : sender[u.frame] = sender[arrived[r][i]] => arrived[r][i] <= u.frame
         /\ \A j \in DOMAIN rf[sender[arrived[r][i]]] :
              arrived[r][i] < rf[sender[arrived[r][i]]][j]
  BY DEF IInv, Arrived
<1>13. ASSUME NEW r \in Nodes PROVE Arrived(r)'
  <2> SUFFICES ASSUME NEW i \in DOMAIN arrived'[r]
               PROVE  LET g == arrived'[r][i] IN
                      /\ g \in Frames /\ outcome'[g][r] = "injected"
                      /\ \A u \in tasks' : sender[u.frame] = sender[g] => g <= u.frame
                      /\ \A j \in DOMAIN rf[sender[g]] : g < rf[sender[g]][j]
    BY <1>3, <1>9 DEF Arrived
  <2>1. CASE i \in DOMAIN arrived[r] /\ arrived'[r][i] = arrived[r][i]
    <3>1. PICK g \in Frames : g = arrived[r][i]
      BY <1>12, <2>1
    <3>2. /\ outcome[g][r] = "injected"
          /\ \A u \in tasks : sender[u.frame] = sender[g] => g <= u.frame
          /\ \A j \in DOMAIN rf[sender[g]] : g < rf[sender[g]][j]
      BY <1>12, <2>1, <3>1
    <3>3. outcome'[g][r] = "injected"
      BY <1>4, <1>6, <3>2
    <3> QED BY <1>7, <2>1, <3>1, <3>2, <3>3
  <2>2. CASE r = s /\ o = "injected" /\ arrived'[r][i] = f
    BY <1>4, <1>6, <1>7, <2>2
  <2> QED BY <1>8, <2>1, <2>2
<1>14. ASSUME NEW g \in Frames PROVE OneMap(g)'
  <2>1. ASSUME NEW r \in Nodes
        PROVE  /\ outcome'[g][r] = "none" <=> outcome[g][r] = "none"
               /\ outcome'[g][r] = "dropped" <=> outcome[g][r] = "dropped"
    <3>1. CASE g = f /\ r = s
      BY <1>2, <1>4, <1>6, <3>1
    <3>2. CASE g # f \/ r # s
      BY <1>6, <3>2
    <3> QED BY <3>1, <3>2
  <2>2. OneMap(g) /\ sender'[g] = sender[g] /\ maps' = maps
    BY <1>3 DEF IInv
  <2> QED BY <2>1, <2>2, OneMapKept
<1>15. ByLife'
  <2>1. life \notin {"STARTING", "STOPPED"}
    BY <1>4 DEF IInv, ByLife
  <2> QED BY <1>3, <2>1 DEF ByLife
<1>16. LossIsFailure'
  <2>1. ASSUME NEW m \in Nodes, m # sender[f] PROVE Failed(m)' = Failed(m)
    <3>1. Failed(m)' = {g \in Frames : sender[g] = m /\ \E r \in Nodes : outcome'[g][r] = "failed"}
      BY <1>3 DEF Failed, Frames
    <3>2. Failed(m) = {g \in Frames : sender[g] = m /\ \E r \in Nodes : outcome[g][r] = "failed"}
      BY DEF Failed, Frames
    <3>3. \A g \in Frames : sender[g] = m => outcome'[g] = outcome[g]
      BY <1>5, <2>1
    <3> QED BY <3>1, <3>2, <3>3
  <2> QED BY <1>3, <1>4, <2>1 DEF IInv, LossIsFailure
<1>17. FramesInOrder'
  <2> SUFFICES ASSUME NEW r \in Nodes, NEW i \in DOMAIN arrived'[r], NEW j \in DOMAIN arrived'[r],
                      i < j, sender[arrived'[r][i]] = sender[arrived'[r][j]]
               PROVE  arrived'[r][i] < arrived'[r][j]
    <3>1. \A r \in Nodes : DOMAIN arrived'[r] = 1 .. Len(arrived'[r])
      BY <1>8
    <3> QED BY <1>3, <3>1 DEF FramesInOrder
  <2>1. i \in Nat /\ j \in Nat /\ ~(j <= i)
    <3>1. arrived'[r] \in Seq(Nat)
      BY <1>8
    <3>2. i \in Nat /\ j \in Nat
      BY <3>1
    <3> QED BY <3>2
  <2>2. i \in DOMAIN arrived[r] /\ arrived'[r][i] = arrived[r][i]
    BY <1>8, <2>1
  <2>3. CASE j \in DOMAIN arrived[r] /\ arrived'[r][j] = arrived[r][j]
    BY <2>2, <2>3 DEF IInv, FramesInOrder
  <2>4. CASE r = s /\ arrived'[r][j] = f
    <3>1. PICK g \in Frames : g = arrived[r][i]
      BY <1>12, <2>2
    <3>2. outcome[g][r] = "injected" /\ (sender[f] = sender[g] => g <= f)
      BY <1>1, <1>12, <2>2, <3>1
    <3>3. sender[f] = sender[g] /\ g # f
      BY <1>4, <2>2, <2>4, <3>1, <3>2
    <3> QED BY <2>2, <2>4, <3>1, <3>2, <3>3
  <2> QED BY <1>8, <2>3, <2>4
<1> QED BY <1>9, <1>10, <1>11, <1>13, <1>14, <1>15, <1>16, <1>17 DEF IInv

\* Cancelled injections leave what arrived, failed or was dropped as it is.
LEMMA StopStep ==
    ASSUME IInv, StopMedium
    PROVE  IInv'
<1> USE Domains
<1>1. /\ life \in {"FAILED", "STOPPING"} /\ life' = "STOPPED" /\ worker' = [n \in Nodes |-> "none"]
      /\ tasks' = {} /\ UNCHANGED <<links, maps, rf, sender, arrived, edits, env>>
      /\ outcome' = [f \in DOMAIN outcome |-> [r \in Nodes |->
              IF outcome[f][r] = "pending" THEN "cancelled" ELSE outcome[f][r]]]
  BY DEF StopMedium
<1>2. DOMAIN outcome = Frames /\ Frames' = Frames
  BY <1>1 DEF IInv, TypeOK, Frames
<1>3. ASSUME NEW f \in Frames
      PROVE  /\ outcome'[f] \in [Nodes -> Outcomes]
             /\ \A r \in Nodes : IF outcome[f][r] = "pending" THEN outcome'[f][r] = "cancelled"
                                 ELSE outcome'[f][r] = outcome[f][r]
  <2>1. outcome'[f] = [r \in Nodes |->
              IF outcome[f][r] = "pending" THEN "cancelled" ELSE outcome[f][r]]
    BY <1>1, <1>2
  <2>2. \A r \in Nodes : outcome[f][r] \in Outcomes
    OBVIOUS
  <2> QED BY <2>1, <2>2 DEF Outcomes
<1>4. outcome' \in Seq([Nodes -> Outcomes]) /\ Len(outcome') = Len(sender)
  <2>1. outcome' \in [1 .. Len(sender) -> [Nodes -> Outcomes]]
    BY <1>1, <1>2, <1>3 DEF Frames
  <2> QED BY <2>1
<1>5. TypeOK'
  <2>1. worker' \in [Nodes -> {"none", "get", "sending", "dead"}]
    BY <1>1
  <2> QED BY <1>1, <1>4, <2>1 DEF IInv, TypeOK
<1>6. ASSUME NEW m \in Nodes PROVE Queued(m)'
  <2>1. Queued(m) /\ rf' = rf /\ sender' = sender
    BY <1>1 DEF IInv
  <2>2. ASSUME NEW i \in DOMAIN rf[m]
        PROVE  /\ rf[m][i] \in Frames /\ sender[rf[m][i]] = m
               /\ \A r \in Nodes : outcome'[rf[m][i]][r] = "none"
    <3>1. /\ rf[m][i] \in Frames /\ sender[rf[m][i]] = m
          /\ \A r \in Nodes : outcome[rf[m][i]][r] = "none"
      BY <2>1 DEF Queued
    <3> QED BY <1>3, <3>1
  <2> QED BY <1>2, <2>1, <2>2 DEF Queued
<1>7. ASSUME NEW r \in Nodes PROVE Arrived(r)'
  <2> SUFFICES ASSUME NEW i \in DOMAIN arrived[r]
               PROVE  LET g == arrived[r][i] IN
                      /\ g \in Frames /\ outcome'[g][r] = "injected"
                      /\ \A j \in DOMAIN rf[sender[g]] : g < rf[sender[g]][j]
    BY <1>1, <1>2 DEF Arrived
  <2>1. PICK g \in Frames : g = arrived[r][i]
    BY DEF IInv, Arrived
  <2>2. /\ outcome[g][r] = "injected"
        /\ \A j \in DOMAIN rf[sender[g]] : g < rf[sender[g]][j]
    BY <2>1 DEF IInv, Arrived
  <2> QED BY <1>3, <2>1, <2>2
<1>8. ASSUME NEW g \in Frames PROVE OneMap(g)'
  <2>1. ASSUME NEW r \in Nodes
        PROVE  /\ outcome'[g][r] = "none" <=> outcome[g][r] = "none"
               /\ outcome'[g][r] = "dropped" <=> outcome[g][r] = "dropped"
    BY <1>3
  <2>2. OneMap(g) /\ sender'[g] = sender[g] /\ maps' = maps
    BY <1>1 DEF IInv
  <2> QED BY <2>1, <2>2, OneMapKept
<1>9. ByLife' /\ LossIsFailure'
  BY <1>1 DEF ByLife, LossIsFailure
<1>10. FramesInOrder'
  BY <1>1 DEF IInv, FramesInOrder
<1> QED BY <1>1, <1>2, <1>5, <1>6, <1>7, <1>8, <1>9, <1>10 DEF IInv

-----------------------------------------------------------------------------
(* Theorems *)

\* The invariant holds before the medium starts.
LEMMA InvariantInit == Init => IInv
<1> SUFFICES ASSUME Init PROVE IInv
  OBVIOUS
<1>1. Len(sender) = 0 /\ Frames = {} /\ tasks = {}
  BY DEF Init, Frames
<1>2. TypeOK
  <2>1. sender \in Seq(Nodes) /\ outcome \in Seq([Nodes -> Outcomes]) /\ Len(outcome) = 0
    BY DEF Init
  <2>2. /\ rf \in [Nodes -> Seq(Nat)] /\ arrived \in [Nodes -> Seq(Nat)]
        /\ \A n \in Nodes : rf[n] = <<>> /\ arrived[n] = <<>> /\ written[n] = 0
    BY DEF Init
  <2>3. \A n \in Nodes : Len(rf[n]) <= RFSize /\ Len(arrived[n]) - written[n] \in 0 .. WriteSize
    BY <2>2, MediumAssumption
  <2>4. links \in maps /\ maps \subseteq SUBSET Pairs
    BY MediumAssumption DEF Init
  <2>5. /\ life = "STARTING" /\ gateway \in [Nodes -> {"RUNNING", "FAILED"}]
        /\ worker \in [Nodes -> {"none", "get", "sending", "dead"}]
        /\ written \in [Nodes -> Nat] /\ overflow \in BOOLEAN /\ edits \in Nat
    BY DEF Init
  <2> QED BY <1>1, <2>1, <2>2, <2>3, <2>4, <2>5 DEF TypeOK
<1>3. \A n \in Nodes : rf[n] = <<>> /\ arrived[n] = <<>>
  BY DEF Init
<1>4. \A n \in Nodes : Queued(n) /\ Arrived(n)
  BY <1>3 DEF Queued, Arrived
<1>5. ByLife /\ LossIsFailure
  BY <1>1 DEF Init, ByLife, LossIsFailure
<1>6. FramesInOrder
  BY <1>3 DEF FramesInOrder
<1> QED BY <1>1, <1>2, <1>4, <1>5, <1>6 DEF IInv

\* Every step keeps the invariant.
LEMMA InvariantStep == IInv /\ [Next]_vars => IInv'
<1> SUFFICES ASSUME IInv, [Next]_vars PROVE IInv'
  OBVIOUS
<1>1. CASE UNCHANGED vars
  <2>1. TypeOK'
    BY <1>1 DEF vars, IInv, TypeOK, Frames
  <2>2. ByLife'
    BY <1>1 DEF vars, IInv, ByLife, Frames
  <2>3. LossIsFailure'
    BY <1>1 DEF vars, IInv, LossIsFailure, Failed
  <2> QED BY <1>1, <2>1, <2>2, <2>3, QuietStep DEF vars, IInv, Injecting
<1>2. CASE Next
  BY <1>2, WriteStep, LifeStep, SentStep, EmitStep, TransmitStep, InjectStep,
     StopStep DEF Next
<1> QED BY <1>1, <1>2

\* The invariant holds in every behaviour of the medium.
THEOREM MediumInvariant == Spec => []IInv
<1> QED BY InvariantInit, InvariantStep, PTL DEF Spec

\* Every variable of the medium and its gateways keeps its type, and both queues
\* of a gateway their limits.
THEOREM MediumTypes == Spec => []TypeOK
<1>1. IInv => TypeOK
  BY DEF IInv
<1> QED BY <1>1, MediumInvariant, PTL

\* transmit: the receivers of a frame that is through are a row of one link map
\* that was in force, whatever edits fell between its injections.
THEOREM FanOutIsAtomic == Spec => []FanOutIsOneTopology
<1>1. ASSUME IInv PROVE FanOutIsOneTopology
  <2> SUFFICES ASSUME NEW f \in Frames, Settled(f)
               PROVE  \E T \in maps :
                        Row(T, sender[f]) = {r \in Nodes : outcome[f][r] = "injected"}
    BY DEF FanOutIsOneTopology
  <2>1. sender[f] \in Nodes /\ links \in maps /\ \A T \in maps : T \subseteq Pairs
    BY <1>1, Domains DEF IInv, TypeOK
  <2>2. \A T \in maps : sender[f] \notin Row(T, sender[f]) /\ Row(T, sender[f]) \subseteq Nodes
    BY <2>1 DEF Row, Pairs
  <2>3. \A r \in Nodes : r # sender[f] => outcome[f][r] \in {"injected", "dropped"}
    BY DEF Settled
  <2>4. CASE \A r \in Nodes : outcome[f][r] = "none"
    <3>1. \A r \in Nodes : r = sender[f]
      BY <2>3, <2>4
    <3>2. Row(links, sender[f]) = {}
      BY <2>1, <2>2, <3>1
    <3>3. {r \in Nodes : outcome[f][r] = "injected"} = {}
      BY <2>4
    <3> QED BY <2>1, <3>2, <3>3
  <2>5. ASSUME NEW T \in maps,
               \A r \in Nodes :
                 /\ outcome[f][r] = "none" <=> r = sender[f]
                 /\ outcome[f][r] = "dropped" <=> r # sender[f] /\ r \notin Row(T, sender[f])
        PROVE  Row(T, sender[f]) = {r \in Nodes : outcome[f][r] = "injected"}
    <3>1. ASSUME NEW r \in Nodes
          PROVE  r \in Row(T, sender[f]) <=> outcome[f][r] = "injected"
      BY <2>2, <2>3, <2>5
    <3> QED BY <2>2, <3>1
  <2>6. OneMap(f)
    BY <1>1 DEF IInv
  <2> QED BY <2>4, <2>5, <2>6 DEF OneMap
<1> QED BY <1>1, MediumInvariant, PTL

\* _node_loop and _inject: a receiver gets the frames of one transmitter in the
\* order of their emission, and none twice.
THEOREM FramesArriveInOrder == Spec => []FramesInOrder
<1>1. IInv => FramesInOrder
  BY DEF IInv
<1> QED BY <1>1, MediumInvariant, PTL

\* _schedule_runtime_failure: while the simulator is UP no frame was lost to a full
\* queue, and a refused one is about to be reported.
THEOREM LossesAreReported == Spec => []LossIsFailure
<1>1. IInv => LossIsFailure
  BY DEF IInv
<1> QED BY <1>1, MediumInvariant, PTL

\* DirectedMedium.stop: once the medium is stopped, no step hands a gateway a frame.
THEOREM StoppedMediumIsQuiet == Spec => QuietAfterStop
<1>1. IInv /\ [Next]_vars => [life = "STOPPED" => UNCHANGED arrived]_vars
  <2> SUFFICES ASSUME IInv, Next, life = "STOPPED" PROVE arrived' = arrived
    OBVIOUS
  <2>1. tasks = {}
    BY DEF IInv, ByLife
  <2> QED BY <2>1 DEF Next, Emit, Write, GatewayFails, Transmit, Sent, ApplyLinks,
             UpdateLink,
                      Install, StartMedium, StopRequested, StopMedium
<1> QED BY <1>1, MediumInvariant, PTL DEF Spec, QuietAfterStop
=============================================================================
