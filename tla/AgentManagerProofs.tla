------------------------- MODULE AgentManagerProofs -------------------------
(***************************************************************************)
(* The manager's inductive invariant, for every number of agents, actors   *)
(* and requests.                                                           *)
(***************************************************************************)
EXTENDS AgentManager, TLAPS

\* A step that only moves requests, none of which begins or ends a shutdown
\* except of actors that have stopped, keeps what is said of actors.
LEMMA JobsOnly ==
    ASSUME ManagerInv, UNCHANGED <<address, actor, lost>>,
           \A i \in Actors : Live(i) => (BeingShutDown(i) <=> BeingShutDown(i)')
    PROVE  LiveIsReachable' /\ MappedIsLive'
  BY DEF ManagerInv, ManagerTypeOK, LiveIsReachable, MappedIsLive, Live

\* The initial states satisfy the invariant.
LEMMA InitInv == ManagerInit => ManagerInv
  <1> SUFFICES ASSUME ManagerInit PROVE ManagerInv
    OBVIOUS
  <1>1. ManagerTypeOK
    BY ManagerAssumption DEF ManagerInit, ManagerTypeOK, Instance, Unborn, Request,
                             IdleJob, NoAsks, Scan
  <1>2. LiveIsReachable /\ MappedIsLive
    BY DEF ManagerInit, LiveIsReachable, MappedIsLive, Live, Unborn
  <1>3. OlderIsSettled
    BY DEF ManagerInit, OlderIsSettled, IdleJob
  <1> QED BY <1>1, <1>2, <1>3 DEF ManagerInv

\* A request that becomes idle, or whose shutdown is over, disturbs nothing.
LEMMA JobEnds ==
    ASSUME ManagerInv, NEW j \in Jobs, NEW r \in Request,
           job' = [job EXCEPT ![j] = r],
           UNCHANGED <<address, actor, lost>>,
           job[j].pc # "shutdown" \/ Released(j),
           \/ r.pc \in {"idle", "ask", "start"}
           \/ /\ r.pc = "erase" /\ job[j].pc = "shutdown"
              /\ r.older = job[j].older /\ r.target = job[j].target
    PROVE  LiveIsReachable' /\ MappedIsLive' /\ OlderIsSettled'
  <1> USE DEF ManagerInv
  <1>1. job \in [Jobs -> Request] /\ NoActor \notin Actors
    BY ManagerAssumption DEF ManagerTypeOK
  <1>2. /\ job'[j] = r
        /\ \A k \in Jobs \ {j} : job'[k] = job[k]
    BY <1>1
  <1>3. \A i \in Actors : Live(i) => (BeingShutDown(i) <=> BeingShutDown(i)')
    <2>0. \A i \in Actors : BeingShutDown(i)' => BeingShutDown(i)
      BY <1>2 DEF BeingShutDown
    <2> SUFFICES ASSUME NEW i \in Actors, Live(i), BeingShutDown(i)
                 PROVE  BeingShutDown(i)'
      BY <2>0
    <2>1. PICK k \in Jobs : job[k].pc = "shutdown" /\ job[k].target = i
      BY DEF BeingShutDown
    <2>2. k # j
      BY <2>1, <1>1 DEF Released, Live
    <2> QED BY <2>1, <2>2, <1>2 DEF BeingShutDown
  <1>4. OlderIsSettled'
    <2>0. \A k \in Jobs : job'[k].pc \in {"shutdown", "erase"} =>
             job'[k].target \in job'[k].older \cup {NoActor}
      BY <1>2 DEF OlderIsSettled
    <2> SUFFICES ASSUME NEW k \in Jobs, job'[k].pc \in {"shutdown", "erase"},
                        NEW i \in job'[k].older
                 PROVE  /\ actor'[i].life # "unborn"
                        /\ (~Live(i) \/ i \in lost \/ BeingShutDown(i))'
      BY <2>0 DEF OlderIsSettled
    <2>1. job[k].pc \in {"shutdown", "erase"} /\ i \in job[k].older /\ i \in Actors
      BY <1>1, <1>2 DEF Request
    <2>2. /\ actor[i].life # "unborn"
          /\ ~Live(i) \/ i \in lost \/ BeingShutDown(i)
      BY <2>1 DEF OlderIsSettled
    <2> QED BY <2>1, <2>2, <1>3 DEF Live
  <1> QED BY <1>3, <1>4, JobsOnly

\* An actor that is created for an agent the map does not name.
LEMMA StartKeeps ==
    ASSUME ManagerInv, NEW a \in Agents, Start(a), UNCHANGED lost,
           \/ UNCHANGED job
           \/ \E j \in Jobs : job[j].pc = "start" /\ job' = [job EXCEPT ![j] = IdleJob]
    PROVE  /\ LiveIsReachable' /\ MappedIsLive' /\ OlderIsSettled'
           /\ address' \in [Agents -> Actors \cup {NoActor}]
           /\ actor' \in [Actors -> Instance]
           /\ \A i \in Actors : actor'[i].life = "unborn" \/ actor'[i].agent \in Agents
  <1> USE DEF ManagerInv
  <1>0. /\ actor \in [Actors -> Instance] /\ job \in [Jobs -> Request]
        /\ address \in [Agents -> Actors \cup {NoActor}]
        /\ NoActor \notin Actors
    BY ManagerAssumption DEF ManagerTypeOK
  <1>a. \A k \in Jobs : job'[k] = job[k] \/ (job[k].pc = "start" /\ job'[k].pc = "idle")
    BY <1>0 DEF IdleJob
  <1>b. \A i \in Actors : BeingShutDown(i)' <=> BeingShutDown(i)
    BY <1>a DEF BeingShutDown
  <1>1. CASE UNCHANGED <<address, actor>>
    <2>1. LiveIsReachable' /\ MappedIsLive'
      BY <1>0, <1>1, <1>b DEF LiveIsReachable, MappedIsLive, Live
    <2>2. OlderIsSettled'
      BY <1>0, <1>1, <1>a, <1>b DEF OlderIsSettled, Live, Request
    <2> QED BY <1>0, <1>1, <2>1, <2>2 DEF ManagerTypeOK
  <1>2. CASE address[a] = NoActor /\ ~UNCHANGED <<address, actor>>
    <2>1. PICK i \in Actors :
            /\ actor[i].life = "unborn"
            /\ actor' = [actor EXCEPT ![i] = [agent |-> a, life |-> "starting"]]
            /\ address' = [address EXCEPT ![a] = i]
      BY <1>2 DEF Start
    <2>2. /\ \A k \in Actors \ {i} : actor'[k] = actor[k]
          /\ actor'[i].agent = a /\ actor'[i].life = "starting"
          /\ \A b \in Agents \ {a} : address'[b] = address[b]
          /\ address'[a] = i
      BY <2>1, <1>0
    <2>3. LiveIsReachable'
      <3> SUFFICES ASSUME NEW k \in Actors, Live(k)'
                   PROVE  (address[actor[k].agent] = k \/ BeingShutDown(k) \/ k \in lost)'
        BY DEF LiveIsReachable
      <3>1. CASE k = i
        BY <3>1, <2>2
      <3>2. CASE k # i
        <4>1. actor'[k] = actor[k] /\ Live(k)
          BY <3>2, <2>2 DEF Live
        <4>2. address[actor[k].agent] = k \/ BeingShutDown(k) \/ k \in lost
          BY <4>1 DEF LiveIsReachable
        <4>3. address[actor[k].agent] = k => address'[actor[k].agent] = k
          BY <2>1, <1>0, <1>2
        <4> QED BY <4>1, <4>2, <4>3, <1>b
      <3> QED BY <3>1, <3>2
    <2>4. MappedIsLive'
      <3>1. ~BeingShutDown(i)
        BY <2>1, <1>0 DEF OlderIsSettled, BeingShutDown
      <3> QED BY <2>1, <2>2, <3>1, <1>0, <1>2, <1>b DEF MappedIsLive, Live
    <2>5. OlderIsSettled'
      BY <2>1, <2>2, <1>0, <1>a, <1>b DEF OlderIsSettled, Live, Request
    <2>6. /\ address' \in [Agents -> Actors \cup {NoActor}]
          /\ actor' \in [Actors -> Instance]
      BY <2>1, <1>0 DEF Instance
    <2>7. \A k \in Actors : actor'[k].life = "unborn" \/ actor'[k].agent \in Agents
      BY <2>2 DEF ManagerTypeOK
    <2> QED BY <2>3, <2>4, <2>5, <2>6, <2>7
  <1> QED BY <1>1, <1>2 DEF Start

\* A stop or a deletion takes its actor out of the map and waits for it.
LEMMA ReleaseKeeps ==
    ASSUME ManagerInv, NEW j \in Jobs, NEW a \in Agents,
           NEW kind \in {"stop", "delete"}, NEW owner \in BOOLEAN,
           Release(j, a, kind, owner)
    PROVE  ManagerInv'
  <1> USE DEF ManagerInv
  <1>0. /\ actor \in [Actors -> Instance] /\ job \in [Jobs -> Request]
        /\ address \in [Agents -> Actors \cup {NoActor}]
        /\ NoActor \notin Actors
    BY ManagerAssumption DEF ManagerTypeOK
  <1> DEFINE new == [IdleJob EXCEPT !.pc = "shutdown", !.kind = kind, !.agent = a,
                                    !.target = address[a], !.owner = owner,
                                    !.older = ActorsOf(a)]
  <1>1. new \in Request
    BY <1>0 DEF Request, IdleJob, NoAsks, ActorsOf
  <1>2. PICK r \in Request : r = new
    BY <1>1
  <1>3. /\ r.pc = "shutdown" /\ r.agent = a /\ r.target = address[a]
        /\ r.older = ActorsOf(a)
    BY <1>2 DEF IdleJob
  <1>4. /\ job[j].pc = "idle" /\ job' = [job EXCEPT ![j] = r]
        /\ address' = [address EXCEPT ![a] = NoActor]
        /\ UNCHANGED <<row, actor, scan, lost, mishaps>>
    BY <1>2 DEF Release
  <1>5. /\ job'[j] = r
        /\ \A k \in Jobs \ {j} : job'[k] = job[k]
        /\ address'[a] = NoActor
        /\ \A b \in Agents \ {a} : address'[b] = address[b]
    BY <1>0, <1>4
  <1>6. ManagerTypeOK'
    BY <1>0, <1>3, <1>4, <1>5 DEF ManagerTypeOK, Instance
  <1>7. \A i \in Actors : BeingShutDown(i) => BeingShutDown(i)'
    BY <1>4, <1>5 DEF BeingShutDown
  <1>8. \A i \in Actors : address[a] = i => BeingShutDown(i)'
    BY <1>3, <1>5 DEF BeingShutDown
  <1>9. LiveIsReachable'
    <2> SUFFICES ASSUME NEW i \in Actors, Live(i)
                 PROVE  address'[actor[i].agent] = i \/ BeingShutDown(i)' \/ i \in lost
      BY <1>4 DEF LiveIsReachable, Live
    <2>1. address[actor[i].agent] = i \/ BeingShutDown(i) \/ i \in lost
      BY DEF LiveIsReachable
    <2>2. CASE address[actor[i].agent] = i
      <3>1. actor[i].agent \in Agents \cup {NoAgent}
        BY <1>0 DEF Instance
      <3>2. CASE actor[i].agent = a
        BY <2>2, <3>2, <1>8
      <3>3. CASE actor[i].agent # a
        BY <2>2, <3>3, <1>0, <1>4
      <3> QED BY <3>2, <3>3
    <2> QED BY <2>1, <2>2, <1>7
  <1>10. MappedIsLive'
    <2> SUFFICES ASSUME NEW b \in Agents, address'[b] # NoActor
                 PROVE  /\ Live(address[b])' /\ actor'[address'[b]].agent = b
                        /\ ~BeingShutDown(address[b])'
      BY DEF MappedIsLive
    <2>1. b # a /\ address'[b] = address[b]
      BY <1>5
    <2>2. /\ Live(address[b]) /\ actor[address[b]].agent = b
          /\ ~BeingShutDown(address[b])
      BY <2>1 DEF MappedIsLive
    <2>3. address[b] # address[a]
      BY <2>1, <2>2 DEF MappedIsLive
    <2> QED BY <2>1, <2>2, <2>3, <1>3, <1>4, <1>5 DEF Live, BeingShutDown
  <1>11. OlderIsSettled'
    <2>0. \A k \in Jobs : job'[k].pc \in {"shutdown", "erase"} =>
             job'[k].target \in job'[k].older \cup {NoActor}
      <3>1. address[a] # NoActor => address[a] \in ActorsOf(a)
        BY <1>0 DEF MappedIsLive, ActorsOf
      <3> QED BY <3>1, <1>3, <1>5 DEF OlderIsSettled
    <2> SUFFICES ASSUME NEW k \in Jobs, job'[k].pc \in {"shutdown", "erase"},
                        NEW i \in job'[k].older
                 PROVE  /\ actor'[i].life # "unborn"
                        /\ (~Live(i) \/ i \in lost \/ BeingShutDown(i))'
      BY <2>0 DEF OlderIsSettled
    <2>1. CASE k = j
      <3>1. i \in Actors /\ Live(i) /\ actor[i].agent = a
        BY <2>1, <1>3, <1>5 DEF ActorsOf
      <3>2. address[a] = i \/ BeingShutDown(i) \/ i \in lost
        BY <3>1 DEF LiveIsReachable
      <3> QED BY <3>1, <3>2, <1>4, <1>7, <1>8 DEF Live
    <2>2. CASE k # j
      <3>1. /\ job[k].pc \in {"shutdown", "erase"} /\ i \in job[k].older
            /\ i \in Actors
        BY <2>2, <1>0, <1>5 DEF Request
      <3> QED BY <3>1, <1>4, <1>7 DEF OlderIsSettled, Live
    <2> QED BY <2>1, <2>2
  <1> QED BY <1>6, <1>9, <1>10, <1>11

\* The scan gives every agent it found a fresh actor and a new address.
LEMMA ScanKeeps == ManagerInv /\ ScanResume => ManagerInv'
  <1> SUFFICES ASSUME ManagerInv, ScanResume PROVE ManagerInv'
    OBVIOUS
  <1> USE DEF ManagerInv
  <1>0. /\ actor \in [Actors -> Instance] /\ job \in [Jobs -> Request]
        /\ address \in [Agents -> Actors \cup {NoActor}]
        /\ NoActor \notin Actors /\ scan.found \subseteq Agents
        /\ NoAgent \notin Agents
    BY ManagerAssumption DEF ManagerTypeOK, Scan
  <1> DEFINE owner(f, i) == CHOOSE a \in scan.found : f[a] = i
  <1>1. PICK f \in [scan.found -> {i \in Actors : actor[i].life = "unborn"}] :
          /\ \A a, b \in scan.found : a # b => f[a] # f[b]
          /\ actor' = [i \in Actors |->
                         IF \E a \in scan.found : f[a] = i
                         THEN [agent |-> owner(f, i), life |-> "starting"]
                         ELSE actor[i]]
          /\ address' = [a \in Agents |->
                           IF a \in scan.found THEN f[a] ELSE address[a]]
    BY DEF ScanResume
  <1>2. /\ lost' = lost \cup {address[a] : a \in {b \in scan.found : address[b] # NoActor}}
        /\ scan' = [pc |-> "done", found |-> {}]
        /\ UNCHANGED <<row, job, mishaps>>
    BY DEF ScanResume
  <1>3. \A a \in scan.found : /\ f[a] \in Actors /\ actor[f[a]].life = "unborn"
                             /\ address'[a] = f[a]
                             /\ actor'[f[a]].agent = a
                             /\ actor'[f[a]].life = "starting"
    <2> SUFFICES ASSUME NEW a \in scan.found
                 PROVE  /\ f[a] \in Actors /\ actor[f[a]].life = "unborn"
                        /\ address'[a] = f[a]
                        /\ actor'[f[a]].agent = a
                        /\ actor'[f[a]].life = "starting"
      OBVIOUS
    <2>1. f[a] \in Actors /\ actor[f[a]].life = "unborn" /\ address'[a] = f[a]
      BY <1>0, <1>1
    <2>2. owner(f, f[a]) \in scan.found /\ f[owner(f, f[a])] = f[a]
      OBVIOUS
    <2>3. owner(f, f[a]) = a
      BY <1>1, <2>2
    <2>4. actor'[f[a]] = [agent |-> owner(f, f[a]), life |-> "starting"]
      BY <1>1, <2>1
    <2> QED BY <2>1, <2>3, <2>4
  <1>4. \A i \in Actors : (\A a \in scan.found : f[a] # i) => actor'[i] = actor[i]
    BY <1>1
  <1>5. \A a \in Agents \ scan.found : address'[a] = address[a]
    BY <1>1
  <1>6. \A a \in scan.found : address[a] # NoActor => address[a] \in lost'
    BY <1>2
  <1>7. ManagerTypeOK'
    <2>1. actor' \in [Actors -> Instance]
      <3> SUFFICES ASSUME NEW i \in Actors PROVE actor'[i] \in Instance
        BY <1>1
      <3>1. CASE \E a \in scan.found : f[a] = i
        <4>1. owner(f, i) \in Agents
          BY <3>1, <1>0
        <4>2. actor'[i] = [agent |-> owner(f, i), life |-> "starting"]
          BY <3>1, <1>1
        <4> QED BY <4>1, <4>2 DEF Instance
      <3>2. CASE ~\E a \in scan.found : f[a] = i
        BY <3>2, <1>4, <1>0
      <3> QED BY <3>1, <3>2
    <2>2. address' \in [Agents -> Actors \cup {NoActor}]
      BY <1>1, <1>0
    <2>3. lost' \subseteq Actors
      BY <1>2, <1>0 DEF ManagerTypeOK
    <2>4. \A i \in Actors : actor'[i].life = "unborn" \/ actor'[i].agent \in Agents
      BY <1>0, <1>3, <1>4 DEF ManagerTypeOK
    <2> QED BY <2>1, <2>2, <2>3, <2>4, <1>2 DEF ManagerTypeOK, Scan
  <1>8. LiveIsReachable'
    <2> SUFFICES ASSUME NEW i \in Actors, Live(i)'
                 PROVE  (address[actor[i].agent] = i \/ BeingShutDown(i) \/ i \in lost)'
      BY DEF LiveIsReachable
    <2>1. CASE \E a \in scan.found : f[a] = i
      BY <2>1, <1>3
    <2>2. CASE ~\E a \in scan.found : f[a] = i
      <3>1. actor'[i] = actor[i] /\ Live(i)
        BY <2>2, <1>4 DEF Live
      <3>2. address[actor[i].agent] = i \/ BeingShutDown(i) \/ i \in lost
        BY <3>1 DEF LiveIsReachable
      <3>3. actor[i].agent \in Agents \cup {NoAgent}
        BY <1>0 DEF Instance
      <3>4. CASE actor[i].agent \in scan.found
        BY <3>1, <3>2, <3>4, <1>0, <1>2, <1>6 DEF BeingShutDown
      <3>5. CASE actor[i].agent \in Agents \ scan.found
        BY <3>1, <3>2, <3>5, <1>2, <1>5 DEF BeingShutDown
      <3>6. CASE actor[i].agent = NoAgent
        BY <3>1, <3>6, <1>0 DEF ManagerTypeOK, Live
      <3> QED BY <3>3, <3>4, <3>5, <3>6
    <2> QED BY <2>1, <2>2
  <1>9. MappedIsLive'
    <2> SUFFICES ASSUME NEW a \in Agents, address'[a] # NoActor
                 PROVE  /\ Live(address[a])' /\ actor'[address'[a]].agent = a
                        /\ ~BeingShutDown(address[a])'
      BY DEF MappedIsLive
    <2>1. CASE a \in scan.found
      <3>1. ~BeingShutDown(f[a])
        BY <2>1, <1>0, <1>3 DEF OlderIsSettled, BeingShutDown
      <3> QED BY <2>1, <3>1, <1>2, <1>3 DEF Live, BeingShutDown
    <2>2. CASE a \notin scan.found
      <3>1. address'[a] = address[a] /\ address[a] \in Actors
        BY <2>2, <1>0, <1>5
      <3>2. /\ Live(address[a]) /\ actor[address[a]].agent = a
            /\ ~BeingShutDown(address[a])
        BY <3>1 DEF MappedIsLive
      <3>3. actor'[address[a]] = actor[address[a]]
        BY <3>1, <3>2, <1>3, <1>4 DEF Live
      <3> QED BY <3>1, <3>2, <3>3, <1>2 DEF Live, BeingShutDown
    <2> QED BY <2>1, <2>2
  <1>10. OlderIsSettled'
    <2> SUFFICES ASSUME NEW k \in Jobs, job[k].pc \in {"shutdown", "erase"},
                        NEW i \in job[k].older
                 PROVE  /\ actor'[i].life # "unborn"
                        /\ (~Live(i) \/ i \in lost \/ BeingShutDown(i))'
      BY <1>2 DEF OlderIsSettled
    <2>1. i \in Actors
      BY <1>0 DEF Request
    <2>2. /\ actor[i].life # "unborn"
          /\ ~Live(i) \/ i \in lost \/ BeingShutDown(i)
      BY DEF OlderIsSettled
    <2>3. actor'[i] = actor[i]
      BY <2>1, <2>2, <1>3, <1>4
    <2> QED BY <2>2, <2>3, <1>2 DEF Live, BeingShutDown
  <1> QED BY <1>7, <1>8, <1>9, <1>10

\* Every step keeps the invariant.
LEMMA NextInv == ManagerInv /\ [ManagerNext]_mgrVars => ManagerInv'
  <1> SUFFICES ASSUME ManagerInv, [ManagerNext]_mgrVars PROVE ManagerInv'
    OBVIOUS
  <1> USE DEF ManagerInv
  <1>0. /\ actor \in [Actors -> Instance] /\ job \in [Jobs -> Request]
        /\ address \in [Agents -> Actors \cup {NoActor}]
        /\ row \in [Agents -> {"unborn", "present", "gone"}]
        /\ IdleJob \in Request
        /\ NoActor \notin Actors /\ MaxMishaps \in Nat
    BY ManagerAssumption DEF ManagerTypeOK, Request, IdleJob, NoAsks
  <1>1. ASSUME ScanQuery \/ ScanFails PROVE ManagerInv'
    <2>1. UNCHANGED <<row, address, actor, job, lost>>
      BY <1>1 DEF ScanQuery, ScanFails
    <2>2. ManagerTypeOK'
      BY <1>1, <1>0, <2>1 DEF ManagerTypeOK, Scan, ScanQuery, ScanFails
    <2> QED BY <2>1, <2>2 DEF LiveIsReachable, MappedIsLive, OlderIsSettled, Live,
                              BeingShutDown
  <1>2. CASE ScanResume
    BY <1>2, ScanKeeps
  <1>3. ASSUME NEW a \in Agents, CreateAgent(a) \/ DeleteWorkspace(a)
        PROVE  ManagerInv'
    <2>1. UNCHANGED <<address, actor, job, scan, lost, mishaps>>
      BY <1>3 DEF CreateAgent, DeleteWorkspace
    <2>2. ManagerTypeOK'
      BY <1>3, <1>0, <2>1 DEF ManagerTypeOK, CreateAgent, DeleteWorkspace
    <2> QED BY <2>1, <2>2 DEF LiveIsReachable, MappedIsLive, OlderIsSettled, Live,
                              BeingShutDown
  <1>4. ASSUME NEW a \in Agents, StartAgent(a) PROVE ManagerInv'
    <2>1. Start(a) /\ UNCHANGED <<row, job, scan, lost, mishaps>>
      BY <1>4 DEF StartAgent
    <2>2. /\ LiveIsReachable' /\ MappedIsLive' /\ OlderIsSettled'
          /\ address' \in [Agents -> Actors \cup {NoActor}]
          /\ actor' \in [Actors -> Instance]
          /\ \A i \in Actors : actor'[i].life = "unborn" \/ actor'[i].agent \in Agents
      BY <2>1, StartKeeps
    <2> QED BY <2>1, <2>2 DEF ManagerTypeOK
  <1>5. ASSUME NEW j \in Jobs, NEW a \in Agents,
               \/ StopAgent(j, a)
               \/ DeleteAgent(j, a, TRUE) \/ DeleteAgent(j, a, FALSE)
        PROVE  ManagerInv'
    BY <1>5, ReleaseKeeps DEF StopAgent, DeleteAgent
  <1>6. ASSUME NEW j \in Jobs, NEW r \in Request,
               job' = [job EXCEPT ![j] = r],
               r.pc = "start" => r.agent \in Agents,
               r.pc = "erase" => r.agent \in Agents,
               r.pc # "shutdown",
               row' \in [Agents -> {"unborn", "present", "gone"}],
               mishaps' \in 0..MaxMishaps,
               UNCHANGED <<address, actor, scan, lost>>
        PROVE  ManagerTypeOK'
    BY <1>0, <1>6 DEF ManagerTypeOK
  <1>7. ASSUME NEW j \in Jobs, StopReturns(j) \/ DeleteErases(j) \/ DeleteFails(j)
        PROVE  ManagerInv'
    <2>1. /\ job' = [job EXCEPT ![j] = IdleJob]
          /\ UNCHANGED <<address, actor, scan, lost>>
          /\ job[j].pc # "shutdown" \/ Released(j)
          /\ row' \in [Agents -> {"unborn", "present", "gone"}]
          /\ mishaps' \in 0..MaxMishaps
      BY <1>7, <1>0 DEF StopReturns, DeleteErases, DeleteFails, ManagerTypeOK
    <2>2. IdleJob.pc = "idle"
      BY DEF IdleJob
    <2> QED BY <2>1, <2>2, <1>0, <1>6, JobEnds
  <1>8. ASSUME NEW j \in Jobs, DeleteReleased(j) PROVE ManagerInv'
    <2>1. PICK r \in Request : r = [job[j] EXCEPT !.pc = "erase"]
      BY <1>0 DEF Request
    <2>2. /\ job' = [job EXCEPT ![j] = r]
          /\ r.pc = "erase" /\ r.older = job[j].older /\ r.agent = job[j].agent
          /\ r.target = job[j].target
          /\ job[j].pc = "shutdown" /\ Released(j)
          /\ UNCHANGED <<row, address, actor, scan, lost, mishaps>>
      BY <1>8, <1>0, <2>1 DEF DeleteReleased, Request
    <2>3. r.agent \in Agents
      BY <2>2 DEF ManagerTypeOK
    <2>4. ManagerTypeOK'
      BY <2>1, <2>2, <2>3, <1>6 DEF ManagerTypeOK
    <2> QED BY <2>1, <2>2, <2>4, JobEnds
  <1>9. ASSUME NEW j \in Jobs,
               \/ CheckAvailableAgent(j) \/ (\E a \in Agents : AskAgent(j, a))
               \/ PickFromTable(j)
        PROVE  ManagerInv'
    <2>1. \E r \in Request :
            /\ job' = [job EXCEPT ![j] = r]
            /\ r.pc \in {"idle", "ask", "start"}
            /\ r.pc = "start" => r.agent \in Agents
      <3>1. CASE CheckAvailableAgent(j)
        <4> DEFINE r == [IdleJob EXCEPT !.pc = "ask", !.kind = "pick", !.asks = address]
        <4>1. r \in Request /\ r.pc = "ask"
          BY <1>0 DEF Request, IdleJob
        <4> QED BY <3>1, <4>1 DEF CheckAvailableAgent
      <3>2. CASE \E a \in Agents : AskAgent(j, a)
        <4>1. PICK a \in Agents : AskAgent(j, a)
          BY <3>2
        <4> DEFINE r == [IdleJob EXCEPT !.pc = "start", !.kind = "pick", !.agent = a]
                   q == [job[j] EXCEPT !.asks[a] = NoActor]
        <4>2. r \in Request /\ r.pc = "start" /\ r.agent = a
          BY <1>0 DEF Request, IdleJob, NoAsks
        <4>3. q \in Request /\ q.pc = job[j].pc
          BY <1>0 DEF Request
        <4>4. job' = [job EXCEPT ![j] = r] \/ job' = [job EXCEPT ![j] = q]
          BY <4>1, <1>0 DEF AskAgent
        <4>5. job[j].pc = "ask"
          BY <4>1 DEF AskAgent
        <4> QED BY <4>2, <4>3, <4>4, <4>5
      <3>3. CASE PickFromTable(j)
        <4>1. CASE job' = [job EXCEPT ![j] = IdleJob]
          BY <4>1, <1>0 DEF IdleJob
        <4>2. CASE \E a \in Agents : job' = [job EXCEPT ![j].pc = "start", ![j].agent = a]
          <5>1. PICK a \in Agents : job' = [job EXCEPT ![j].pc = "start", ![j].agent = a]
            BY <4>2
          <5> DEFINE r == [job[j] EXCEPT !.pc = "start", !.agent = a]
          <5>2. r \in Request /\ r.pc = "start" /\ r.agent = a
            BY <1>0 DEF Request
          <5>3. job' = [job EXCEPT ![j] = r]
            BY <5>1, <1>0
          <5> QED BY <5>2, <5>3
        <4> QED BY <3>3, <4>1, <4>2 DEF PickFromTable
      <3> QED BY <1>9, <3>1, <3>2, <3>3
    <2>2. PICK r \in Request :
            /\ job' = [job EXCEPT ![j] = r]
            /\ r.pc \in {"idle", "ask", "start"}
            /\ r.pc = "start" => r.agent \in Agents
      BY <2>1
    <2>3. /\ job[j].pc # "shutdown"
          /\ UNCHANGED <<row, address, actor, scan, lost, mishaps>>
      BY ONLY <1>9 DEF CheckAvailableAgent, AskAgent, PickFromTable
    <2>4. ManagerTypeOK'
      <3>1. /\ row' \in [Agents -> {"unborn", "present", "gone"}]
            /\ mishaps' \in 0..MaxMishaps
        BY <2>3 DEF ManagerTypeOK
      <3>2. /\ r.pc # "shutdown"
            /\ r.pc = "erase" => r.agent \in Agents
        BY <2>2
      <3> QED BY <2>2, <2>3, <3>1, <3>2, <1>6
    <2> QED BY <2>2, <2>3, <2>4, JobEnds
  <1>10. ASSUME NEW j \in Jobs, StartPicked(j) PROVE ManagerInv'
    <2>1. /\ job[j].pc = "start" /\ job[j].agent \in Agents
          /\ Start(job[j].agent)
          /\ job' = [job EXCEPT ![j] = IdleJob]
          /\ UNCHANGED <<row, scan, lost, mishaps>>
      BY <1>10 DEF StartPicked, ManagerTypeOK
    <2>2. /\ LiveIsReachable' /\ MappedIsLive' /\ OlderIsSettled'
          /\ address' \in [Agents -> Actors \cup {NoActor}]
          /\ actor' \in [Actors -> Instance]
          /\ \A i \in Actors : actor'[i].life = "unborn" \/ actor'[i].agent \in Agents
      BY <2>1, StartKeeps
    <2>3. /\ job' \in [Jobs -> Request]
          /\ \A k \in Jobs : job'[k].pc \in {"shutdown", "erase", "start"} =>
               job'[k].agent \in Agents
      BY <2>1, <1>0 DEF ManagerTypeOK, IdleJob
    <2> QED BY <2>1, <2>2, <2>3 DEF ManagerTypeOK
  <1>11. ASSUME NEW i \in Actors, Boots(i) \/ ShutdownAgent(i) PROVE ManagerInv'
    <2>1. PICK life \in {"running", "stopped"} :
            /\ actor' = [actor EXCEPT ![i].life = life]
            /\ Live(i)
            /\ life = "stopped" => BeingShutDown(i)
            /\ UNCHANGED <<row, job, scan, lost, mishaps, address>>
      BY <1>11 DEF Boots, ShutdownAgent, Live
    <2>2. /\ \A k \in Actors \ {i} : actor'[k] = actor[k]
          /\ actor'[i].agent = actor[i].agent /\ actor'[i].life = life
      BY <2>1, <1>0
    <2>3. ManagerTypeOK'
      BY <2>1, <2>2, <1>0 DEF ManagerTypeOK, Instance, Live
    <2>4. LiveIsReachable'
      BY <2>1, <2>2 DEF LiveIsReachable, Live, BeingShutDown
    <2>5. MappedIsLive'
      BY <2>1, <2>2, <1>0 DEF MappedIsLive, Live, BeingShutDown
    <2>6. OlderIsSettled'
      BY <2>1, <2>2, <1>0 DEF OlderIsSettled, Live, BeingShutDown, Request
    <2> QED BY <2>3, <2>4, <2>5, <2>6
  <1>12. CASE Restart
    <2>0. /\ address' = [a \in Agents |-> NoActor]
          /\ actor' = [i \in Actors |->
                         IF Live(i) THEN [actor[i] EXCEPT !.life = "stopped"] ELSE actor[i]]
          /\ job' = [j \in Jobs |-> IdleJob]
          /\ scan' = [pc |-> "query", found |-> {}]
          /\ lost' = {} /\ row' = row /\ mishaps' \in 0..MaxMishaps
      BY <1>12, <1>0 DEF Restart, ManagerTypeOK
    <2>1. ASSUME NEW i \in Actors
          PROVE  /\ actor'[i] \in Instance /\ ~Live(i)'
                 /\ actor'[i].life = "unborn" \/ actor'[i].agent \in Agents
      <3>1. actor[i] \in Instance /\ (actor[i].life = "unborn" \/ actor[i].agent \in Agents)
        BY <1>0 DEF ManagerTypeOK
      <3>2. CASE Live(i)
        <4>1. actor'[i] = [actor[i] EXCEPT !.life = "stopped"]
          BY <2>0, <3>2
        <4> QED BY <3>1, <3>2, <4>1 DEF Instance, Live
      <3>3. CASE ~Live(i)
        <4>1. actor'[i] = actor[i]
          BY <2>0, <3>3
        <4> QED BY <3>1, <3>3, <4>1 DEF Live
      <3> QED BY <3>2, <3>3
    <2>2. IdleJob.pc = "idle"
      BY DEF IdleJob
    <2>3. actor' \in [Actors -> Instance]
      BY <2>0, <2>1
    <2>4. ManagerTypeOK'
      BY <1>0, <2>0, <2>1, <2>2, <2>3 DEF ManagerTypeOK, Scan
    <2>5. LiveIsReachable' /\ MappedIsLive' /\ OlderIsSettled'
      BY <2>0, <2>1, <2>2 DEF LiveIsReachable, MappedIsLive, OlderIsSettled
    <2> QED BY <2>4, <2>5
  <1>13. CASE UNCHANGED mgrVars
    BY <1>13 DEF mgrVars, ManagerTypeOK, LiveIsReachable, MappedIsLive, OlderIsSettled,
                 Live, BeingShutDown
  <1> QED BY <1>1, <1>2, <1>3, <1>4, <1>5, <1>7, <1>8, <1>9, <1>10, <1>11, <1>12, <1>13
          DEF ManagerNext, StartUp, Requests, JobSteps

\* What a stop or a deletion relied on gives what it promises at its end.
LEMMA SettledIsEffective == ManagerInv => StopIsEffective
  <1> SUFFICES ASSUME ManagerInv, NEW j \in Jobs,
                      job[j].pc = "erase" \/ (job[j].pc = "shutdown" /\ Released(j)),
                      NEW i \in job[j].older, Live(i), i \notin lost
               PROVE  \E k \in Jobs \ {j} : job[k].pc = "shutdown" /\ job[k].target = i
    BY DEF StopIsEffective
  <1>1. BeingShutDown(i)
    BY DEF ManagerInv, OlderIsSettled
  <1>2. PICK k \in Jobs : job[k].pc = "shutdown" /\ job[k].target = i
    BY <1>1 DEF BeingShutDown
  <1>3. i # NoActor
    BY ManagerAssumption DEF ManagerInv, ManagerTypeOK, Request
  <1>4. k # j
    BY <1>2, <1>3 DEF Released, Live
  <1> QED BY <1>2, <1>4

\* The invariant of the manager: types, the map, and what stops rely on.
THEOREM ManagerInvariant == ManagerSpec => []ManagerInv
  BY InitInv, NextInv, PTL DEF ManagerSpec

\* Every live actor is in the map, waited for, or overwritten by the scan.
THEOREM LiveStaysReachable == ManagerSpec => []LiveIsReachable
  <1>1. ManagerInv => LiveIsReachable
    BY DEF ManagerInv
  <1> QED BY <1>1, ManagerInvariant, PTL

\* StartAgent never reuses an actor that has stopped or has been told to.
THEOREM MappedStaysLive == ManagerSpec => []MappedIsLive
  <1>1. ManagerInv => MappedIsLive
    BY DEF ManagerInv
  <1> QED BY <1>1, ManagerInvariant, PTL

\* A stop or a deletion that is over has stopped the actors it found.
THEOREM StopsAreEffective == ManagerSpec => []StopIsEffective
  BY ManagerInvariant, SettledIsEffective, PTL
=============================================================================
