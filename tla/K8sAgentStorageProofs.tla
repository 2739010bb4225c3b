------------------------ MODULE K8sAgentStorageProofs ------------------------
(* Theorems about the Kubernetes storage, for any agents, handlers, bounds  *)
(* and failures.                                                            *)
EXTENDS K8sAgentStorage, FiniteSetTheorems, TLAPS

------------------------------------------------------------------------------
(* Lemmas on the data.                                                       *)

\* The zero spec is a spec, and the idle records have their types.
LEMMA IdleTypes == /\ ZeroSpec \in Specs
                   /\ IdlePost \in Posts
                   /\ IdleGet \in Gets
  BY DEF ZeroSpec, Specs, IdlePost, Posts, PostPcs, IdleGet, Gets, GetPcs, GetKinds, Statuses

\* A received report is stamped with a time that is not the zero time.
LEMMA StampedType ==
    ASSUME TypeOK, NEW i \in Intervals
    PROVE  Stamped(i) \in AgentSpecs
  BY DEF TypeOK, Stamped, AgentSpecs

\* Purging leaves a map from agents to specs.
LEMMA PurgeType ==
    ASSUME TypeOK, NEW pods, Purge(pods)
    PROVE  /\ DOMAIN cache' \subseteq Agents
           /\ cache' \in [DOMAIN cache' -> Specs]
  BY DEF TypeOK, Purge

\* Putting an entry leaves a map from agents to specs.
LEMMA PutType ==
    ASSUME TypeOK, NEW a \in Agents, NEW s \in Specs, Put(a, s)
    PROVE  /\ DOMAIN cache' \subseteq Agents
           /\ cache' \in [DOMAIN cache' -> Specs]
  BY DEF TypeOK, Put

\* The number of cached agents is a number.
LEMMA CountType == ASSUME TypeOK PROVE Cardinality(DOMAIN cache) \in Nat
  BY AgentsAssumption, FS_Subset, FS_CardinalityType DEF TypeOK

------------------------------------------------------------------------------
(* Types.  A handler that has left "idle" works for an agent, and a reader   *)
(* that will look an agent up has one: without this the types are not        *)
(* inductive, since the store is indexed by these names.                     *)

Working(p) == post[p].pc # "idle" =>
                 post[p].name \in Agents /\ post[p].data \in AgentSpecs

Seeking(r) ==
    /\ get[r].pc \in {"list", "purge"} =>
          /\ get[r].kind \in {"check", "dump", "single"}
          /\ get[r].kind = "single" => get[r].name \in Agents
    /\ get[r].pc \in {"single", "judge"} => get[r].name \in Agents

Named == /\ \A p \in Posters : Working(p)
         /\ \A r \in Readers : Seeking(r)

TypeInv == TypeOK /\ Named

\* The steps of the clock and of the pods keep the types.
LEMMA WorldTypes == ASSUME TypeInv, World PROVE TypeInv'
<1>1. CASE Tick
  BY <1>1, BoundsAssumption DEF Tick, TypeInv, TypeOK, Named, Working, Seeking
<1>2. ASSUME NEW a \in Agents, PodStart(a) \/ PodStop(a) PROVE TypeInv'
  BY <1>2 DEF PodStart, PodStop, TypeInv, TypeOK, Named, Working, Seeking
<1>3. QED
  BY <1>1, <1>2 DEF World

\* The request a handler sends keeps the types, admitted or not.
LEMMA WriteTypes ==
    ASSUME TypeInv, NEW p \in Posters, NEW admitted,
           post[p].pc \in {"create", "update"}, Write(p, admitted)
    PROVE  /\ store' \in [Agents -> [rv : Nat, spec : Specs]]
           /\ accepted' \in [Agents -> SUBSET AgentSpecs]
           /\ post' \in [Posters -> Posts]
           /\ \A q \in Posters : Working(q)'
<1> DEFINE a == post[p].name
<1>1. a \in Agents /\ post[p] \in Posts /\ post[p].data \in AgentSpecs
  BY DEF TypeInv, TypeOK, Named, Seeking, Working
<1>2. ASSUME NEW s \in Specs,
             post' = [post EXCEPT ![p].pc = "cache", ![p].result = s]
      PROVE  post' \in [Posters -> Posts] /\ \A q \in Posters : Working(q)'
  BY <1>1, <1>2 DEF TypeInv, TypeOK, Named, Seeking, Working, Posts, PostPcs
<1>3. post[p].data \in Specs /\ ZeroSpec \in Specs
  BY <1>1, IdleTypes DEF Specs
<1>4. post' \in [Posters -> Posts] /\ \A q \in Posters : Working(q)'
  BY <1>2, <1>3 DEF Write
<1>5. /\ store' \in [Agents -> [rv : Nat, spec : Specs]]
      /\ accepted' \in [Agents -> SUBSET AgentSpecs]
  <2>1. CASE UNCHANGED <<store, accepted>>
    BY <2>1 DEF TypeInv, TypeOK
  <2>2. CASE /\ store' = [store EXCEPT ![a] = [rv |-> store[a].rv + 1,
                                               spec |-> post[p].data]]
             /\ accepted' = [accepted EXCEPT ![a] = @ \cup {post[p].data}]
    <3>1. [rv |-> store[a].rv + 1, spec |-> post[p].data] \in [rv : Nat, spec : Specs]
      BY <1>1, <1>3 DEF TypeInv, TypeOK
    <3>2. store' \in [Agents -> [rv : Nat, spec : Specs]]
      BY <2>2, <3>1 DEF TypeInv, TypeOK
    <3>3. accepted' \in [Agents -> SUBSET AgentSpecs]
      BY <1>1, <2>2 DEF TypeInv, TypeOK
    <3>4. QED
      BY <3>2, <3>3
  <2>3. QED
    BY <2>1, <2>2 DEF Write
<1>6. QED
  BY <1>4, <1>5

\* Every step of a POST handler keeps the types.
LEMMA PostTypes == ASSUME TypeInv, NEW p \in Posters, Post(p) PROVE TypeInv'
<1>0. post[p] \in Posts
  BY DEF TypeInv, TypeOK
<1>1. ASSUME NEW a \in Agents, NEW i \in Intervals, ReceiveReport(p, a, i)
      PROVE  TypeInv'
  <2>1. Stamped(i) \in AgentSpecs
    BY StampedType DEF TypeInv
  <2>2. /\ post' = [q \in Posters |-> IF q = p THEN post'[p] ELSE post[q]]
        /\ post'[p] = [pc |-> "get", name |-> a, data |-> Stamped(i),
                       found |-> post[p].found, rv |-> post[p].rv,
                       pods |-> post[p].pods, result |-> post[p].result]
    <3>1. post \in [Posters -> Posts]
      BY DEF TypeInv, TypeOK
    <3>2. post' = [post EXCEPT ![p].pc = "get", ![p].name = a,
                               ![p].data = Stamped(i)]
      BY <1>1 DEF ReceiveReport
    <3>3. QED
      BY <3>1, <3>2 DEF Posts
  <2>3. post'[p] \in Posts /\ Working(p)'
    BY <1>0, <2>1, <2>2 DEF Working, Posts, PostPcs, Specs
  <2>4. QED
    BY <1>1, <2>2, <2>3 DEF ReceiveReport, TypeInv, TypeOK, Named, Seeking, Working
<1>2. ASSUME GetAgent(p) PROVE TypeInv'
  <2>1. store[post[p].name].rv \in Nat
    BY <1>2 DEF GetAgent, TypeInv, TypeOK, Named, Seeking, Working
  <2>2. CASE post' = [post EXCEPT ![p].pc = "list"]
    BY <1>0, <1>2, <2>2 DEF GetAgent, TypeInv, TypeOK, Named, Seeking, Working, Posts, PostPcs
  <2>3. CASE post' = [post EXCEPT ![p].pc = "update",
                                  ![p].found = store[post[p].name].rv,
                                  ![p].rv = store[post[p].name].rv]
    BY <1>0, <1>2, <2>1, <2>3 DEF GetAgent, TypeInv, TypeOK, Named, Seeking, Working, Posts, PostPcs
  <2>4. CASE post' = [post EXCEPT ![p].pc = "update"]
    BY <1>0, <1>2, <2>4 DEF GetAgent, TypeInv, TypeOK, Named, Seeking, Working, Posts, PostPcs
  <2>5. QED
    BY <1>2, <2>2, <2>3, <2>4 DEF GetAgent
<1>3. ASSUME ListPods(p) PROVE TypeInv'
  <2>1. Pods \subseteq Agents
    BY DEF Pods
  <2>2. CASE post' = [post EXCEPT ![p].pc = "purge", ![p].pods = Pods]
    BY <1>0, <1>3, <2>1, <2>2 DEF ListPods, TypeInv, TypeOK, Named, Seeking, Working, Posts, PostPcs
  <2>3. CASE post' = [post EXCEPT ![p].pc = "create"]
    BY <1>0, <1>3, <2>3 DEF ListPods, TypeInv, TypeOK, Named, Seeking, Working, Posts, PostPcs
  <2>4. QED
    BY <1>3, <2>2, <2>3 DEF ListPods
<1>4. ASSUME PurgeBeforeCreate(p) PROVE TypeInv'
  <2>1. post' \in [Posters -> Posts] /\ \A q \in Posters : Working(q)'
    BY <1>0, <1>4 DEF PurgeBeforeCreate, TypeInv, TypeOK, Named, Seeking, Working, Posts, PostPcs
  <2>2. DOMAIN cache' \subseteq Agents /\ cache' \in [DOMAIN cache' -> Specs]
    BY <1>4, PurgeType DEF PurgeBeforeCreate, TypeInv
  <2>3. QED
    BY <1>4, <2>1, <2>2 DEF PurgeBeforeCreate, TypeInv, TypeOK, Named, Seeking
<1>5. ASSUME CreateAgent(p) PROVE TypeInv'
  BY <1>5, WriteTypes DEF CreateAgent, TypeInv, TypeOK, Named, Seeking
<1>6. ASSUME UpdateAgent(p) PROVE TypeInv'
  BY <1>6, WriteTypes DEF UpdateAgent, TypeInv, TypeOK, Named, Seeking
<1>7. ASSUME CacheReport(p) PROVE TypeInv'
  <2>1. post[p].name \in Agents /\ post[p].result \in Specs
    BY <1>0, <1>7 DEF CacheReport, Return, TypeInv, Named, Working, Posts
  <2>2. DOMAIN cache' \subseteq Agents /\ cache' \in [DOMAIN cache' -> Specs]
    BY <1>7, <2>1, PutType DEF CacheReport, TypeInv
  <2>3. post' \in [Posters -> Posts] /\ \A q \in Posters : Working(q)'
    BY <1>7, IdleTypes DEF CacheReport, Return, TypeInv, TypeOK, Named, Seeking, Working, IdlePost
  <2>4. QED
    BY <1>7, <2>2, <2>3 DEF CacheReport, Return, TypeInv, TypeOK, Named, Seeking
<1>8. QED
  BY <1>1, <1>2, <1>3, <1>4, <1>5, <1>6, <1>7 DEF Post

\* A GET handler's locals keep their type when one of them is assigned.  The
\* assignments of a step are followed one by one with this lemma.
LEMMA GetFields ==
    ASSUME NEW g \in Gets
    PROVE  /\ \A v \in GetPcs : [g EXCEPT !.pc = v] \in Gets
           /\ \A v \in GetKinds : [g EXCEPT !.kind = v] \in Gets
           /\ \A v \in Agents \cup {NoAgent} : [g EXCEPT !.name = v] \in Gets
           /\ \A v \in Specs : [g EXCEPT !.spec = v] \in Gets
           /\ \A v \in SUBSET Agents : [g EXCEPT !.pods = v] \in Gets
           /\ \A v \in SUBSET Agents : [g EXCEPT !.todo = v] \in Gets
           /\ \A v \in SUBSET Agents : [g EXCEPT !.absent = v] \in Gets
           /\ \A v \in SUBSET Agents : [g EXCEPT !.outdated = v] \in Gets
           /\ \A v \in SUBSET Agents : [g EXCEPT !.listed = v] \in Gets
           /\ \A v \in Nat : [g EXCEPT !.count = v] \in Gets
           /\ \A v \in Statuses : [g EXCEPT !.status = v] \in Gets
<1>1. ASSUME NEW v \in GetPcs PROVE [g EXCEPT !.pc = v] \in Gets
  BY DEF Gets
<1>2. ASSUME NEW v \in GetKinds PROVE [g EXCEPT !.kind = v] \in Gets
  BY DEF Gets
<1>3. ASSUME NEW v \in Agents \cup {NoAgent} PROVE [g EXCEPT !.name = v] \in Gets
  BY DEF Gets
<1>4. ASSUME NEW v \in Specs PROVE [g EXCEPT !.spec = v] \in Gets
  BY DEF Gets
<1>5. ASSUME NEW v \in SUBSET Agents PROVE [g EXCEPT !.pods = v] \in Gets
  BY DEF Gets
<1>6. ASSUME NEW v \in SUBSET Agents PROVE [g EXCEPT !.todo = v] \in Gets
  BY DEF Gets
<1>7. ASSUME NEW v \in SUBSET Agents PROVE [g EXCEPT !.absent = v] \in Gets
  BY DEF Gets
<1>8. ASSUME NEW v \in SUBSET Agents PROVE [g EXCEPT !.outdated = v] \in Gets
  BY DEF Gets
<1>9. ASSUME NEW v \in SUBSET Agents PROVE [g EXCEPT !.listed = v] \in Gets
  BY DEF Gets
<1>10. ASSUME NEW v \in Nat PROVE [g EXCEPT !.count = v] \in Gets
  BY DEF Gets
<1>11. ASSUME NEW v \in Statuses PROVE [g EXCEPT !.status = v] \in Gets
  BY DEF Gets
<1>12. QED
  BY <1>1, <1>2, <1>3, <1>4, <1>5, <1>6, <1>7, <1>8, <1>9, <1>10, <1>11

\* The literals that the handlers assign.
LEMMA Literals == /\ {} \in SUBSET Agents
                  /\ NoAgent \in Agents \cup {NoAgent}
                  /\ \A a \in Agents : a \in Agents \cup {NoAgent}
                  /\ ZeroSpec \in Specs
                  /\ "list" \in GetPcs /\ "purge" \in GetPcs
                  /\ "pods" \in GetPcs /\ "fetch" \in GetPcs
                  /\ "judge" \in GetPcs /\ "done" \in GetPcs
                  /\ 200 \in Statuses /\ 400 \in Statuses /\ 500 \in Statuses
  BY IdleTypes DEF GetPcs, Statuses

\* What it takes for a step of the GET handler r to keep the types: the new
\* locals of r have their type, and nothing but the cache is changed otherwise.
LEMMA GetStep ==
    ASSUME TypeInv, NEW r \in Readers, NEW g \in Gets, Seeking(r)',
           get' = [get EXCEPT ![r] = g],
           DOMAIN cache' \subseteq Agents,
           cache' \in [DOMAIN cache' -> Specs],
           asked' \in [Readers -> [at : 0..MaxTime,
                                   known : [Agents -> SUBSET AgentSpecs]]],
           UNCHANGED <<now, phase, store, post, accepted>>
    PROVE  TypeInv'
<1>1. get' \in [Readers -> Gets]
  BY DEF TypeInv, TypeOK
<1>2. \A q \in Readers : Seeking(q)'
  BY DEF TypeInv, TypeOK, Named, Seeking
<1>3. \A p \in Posters : Working(p)'
  BY DEF TypeInv, Named, Working
<1>4. QED
  BY <1>1, <1>2, <1>3 DEF TypeInv, TypeOK, Named

\* A response keeps the types.
LEMMA RespondStep ==
    ASSUME TypeInv, NEW r \in Readers, NEW absent \in SUBSET Agents,
           NEW outdated \in SUBSET Agents, NEW listed \in SUBSET Agents,
           NEW status \in Statuses,
           Respond(r, absent, outdated, listed, status),
           UNCHANGED <<now, phase, store, cache, post, accepted, asked>>
    PROVE  TypeInv'
<1> DEFINE g1 == [get[r] EXCEPT !.pc = "done"]
           g2 == [g1 EXCEPT !.status = Header(r, status)]
           g3 == [g2 EXCEPT !.absent = absent]
           g4 == [g3 EXCEPT !.outdated = outdated]
           g5 == [g4 EXCEPT !.listed = listed]
           g6 == [g5 EXCEPT !.todo = {}]
<1>1. get \in [Readers -> Gets] /\ get[r] \in Gets
  BY DEF TypeInv, TypeOK
<1>2. Header(r, status) \in Statuses
  BY <1>1 DEF Header, Gets
<1>3. get' = [get EXCEPT ![r] = g6]
  BY DEF Respond
<1>4. g6 \in Gets
  <2>1. g1 \in Gets  BY <1>1, GetFields, Literals, Zenon
  <2> HIDE DEF g1
  <2>2. g2 \in Gets  BY <1>2, <2>1, GetFields, Zenon
  <2> HIDE DEF g2
  <2>3. g3 \in Gets  BY <2>2, GetFields, Zenon
  <2> HIDE DEF g3
  <2>4. g4 \in Gets  BY <2>3, GetFields, Zenon
  <2> HIDE DEF g4
  <2>5. g5 \in Gets  BY <2>4, GetFields, Zenon
  <2> HIDE DEF g5
  <2>6. QED  BY <2>5, GetFields, Literals, Zenon
<1>5. Seeking(r)'
  <2>1. get'[r].pc = "done"
    BY <1>1 DEF Respond, Gets
  <2>2. QED
    BY <2>1 DEF Seeking
<1>6. QED
  <2> HIDE DEF g6
  <2>1. /\ DOMAIN cache' \subseteq Agents
        /\ cache' \in [DOMAIN cache' -> Specs]
        /\ asked' \in [Readers -> [at : 0..MaxTime,
                                   known : [Agents -> SUBSET AgentSpecs]]]
    BY DEF TypeInv, TypeOK
  <2>2. QED
    BY <1>3, <1>4, <1>5, <2>1, GetStep

\* Every step of a GET handler keeps the types.
LEMMA GetTypes == ASSUME TypeInv, NEW r \in Readers, Get(r) PROVE TypeInv'
<1> DEFINE Rest == /\ DOMAIN cache' \subseteq Agents
                   /\ cache' \in [DOMAIN cache' -> Specs]
                   /\ asked' \in [Readers -> [at : 0..MaxTime,
                                    known : [Agents -> SUBSET AgentSpecs]]]
                   /\ UNCHANGED <<now, phase, store, post, accepted>>
<1>0. /\ get \in [Readers -> Gets] /\ get[r] \in Gets
      /\ Pods \in SUBSET Agents
      /\ get[r].pc \in {"list", "purge"} => get[r].kind \in GetPcs
  BY DEF TypeInv, TypeOK, Named, Seeking, Pods, GetPcs
<1>a. ASSUME UNCHANGED <<now, phase, store, cache, post, accepted, asked>>
      PROVE  Rest
  BY <1>a DEF TypeInv, TypeOK
<1>1. ASSUME NEW k \in {"check", "dump", "single"}, NEW a \in Agents \cup {NoAgent},
             k = "single" => a \in Agents, Request(r, k, a)
      PROVE  TypeInv'
  <2> DEFINE g1 == [get[r] EXCEPT !.pc = "list"]
             g2 == [g1 EXCEPT !.kind = k]
             g3 == [g2 EXCEPT !.name = a]
  <2>1. get' = [get EXCEPT ![r] = g3]
    BY <1>1 DEF Request
  <2>2. Seeking(r)'
    <3>1. get'[r].pc = "list" /\ get'[r].kind = k /\ get'[r].name = a
      BY <1>0, <1>1 DEF Request, Gets
    <3>2. QED
      BY <1>1, <3>1 DEF Seeking
  <2>3. g3 \in Gets
    <3>1. k \in GetKinds
      BY DEF GetKinds
    <3>2. g1 \in Gets  BY <1>0, GetFields, Literals, Zenon
    <3> HIDE DEF g1
    <3>3. g2 \in Gets  BY <3>1, <3>2, GetFields, Zenon
    <3> HIDE DEF g2
    <3>4. QED  BY <3>3, GetFields, Zenon
  <2>4. Rest
    BY <1>1 DEF Request, TypeInv, TypeOK
  <2> HIDE DEF g3
  <2>5. QED
    BY <2>1, <2>2, <2>3, <2>4, GetStep
<1>2. ASSUME ListPodsForCleanCache(r) PROVE TypeInv'
  <2>1. CASE get' = [get EXCEPT ![r].pc = "purge", ![r].pods = Pods]
    <3> DEFINE g1 == [get[r] EXCEPT !.pc = "purge"]
               g2 == [g1 EXCEPT !.pods = Pods]
    <3>1. get' = [get EXCEPT ![r] = g2]
      BY <2>1
    <3>2. Seeking(r)'
      <4>1. /\ get'[r].pc = "purge" /\ get'[r].kind = get[r].kind
            /\ get'[r].name = get[r].name
        BY <1>0, <2>1 DEF Gets
      <4>2. QED
        BY <1>2, <4>1 DEF Seeking, ListPodsForCleanCache, TypeInv, Named
    <3>3. g2 \in Gets
      <4>1. g1 \in Gets  BY <1>0, GetFields, Literals, Zenon
      <4> HIDE DEF g1
      <4>2. QED  BY <1>0, <4>1, GetFields, Zenon
    <3> HIDE DEF g2
    <3>4. QED
      BY <1>2, <1>a, <3>1, <3>2, <3>3, GetStep DEF ListPodsForCleanCache
  <2>2. ASSUME NEW error \in Statuses,
               get' = [get EXCEPT ![r].pc = get[r].kind, ![r].status = error]
        PROVE  TypeInv'
    <3> DEFINE g1 == [get[r] EXCEPT !.pc = get[r].kind]
               g2 == [g1 EXCEPT !.status = error]
    <3>1. get' = [get EXCEPT ![r] = g2]
      BY <2>2
    <3>2. Seeking(r)'
      <4>1. get'[r].pc = get[r].kind /\ get'[r].name = get[r].name
        BY <1>0, <2>2 DEF Gets
      <4>2. QED
        BY <1>2, <4>1 DEF Seeking, ListPodsForCleanCache, TypeInv, Named
    <3>3. g2 \in Gets
      <4>1. get[r].kind \in GetPcs
        BY <1>0, <1>2 DEF ListPodsForCleanCache
      <4>2. g1 \in Gets  BY <1>0, <4>1, GetFields, Zenon
      <4> HIDE DEF g1
      <4>3. QED  BY <4>2, GetFields, Zenon
    <3> HIDE DEF g2
    <3>4. QED
      BY <1>2, <1>a, <3>1, <3>2, <3>3, GetStep DEF ListPodsForCleanCache
  <2>3. QED
    BY <1>2, <2>1, <2>2, Literals DEF ListPodsForCleanCache
<1>3. ASSUME CleanCache(r) PROVE TypeInv'
  <2> DEFINE g1 == [get[r] EXCEPT !.pc = get[r].kind]
             g2 == [g1 EXCEPT !.pods = {}]
  <2>1. get' = [get EXCEPT ![r] = g2]
    BY <1>3 DEF CleanCache
  <2>2. Seeking(r)'
    <3>1. get'[r].pc = get[r].kind /\ get'[r].name = get[r].name
      BY <1>0, <1>3 DEF CleanCache, Gets
    <3>2. QED
      BY <1>3, <3>1 DEF Seeking, CleanCache, TypeInv, Named
  <2>3. g2 \in Gets
    <3>1. get[r].kind \in GetPcs
      BY <1>0, <1>3 DEF CleanCache
    <3>2. g1 \in Gets  BY <1>0, <3>1, GetFields, Zenon
    <3> HIDE DEF g1
    <3>3. QED  BY <3>2, GetFields, Literals, Zenon
  <2>4. Rest
    BY <1>3, PurgeType DEF CleanCache, TypeInv, TypeOK
  <2> HIDE DEF g2
  <2>5. QED
    BY <2>1, <2>2, <2>3, <2>4, GetStep
<1>4. ASSUME CountCache(r) PROVE TypeInv'
  <2> DEFINE g1 == [get[r] EXCEPT !.pc = "pods"]
             g2 == [g1 EXCEPT !.count = Cardinality(DOMAIN cache)]
  <2>1. get' = [get EXCEPT ![r] = g2]
    BY <1>4 DEF CountCache
  <2>2. Seeking(r)'
    <3>1. get'[r].pc = "pods"
      BY <1>0, <1>4 DEF CountCache, Gets
    <3>2. QED
      BY <3>1 DEF Seeking
  <2>3. g2 \in Gets
    <3>1. Cardinality(DOMAIN cache) \in Nat
      BY CountType DEF TypeInv
    <3>2. g1 \in Gets  BY <1>0, GetFields, Literals, Zenon
    <3> HIDE DEF g1
    <3>3. QED  BY <3>1, <3>2, GetFields, Zenon
  <2> HIDE DEF g2
  <2>4. QED
    BY <1>4, <1>a, <2>1, <2>2, <2>3, GetStep DEF CountCache
<1>5. ASSUME ListPodsToCheck(r) PROVE TypeInv'
  <2>1. CASE get' = [get EXCEPT ![r].pc = "fetch", ![r].pods = Pods, ![r].todo = Pods]
    <3> DEFINE g1 == [get[r] EXCEPT !.pc = "fetch"]
               g2 == [g1 EXCEPT !.pods = Pods]
               g3 == [g2 EXCEPT !.todo = Pods]
    <3>1. get' = [get EXCEPT ![r] = g3]
      BY <2>1
    <3>2. Seeking(r)'
      <4>1. get'[r].pc = "fetch"
        BY <1>0, <2>1 DEF Gets
      <4>2. QED
        BY <4>1 DEF Seeking
    <3>3. g3 \in Gets
      <4>1. g1 \in Gets  BY <1>0, GetFields, Literals, Zenon
      <4> HIDE DEF g1
      <4>2. g2 \in Gets  BY <1>0, <4>1, GetFields, Zenon
      <4> HIDE DEF g2
      <4>3. QED  BY <1>0, <4>2, GetFields, Zenon
    <3> HIDE DEF g3
    <3>4. QED
      BY <1>5, <1>a, <3>1, <3>2, <3>3, GetStep DEF ListPodsToCheck
  <2>2. CASE CheckFails(r)
    BY <1>5, <2>2, RespondStep, Literals DEF ListPodsToCheck, CheckFails
  <2>3. QED
    BY <1>5, <2>1, <2>2 DEF ListPodsToCheck
<1>6. ASSUME NEW a \in Agents, FetchAgent(r, a) PROVE TypeInv'
  <2>1. CASE get' = [get EXCEPT ![r].todo = @ \ {a}, ![r].absent = @ \cup {a}]
    <3> DEFINE g1 == [get[r] EXCEPT !.todo = get[r].todo \ {a}]
               g2 == [g1 EXCEPT !.absent = get[r].absent \cup {a}]
    <3>1. get' = [get EXCEPT ![r] = g2]
      <4>1. get' = [get EXCEPT ![r].todo = get[r].todo \ {a},
                               ![r].absent = get[r].absent \cup {a}]
        BY <1>0, <2>1 DEF Gets
      <4>2. QED  BY <4>1
    <3>2. Seeking(r)'
      <4>1. get'[r].pc = "fetch"
        BY <1>0, <1>6, <2>1 DEF FetchAgent, Gets
      <4>2. QED
        BY <4>1 DEF Seeking
    <3>3. g2 \in Gets
      <4>1. /\ get[r].todo \ {a} \in SUBSET Agents
            /\ get[r].absent \cup {a} \in SUBSET Agents
        BY <1>0 DEF Gets
      <4>2. g1 \in Gets  BY <1>0, <4>1, GetFields, Zenon
      <4> HIDE DEF g1
      <4>3. QED  BY <4>1, <4>2, GetFields, Zenon
    <3> HIDE DEF g2
    <3>4. QED
      BY <1>6, <1>a, <3>1, <3>2, <3>3, GetStep DEF FetchAgent
  <2>2. CASE get' = [get EXCEPT ![r].todo = @ \ {a}, ![r].pc = "judge",
                                ![r].name = a, ![r].spec = store[a].spec]
    <3> DEFINE g1 == [get[r] EXCEPT !.todo = get[r].todo \ {a}]
               g2 == [g1 EXCEPT !.pc = "judge"]
               g3 == [g2 EXCEPT !.name = a]
               g4 == [g3 EXCEPT !.spec = store[a].spec]
    <3>1. get' = [get EXCEPT ![r] = g4]
      <4>1. get' = [get EXCEPT ![r].todo = get[r].todo \ {a},
                               ![r].pc = "judge", ![r].name = a,
                               ![r].spec = store[a].spec]
        BY <1>0, <2>2 DEF Gets
      <4>2. QED  BY <4>1
    <3>2. Seeking(r)'
      <4>1. get'[r].pc = "judge" /\ get'[r].name = a
        BY <1>0, <2>2 DEF Gets
      <4>2. QED
        BY <4>1 DEF Seeking
    <3>3. g4 \in Gets
      <4>1. get[r].todo \ {a} \in SUBSET Agents /\ store[a].spec \in Specs
        BY <1>0 DEF Gets, TypeInv, TypeOK
      <4>2. g1 \in Gets  BY <1>0, <4>1, GetFields, Zenon
      <4> HIDE DEF g1
      <4>3. g2 \in Gets  BY <4>2, GetFields, Literals, Zenon
      <4> HIDE DEF g2
      <4>4. g3 \in Gets  BY <4>3, GetFields, Literals, Zenon
      <4> HIDE DEF g3
      <4>5. QED  BY <4>1, <4>4, GetFields, Zenon
    <3> HIDE DEF g4
    <3>4. QED
      BY <1>6, <1>a, <3>1, <3>2, <3>3, GetStep DEF FetchAgent
  <2>3. CASE CheckFails(r)
    BY <1>6, <2>3, RespondStep, Literals DEF FetchAgent, CheckFails
  <2>4. QED
    BY <1>6, <2>1, <2>2, <2>3 DEF FetchAgent
<1>7. ASSUME JudgeAgent(r) PROVE TypeInv'
  <2> DEFINE late == IF Overdue(get[r].spec)
                     THEN get[r].outdated \cup {get[r].name} ELSE get[r].outdated
             g1 == [get[r] EXCEPT !.pc = "fetch"]
             g2 == [g1 EXCEPT !.name = NoAgent]
             g3 == [g2 EXCEPT !.spec = ZeroSpec]
             g4 == [g3 EXCEPT !.outdated = late]
  <2>1. get' = [get EXCEPT ![r] = g4]
    <3>1. get' = [get EXCEPT ![r].pc = "fetch", ![r].name = NoAgent,
                             ![r].spec = ZeroSpec, ![r].outdated = late]
      BY <1>0, <1>7 DEF JudgeAgent, Gets
    <3>2. QED  BY <3>1
  <2>2. Seeking(r)'
    <3>1. get'[r].pc = "fetch"
      BY <1>0, <1>7 DEF JudgeAgent, Gets
    <3>2. QED
      BY <3>1 DEF Seeking
  <2>3. g4 \in Gets
    <3>1. late \in SUBSET Agents
      BY <1>0, <1>7 DEF JudgeAgent, Gets, TypeInv, Named, Seeking
    <3> HIDE DEF late
    <3>2. g1 \in Gets  BY <1>0, GetFields, Literals, Zenon
    <3> HIDE DEF g1
    <3>3. g2 \in Gets  BY <3>2, GetFields, Literals, Zenon
    <3> HIDE DEF g2
    <3>4. g3 \in Gets  BY <3>3, GetFields, Literals, Zenon
    <3> HIDE DEF g3
    <3>5. QED  BY <3>1, <3>4, GetFields, Zenon
  <2> HIDE DEF g4
  <2>4. QED
    BY <1>7, <1>a, <2>1, <2>2, <2>3, GetStep DEF JudgeAgent
<1>8. ASSUME AnswerCheck(r) PROVE TypeInv'
  <2>1. get[r].absent \in SUBSET Agents /\ get[r].outdated \in SUBSET Agents
    BY <1>0 DEF Gets
  <2>2. QED
    BY <1>8, <2>1, RespondStep, Literals DEF AnswerCheck
<1>9. ASSUME GetAgents(r) PROVE TypeInv'
  <2>1. {a \in Agents : store[a].rv # 0} \in SUBSET Agents
    OBVIOUS
  <2>2. QED
    BY <1>9, <2>1, RespondStep, Literals DEF GetAgents
<1>10. ASSUME GetSingleAgent(r) PROVE TypeInv'
  <2>1. {a \in {get[r].name} : store[a].rv # 0} \in SUBSET Agents
    BY <1>10 DEF GetSingleAgent, TypeInv, Named, Seeking
  <2>2. QED
    BY <1>10, <2>1, RespondStep, Literals DEF GetSingleAgent
<1>11. ASSUME Close(r) PROVE TypeInv'
  <2>1. Seeking(r)'
    BY <1>0, <1>11 DEF Close, Seeking, IdleGet
  <2>2. Rest
    BY <1>11, BoundsAssumption DEF Close, TypeInv, TypeOK, NothingAsked
  <2>3. QED
    BY <1>11, <2>1, <2>2, IdleTypes, GetStep DEF Close
<1>12. QED
  <2>1. ASSUME NEW k \in RequestKinds \ {"single"}, Request(r, k, NoAgent)
        PROVE  TypeInv'
    BY <1>1, <2>1, KindsAssumption
  <2>2. ASSUME NEW a \in Agents, Request(r, "single", a) PROVE TypeInv'
    BY <1>1, <2>2
  <2>3. QED
    BY <1>2, <1>3, <1>4, <1>5, <1>6, <1>7, <1>8, <1>9, <1>10, <1>11, <2>1, <2>2
       DEF Get

\* Types and names hold in every reachable state.
LEMMA TypeInvariance == Spec => []TypeInv
<1>1. Init => TypeInv
  BY IdleTypes, BoundsAssumption
     DEF Init, TypeInv, TypeOK, Named, Working, Seeking, IdlePost, IdleGet,
         Missing, EmptyCache, NothingAsked
<1>2. TypeInv /\ [Next]_vars => TypeInv'
  <2> SUFFICES ASSUME TypeInv, [Next]_vars PROVE TypeInv'
    OBVIOUS
  <2>1. CASE World
    BY <2>1, WorldTypes
  <2>2. ASSUME NEW p \in Posters, Post(p) PROVE TypeInv'
    BY <2>2, PostTypes
  <2>3. ASSUME NEW r \in Readers, Get(r) PROVE TypeInv'
    BY <2>3, GetTypes
  <2>4. CASE Crash
    BY <2>4, IdleTypes, BoundsAssumption
       DEF Crash, TypeInv, TypeOK, Named, Working, Seeking, IdlePost, IdleGet,
           EmptyCache, NothingAsked
  <2>5. CASE UNCHANGED vars
    BY <2>5 DEF vars, TypeInv, TypeOK, Named, Working, Seeking
  <2>6. QED
    BY <2>1, <2>2, <2>3, <2>4, <2>5 DEF Next
<1>3. QED
  BY <1>1, <1>2, PTL DEF Spec

\* TypeOK holds in every reachable state, for every choice of the constants.
THEOREM TypeCorrect == Spec => []TypeOK
<1>1. TypeInv => TypeOK
  BY DEF TypeInv
<1>2. QED
  BY <1>1, TypeInvariance, PTL

------------------------------------------------------------------------------
(* The cache.  CacheAccepted is inductive together with the same statement    *)
(* about the results that handlers are about to cache; persisted reports are  *)
(* never forgotten by the history variable.                                   *)

ResultAccepted(p) == post[p].pc = "cache" =>
                        post[p].result \in accepted[post[p].name] \cup {ZeroSpec}

CacheInv == CacheAccepted /\ \A p \in Posters : ResultAccepted(p)

\* A request makes at most its own report accepted, and brings back either that
\* report or nothing.
LEMMA WriteAccepted ==
    ASSUME TypeInv, CacheInv, NEW p \in Posters, NEW admitted,
           post[p].pc \in {"create", "update"}, Write(p, admitted)
    PROVE  /\ \A a \in Agents : accepted[a] \subseteq accepted'[a]
           /\ \A q \in Posters : ResultAccepted(q)'
<1> DEFINE a == post[p].name
<1>1. /\ post \in [Posters -> Posts] /\ accepted \in [Agents -> SUBSET AgentSpecs]
      /\ \A q \in Posters : post[q].pc # "idle" => post[q].name \in Agents
  BY DEF TypeInv, TypeOK, Named, Working
<1>2. a \in Agents
  BY <1>1
<1>3. \A b \in Agents : accepted[b] \subseteq accepted'[b]
  BY <1>1, <1>2 DEF Write
<1>4. ASSUME NEW s, post' = [post EXCEPT ![p].pc = "cache", ![p].result = s],
             s \in accepted'[a] \cup {ZeroSpec}
      PROVE  \A q \in Posters : ResultAccepted(q)'
  <2>1. post'[p].result = s /\ post'[p].name = a
    BY <1>1, <1>4 DEF Posts
  <2>2. \A q \in Posters \ {p} : post'[q] = post[q]
    BY <1>1, <1>4
  <2>3. QED
    BY <1>1, <1>3, <1>4, <2>1, <2>2 DEF CacheInv, ResultAccepted
<1>5. CASE UNCHANGED accepted /\ post' = [post EXCEPT ![p].pc = "cache", ![p].result = ZeroSpec]
  BY <1>3, <1>4, <1>5
<1>6. CASE /\ accepted' = [accepted EXCEPT ![a] = @ \cup {post[p].data}]
           /\ \/ post' = [post EXCEPT ![p].pc = "cache", ![p].result = post[p].data]
              \/ post' = [post EXCEPT ![p].pc = "cache", ![p].result = ZeroSpec]
  <2>1. post[p].data \in accepted'[a]
    BY <1>1, <1>2, <1>6
  <2>2. QED
    BY <1>4, <1>6, <2>1
<1>7. QED
  BY <1>3, <1>5, <1>6 DEF Write

\* A POST handler keeps the cache honest.
LEMMA PostCacheInv ==
    ASSUME TypeInv, CacheInv, NEW p \in Posters, Post(p) PROVE CacheInv'
<1>1. /\ post \in [Posters -> Posts] /\ accepted \in [Agents -> SUBSET AgentSpecs]
      /\ DOMAIN cache \subseteq Agents
      /\ \A q \in Posters : post[q].pc # "idle" => post[q].name \in Agents
  BY DEF TypeInv, TypeOK, Named, Working
<1>2. ASSUME UNCHANGED <<cache, accepted>>, post'[p].pc # "cache",
             \A q \in Posters \ {p} : post'[q] = post[q]
      PROVE  CacheInv'
  BY <1>2 DEF CacheInv, CacheAccepted, ResultAccepted
<1>3. ASSUME NEW a \in Agents, NEW i \in Intervals, ReceiveReport(p, a, i)
      PROVE  CacheInv'
  <2>1. post'[p].pc = "get" /\ \A q \in Posters \ {p} : post'[q] = post[q]
    BY <1>1, <1>3 DEF ReceiveReport, Posts
  <2>2. QED
    BY <1>2, <1>3, <2>1 DEF ReceiveReport
<1>4. ASSUME GetAgent(p) PROVE CacheInv'
  <2>1. post'[p].pc \in {"list", "update"} /\ \A q \in Posters \ {p} : post'[q] = post[q]
    BY <1>1, <1>4 DEF GetAgent, Posts
  <2>2. QED
    BY <1>2, <1>4, <2>1 DEF GetAgent
<1>5. ASSUME ListPods(p) PROVE CacheInv'
  <2>1. post'[p].pc \in {"purge", "create"} /\ \A q \in Posters \ {p} : post'[q] = post[q]
    BY <1>1, <1>5 DEF ListPods, Posts
  <2>2. QED
    BY <1>2, <1>5, <2>1 DEF ListPods
<1>6. ASSUME PurgeBeforeCreate(p) PROVE CacheInv'
  <2>1. post'[p].pc = "create" /\ \A q \in Posters \ {p} : post'[q] = post[q]
    BY <1>1, <1>6 DEF PurgeBeforeCreate, Posts
  <2>2. QED
    BY <1>6, <2>1 DEF PurgeBeforeCreate, Purge, CacheInv, CacheAccepted, ResultAccepted
<1>7. ASSUME CreateAgent(p) \/ UpdateAgent(p) PROVE CacheInv'
  <2>1. /\ \A a \in Agents : accepted[a] \subseteq accepted'[a]
        /\ \A q \in Posters : ResultAccepted(q)'
    BY <1>7, WriteAccepted DEF CreateAgent, UpdateAgent
  <2>2. cache' = cache
    BY <1>7 DEF CreateAgent, UpdateAgent
  <2>3. QED
    BY <1>1, <2>1, <2>2 DEF CacheInv, CacheAccepted
<1>8. ASSUME CacheReport(p) PROVE CacheInv'
  <2>1. post'[p].pc = "idle" /\ \A q \in Posters \ {p} : post'[q] = post[q]
    BY <1>1, <1>8 DEF CacheReport, Return, IdlePost
  <2>2. post[p].result \in accepted[post[p].name] \cup {ZeroSpec}
    BY <1>8 DEF CacheReport, Return, CacheInv, ResultAccepted
  <2>3. QED
    BY <1>8, <2>1, <2>2 DEF CacheReport, Return, Put, CacheInv, CacheAccepted, ResultAccepted
<1>9. QED
  BY <1>3, <1>4, <1>5, <1>6, <1>7, <1>8 DEF Post

\* CacheAccepted holds in every reachable state: whatever is lost, refused or
\* interleaved, no entry of NcAgentCache is a report that was never persisted.
THEOREM CacheIsAccepted == Spec => []CacheAccepted
<1>1. Init => CacheInv
  BY DEF Init, CacheInv, CacheAccepted, ResultAccepted, EmptyCache, IdlePost
<1>2. TypeInv /\ CacheInv /\ [Next]_vars => CacheInv'
  <2> SUFFICES ASSUME TypeInv, CacheInv, [Next]_vars PROVE CacheInv'
    OBVIOUS
  <2>1. CASE World
    BY <2>1 DEF World, Tick, PodStart, PodStop, CacheInv, CacheAccepted, ResultAccepted
  <2>2. ASSUME NEW p \in Posters, Post(p) PROVE CacheInv'
    BY <2>2, PostCacheInv
  <2>3. ASSUME NEW r \in Readers, Get(r) PROVE CacheInv'
    <3>1. CASE CleanCache(r)
      BY <3>1 DEF CleanCache, Purge, CacheInv, CacheAccepted, ResultAccepted
    <3>2. CASE UNCHANGED <<cache, post, accepted>>
      BY <3>2 DEF CacheInv, CacheAccepted, ResultAccepted
    <3>3. QED
      BY <2>3, <3>1, <3>2
         DEF Get, Request, ListPodsForCleanCache, CountCache, ListPodsToCheck,
             FetchAgent, JudgeAgent, AnswerCheck, GetAgents, GetSingleAgent, Close
  <2>4. CASE Crash
    BY <2>4 DEF Crash, CacheInv, CacheAccepted, ResultAccepted, EmptyCache, IdlePost
  <2>5. CASE UNCHANGED vars
    BY <2>5 DEF vars, CacheInv, CacheAccepted, ResultAccepted
  <2>6. QED
    BY <2>1, <2>2, <2>3, <2>4, <2>5 DEF Next
<1>3. CacheInv => CacheAccepted
  BY DEF CacheInv
<1>4. QED
  BY <1>1, <1>2, <1>3, TypeInvariance, PTL DEF Spec

------------------------------------------------------------------------------
(* The verdict of the connectivity check.  What it says is only as good as     *)
(* what the store holds, so the store comes first: a resource exists exactly   *)
(* if a report was ever accepted, and then it holds one of those reports.      *)

StoreInv == \A a \in Agents : IF store[a].rv = 0 THEN accepted[a] = {}
                                                 ELSE store[a].spec \in accepted[a]

\* A request leaves StoreInv true and only adds to the accepted reports.
LEMMA WriteStoreInv ==
    ASSUME TypeInv, StoreInv, NEW p \in Posters, NEW admitted,
           post[p].pc \in {"create", "update"}, Write(p, admitted)
    PROVE  StoreInv' /\ \A a \in Agents : accepted[a] \subseteq accepted'[a]
<1> DEFINE a == post[p].name
<1>1. /\ a \in Agents
      /\ store \in [Agents -> [rv : Nat, spec : Specs]]
      /\ accepted \in [Agents -> SUBSET AgentSpecs]
  BY DEF TypeInv, TypeOK, Named, Working
<1>2. CASE UNCHANGED <<store, accepted>>
  BY <1>2 DEF StoreInv
<1>3. CASE /\ store' = [store EXCEPT ![a] = [rv |-> store[a].rv + 1,
                                             spec |-> post[p].data]]
           /\ accepted' = [accepted EXCEPT ![a] = @ \cup {post[p].data}]
  <2>1. /\ store'[a].rv = store[a].rv + 1 /\ store[a].rv \in Nat
        /\ store'[a].spec = post[p].data
        /\ accepted'[a] = accepted[a] \cup {post[p].data}
    BY <1>1, <1>3
  <2>2. \A b \in Agents \ {a} : store'[b] = store[b] /\ accepted'[b] = accepted[b]
    BY <1>1, <1>3
  <2>3. QED
    BY <1>1, <2>1, <2>2 DEF StoreInv
<1>4. QED
  BY <1>2, <1>3 DEF Write

\* No step takes back an accepted report or the time.
LEMMA Monotone ==
    ASSUME TypeInv, StoreInv, [Next]_vars
    PROVE  /\ StoreInv'
           /\ \A a \in Agents : accepted[a] \subseteq accepted'[a]
           /\ now <= now'
<1>0. now \in Nat
  BY BoundsAssumption DEF TypeInv, TypeOK
<1>1. CASE Tick
  BY <1>0, <1>1 DEF Tick, StoreInv
<1>2. CASE UNCHANGED <<now, store, accepted>>
  BY <1>0, <1>2 DEF StoreInv
<1>3. ASSUME NEW p \in Posters, CreateAgent(p) \/ UpdateAgent(p)
      PROVE  /\ StoreInv' /\ now' = now
             /\ \A a \in Agents : accepted[a] \subseteq accepted'[a]
  BY <1>3, WriteStoreInv DEF CreateAgent, UpdateAgent
<1>4. ASSUME NEW p \in Posters, Post(p), ~(CreateAgent(p) \/ UpdateAgent(p))
      PROVE  UNCHANGED <<now, store, accepted>>
  BY <1>4 DEF Post, ReceiveReport, GetAgent, ListPods, PurgeBeforeCreate,
              CacheReport, Return
<1>5. ASSUME NEW r \in Readers, Get(r) PROVE UNCHANGED <<now, store, accepted>>
  BY <1>5 DEF Get, Request, ListPodsForCleanCache, CleanCache, CountCache,
              ListPodsToCheck, FetchAgent, JudgeAgent, AnswerCheck, GetAgents,
              GetSingleAgent, Close
<1>6. QED
  BY <1>0, <1>1, <1>2, <1>3, <1>4, <1>5
     DEF Next, World, PodStart, PodStop, Crash, vars

\* What is known when a check begins stays accepted, and nothing known is absent.
AbsentOK(r) ==
    /\ \A a \in Agents : asked[r].known[a] \subseteq accepted[a]
    /\ \A a \in get[r].absent : asked[r].known[a] = {}
    /\ get[r].pc \notin {"fetch", "judge", "done"} => get[r].absent = {}

\* A report of a was at most two intervals old when r began.
Fresh(r, a) == \E s \in accepted[a] : asked[r].at - s.at <= s.interval * 2

\* The loop of CheckAgents has vouched for every pod it is done with.
FreshOK(r) ==
    LET done == get[r].pods \ (get[r].absent \cup get[r].outdated)
    IN  /\ asked[r].at <= now
        /\ get[r].pc # "done" => get[r].status \in {0, 500}
        /\ get[r].pc \in {"check", "dump", "single"} => get[r].kind = get[r].pc
        /\ get[r].pc = "fetch" => \A a \in done \ get[r].todo : Fresh(r, a)
        /\ get[r].pc = "judge" =>
              /\ get[r].spec \in accepted[get[r].name]
              /\ \A a \in done \ (get[r].todo \cup {get[r].name}) : Fresh(r, a)
        /\ Verdict(r) => \A a \in done : Fresh(r, a)

ReaderInv == \A r \in Readers : AbsentOK(r) /\ FreshOK(r)

\* A reader that does not move keeps what it has established.
LEMMA ReaderStays ==
    ASSUME TypeInv, ReaderInv, NEW r \in Readers,
           get'[r] = get[r], asked'[r] = asked[r], now' \in Int, now <= now',
           \A a \in Agents : accepted[a] \subseteq accepted'[a]
    PROVE  AbsentOK(r)' /\ FreshOK(r)'
<1>1. /\ get[r].pods \subseteq Agents /\ get[r].absent \subseteq Agents
      /\ get[r].pc = "judge" => get[r].name \in Agents
      /\ now \in Int /\ asked[r].at \in Int
      /\ \A a \in Agents : asked[r].known[a] \subseteq AgentSpecs
  BY BoundsAssumption DEF TypeInv, TypeOK, Named, Seeking, Gets
<1>2. AbsentOK(r) /\ FreshOK(r)
  BY DEF ReaderInv
<1>3. AbsentOK(r)'
  BY <1>1, <1>2 DEF AbsentOK
<1>4. \A a \in Agents : Fresh(r, a) => Fresh(r, a)'
  BY DEF Fresh
<1>5. FreshOK(r)'
  BY <1>1, <1>2, <1>4 DEF FreshOK, Verdict
<1>6. QED
  BY <1>3, <1>5

\* The fields of a response that matter to the verdict.
LEMMA RespondFields ==
    ASSUME TypeInv, NEW r \in Readers, NEW absent, NEW outdated, NEW listed,
           NEW status, Respond(r, absent, outdated, listed, status)
    PROVE  /\ get'[r].pc = "done" /\ get'[r].kind = get[r].kind
           /\ get'[r].pods = get[r].pods /\ get'[r].absent = absent
           /\ get'[r].outdated = outdated
           /\ get'[r].status = Header(r, status)
<1>1. get \in [Readers -> Gets]
  BY DEF TypeInv, TypeOK
<1>2. QED
  BY <1>1 DEF Respond, Gets

\* A response that is no verdict establishes nothing and needs nothing.
LEMMA RespondNoVerdict ==
    ASSUME TypeInv, ReaderInv, NEW r \in Readers, NEW listed, NEW status,
           Respond(r, {}, {}, listed, status), UNCHANGED <<now, accepted, asked>>,
           get[r].pc # "done", status = 500 \/ get[r].kind # "check"
    PROVE  AbsentOK(r)' /\ FreshOK(r)'
<1>1. /\ get'[r].pc = "done" /\ get'[r].kind = get[r].kind
      /\ get'[r].absent = {} /\ get'[r].status = Header(r, status)
  BY RespondFields
<1>2. AbsentOK(r) /\ FreshOK(r)
  BY DEF ReaderInv
<1>3. Header(r, status) = status \/ Header(r, status) = 500
  BY <1>2 DEF FreshOK, Header
<1>4. ~Verdict(r)'
  BY <1>1, <1>3 DEF Verdict
<1>5. QED
  BY <1>1, <1>2, <1>4 DEF AbsentOK, FreshOK

\* The times of a report are numbers.
LEMMA SpecNumbers ==
    ASSUME NEW s \in AgentSpecs PROVE s.at \in Int /\ s.interval \in Int
<1>1. s.at \in 1..MaxTime /\ s.interval \in Intervals
  BY DEF AgentSpecs
<1>2. 1..MaxTime \subseteq Int
  BY BoundsAssumption
<1>3. Intervals \subseteq Int
  BY IntervalsAssumption
<1>4. QED
  BY <1>1, <1>2, <1>3

\* What is not overdue now was not overdue before.
LEMMA NotOverdueEarlier ==
    ASSUME NEW time \in Int, NEW earlier \in Int, NEW at \in Int,
           NEW interval \in Int, earlier <= time, ~(time - at > interval * 2)
    PROVE  earlier - at <= interval * 2
  OBVIOUS

\* Every step of a GET handler keeps what its verdict will rest on.
LEMMA ReaderMoves ==
    ASSUME TypeInv, StoreInv, ReaderInv, NEW r \in Readers, Get(r)
    PROVE  AbsentOK(r)' /\ FreshOK(r)'
<1>0. /\ get \in [Readers -> Gets] /\ get[r] \in Gets
      /\ asked \in [Readers -> [at : 0..MaxTime,
                                known : [Agents -> SUBSET AgentSpecs]]]
      /\ now \in Nat /\ Seeking(r) /\ AbsentOK(r) /\ FreshOK(r)
  BY BoundsAssumption DEF TypeInv, TypeOK, Named, ReaderInv
<1>1. ASSUME NEW k, NEW a, Request(r, k, a) PROVE AbsentOK(r)' /\ FreshOK(r)'
  <2>1. /\ get'[r].pc = "list" /\ get'[r].status = get[r].status
        /\ get'[r].absent = get[r].absent
    BY <1>0, <1>1 DEF Request, Gets
  <2>2. asked'[r].at = now /\ asked'[r].known = accepted
    BY <1>0, <1>1 DEF Request
  <2>3. get[r].pc = "idle" /\ accepted' = accepted /\ now' = now
    BY <1>1 DEF Request
  <2>4. QED
    BY <1>0, <2>1, <2>2, <2>3 DEF AbsentOK, FreshOK, Verdict
<1>2. ASSUME ListPodsForCleanCache(r) PROVE AbsentOK(r)' /\ FreshOK(r)'
  <2>1. /\ get[r].pc = "list" /\ UNCHANGED <<now, accepted, asked>>
        /\ get[r].kind \in {"check", "dump", "single"}
    BY <1>0, <1>2 DEF ListPodsForCleanCache, Seeking
  <2>2. /\ get'[r].pc \in {"purge", get[r].kind}
        /\ get'[r].kind = get[r].kind /\ get'[r].absent = get[r].absent
        /\ get'[r].status \in {get[r].status, 500}
    BY <1>0, <1>2 DEF ListPodsForCleanCache, Gets
  <2>3. QED
    BY <1>0, <2>1, <2>2 DEF AbsentOK, FreshOK, Verdict
<1>3. ASSUME CleanCache(r) PROVE AbsentOK(r)' /\ FreshOK(r)'
  <2>1. /\ get[r].pc = "purge" /\ UNCHANGED <<now, accepted, asked>>
        /\ get[r].kind \in {"check", "dump", "single"}
    BY <1>0, <1>3 DEF CleanCache, Seeking
  <2>2. /\ get'[r].pc = get[r].kind /\ get'[r].kind = get[r].kind
        /\ get'[r].absent = get[r].absent /\ get'[r].status = get[r].status
    BY <1>0, <1>3 DEF CleanCache, Gets
  <2>3. QED
    BY <1>0, <2>1, <2>2 DEF AbsentOK, FreshOK, Verdict
<1>4. ASSUME CountCache(r) PROVE AbsentOK(r)' /\ FreshOK(r)'
  <2>1. get[r].pc = "check" /\ UNCHANGED <<now, accepted, asked>>
    BY <1>4 DEF CountCache
  <2>2. /\ get'[r].pc = "pods" /\ get'[r].absent = get[r].absent
        /\ get'[r].status = get[r].status
    BY <1>0, <1>4 DEF CountCache, Gets
  <2>3. QED
    BY <1>0, <2>1, <2>2 DEF AbsentOK, FreshOK, Verdict
<1>5. ASSUME ListPodsToCheck(r) PROVE AbsentOK(r)' /\ FreshOK(r)'
  <2>1. get[r].pc = "pods" /\ UNCHANGED <<now, accepted, asked>>
    BY <1>5 DEF ListPodsToCheck
  <2>2. CASE CheckFails(r)
    BY <2>1, <2>2, RespondNoVerdict DEF CheckFails
  <2>3. CASE get' = [get EXCEPT ![r].pc = "fetch", ![r].pods = Pods, ![r].todo = Pods]
    <3>1. /\ get'[r].pc = "fetch" /\ get'[r].absent = get[r].absent
          /\ get'[r].status = get[r].status
          /\ get'[r].pods = Pods /\ get'[r].todo = Pods
      BY <1>0, <2>3 DEF Gets
    <3>2. QED
      BY <1>0, <2>1, <3>1 DEF AbsentOK, FreshOK, Verdict
  <2>4. QED
    BY <1>5, <2>2, <2>3 DEF ListPodsToCheck
<1>6. ASSUME NEW a \in Agents, FetchAgent(r, a) PROVE AbsentOK(r)' /\ FreshOK(r)'
  <2>1. get[r].pc = "fetch" /\ a \in get[r].todo /\ UNCHANGED <<now, store, accepted, asked>>
    BY <1>6 DEF FetchAgent
  <2>2. CASE CheckFails(r)
    BY <2>1, <2>2, RespondNoVerdict DEF CheckFails
  <2>3. CASE /\ store[a].rv = 0
             /\ get' = [get EXCEPT ![r].todo = @ \ {a}, ![r].absent = @ \cup {a}]
    <3>1. /\ get'[r].pc = get[r].pc /\ get'[r].status = get[r].status
          /\ get'[r].absent = get[r].absent \cup {a}
          /\ get'[r].outdated = get[r].outdated
          /\ get'[r].pods = get[r].pods /\ get'[r].todo = get[r].todo \ {a}
      BY <1>0, <2>3 DEF Gets
    <3>2. accepted[a] = {}
      BY <2>3 DEF StoreInv
    <3>3. AbsentOK(r)'
      BY <1>0, <2>1, <3>1, <3>2 DEF AbsentOK
    <3>4. \A b \in Agents : Fresh(r, b)' <=> Fresh(r, b)
      BY <2>1 DEF Fresh
    <3>5. get[r].pods \subseteq Agents
      BY <1>0 DEF Gets
    <3>6. FreshOK(r)'
      BY <1>0, <2>1, <3>1, <3>4, <3>5 DEF FreshOK, Verdict
    <3>7. QED
      BY <3>3, <3>6
  <2>4. CASE /\ store[a].rv # 0
             /\ get' = [get EXCEPT ![r].todo = @ \ {a}, ![r].pc = "judge",
                                   ![r].name = a, ![r].spec = store[a].spec]
    <3>1. /\ get'[r].pc = "judge" /\ get'[r].status = get[r].status
          /\ get'[r].absent = get[r].absent /\ get'[r].outdated = get[r].outdated
          /\ get'[r].pods = get[r].pods /\ get'[r].todo = get[r].todo \ {a}
          /\ get'[r].name = a /\ get'[r].spec = store[a].spec
      BY <1>0, <2>4 DEF Gets
    <3>2. store[a].spec \in accepted[a]
      BY <2>4 DEF StoreInv
    <3>3. AbsentOK(r)'
      BY <1>0, <2>1, <3>1 DEF AbsentOK
    <3>4. \A b \in Agents : Fresh(r, b)' <=> Fresh(r, b)
      BY <2>1 DEF Fresh
    <3>5. get[r].pods \subseteq Agents
      BY <1>0 DEF Gets
    <3>6. FreshOK(r)'
      BY <1>0, <2>1, <3>1, <3>2, <3>4, <3>5 DEF FreshOK, Verdict
    <3>7. QED
      BY <3>3, <3>6
  <2>5. QED
    BY <1>6, <2>2, <2>3, <2>4 DEF FetchAgent
<1>7. ASSUME JudgeAgent(r) PROVE AbsentOK(r)' /\ FreshOK(r)'
  <2> DEFINE a == get[r].name
  <2>1. /\ get[r].pc = "judge" /\ UNCHANGED <<now, accepted, asked>>
        /\ a \in Agents
    BY <1>0, <1>7 DEF JudgeAgent, Seeking
  <2>2. /\ get'[r].pc = "fetch" /\ get'[r].status = get[r].status
        /\ get'[r].absent = get[r].absent
        /\ get'[r].pods = get[r].pods /\ get'[r].todo = get[r].todo
        /\ get'[r].outdated = IF Overdue(get[r].spec)
                              THEN get[r].outdated \cup {a} ELSE get[r].outdated
    BY <1>0, <1>7 DEF JudgeAgent, Gets
  <2>3. AbsentOK(r)'
    BY <1>0, <2>1, <2>2 DEF AbsentOK
  <2>4. \A b \in Agents : Fresh(r, b)' <=> Fresh(r, b)
    BY <2>1 DEF Fresh
  <2>5. ASSUME ~Overdue(get[r].spec) PROVE Fresh(r, a)
    <3>1. get[r].spec \in accepted[a] /\ asked[r].at <= now
      BY <1>0, <2>1 DEF FreshOK
    <3>2. /\ accepted[a] \subseteq AgentSpecs
          /\ asked[r].at \in Int /\ now \in Int
      BY <1>0, <2>1 DEF TypeInv, TypeOK
    <3>3. get[r].spec.at \in Int /\ get[r].spec.interval \in Int
      BY <3>1, <3>2, SpecNumbers
    <3>4. ~(now - get[r].spec.at > get[r].spec.interval * 2)
      BY <2>5 DEF Overdue
    <3>5. asked[r].at - get[r].spec.at <= get[r].spec.interval * 2
      BY <3>1, <3>2, <3>3, <3>4, NotOverdueEarlier
    <3>6. QED
      BY <3>1, <3>5 DEF Fresh
  <2>6. get[r].pods \subseteq Agents
    BY <1>0 DEF Gets
  <2>7. FreshOK(r)'
    BY <1>0, <2>1, <2>2, <2>4, <2>5, <2>6 DEF FreshOK, Verdict
  <2>8. QED
    BY <2>3, <2>7
<1>8. ASSUME AnswerCheck(r) PROVE AbsentOK(r)' /\ FreshOK(r)'
  <2>1. /\ get[r].pc = "fetch" /\ get[r].todo = {}
        /\ UNCHANGED <<now, accepted, asked>>
    BY <1>8 DEF AnswerCheck
  <2>2. /\ get'[r].pc = "done" /\ get'[r].pods = get[r].pods
        /\ get'[r].absent = get[r].absent
        /\ get'[r].outdated = get[r].outdated
    BY <1>8, RespondFields DEF AnswerCheck
  <2>3. AbsentOK(r)'
    BY <1>0, <2>1, <2>2 DEF AbsentOK
  <2>4. \A b \in Agents : Fresh(r, b)' <=> Fresh(r, b)
    BY <2>1 DEF Fresh
  <2>5. get[r].pods \subseteq Agents
    BY <1>0 DEF Gets
  <2>6. FreshOK(r)'
    BY <1>0, <2>1, <2>2, <2>4, <2>5 DEF FreshOK
  <2>7. QED
    BY <2>3, <2>6
<1>9. ASSUME GetAgents(r) \/ GetSingleAgent(r) PROVE AbsentOK(r)' /\ FreshOK(r)'
  <2>1. /\ get[r].pc \in {"dump", "single"} /\ get[r].kind = get[r].pc
        /\ UNCHANGED <<now, accepted, asked>>
    BY <1>0, <1>9 DEF GetAgents, GetSingleAgent, FreshOK
  <2>2. QED
    BY <1>9, <2>1, RespondNoVerdict DEF GetAgents, GetSingleAgent
<1>10. ASSUME Close(r) PROVE AbsentOK(r)' /\ FreshOK(r)'
  <2>1. /\ get'[r] = IdleGet /\ asked'[r] = NothingAsked
        /\ UNCHANGED <<now, accepted>>
    BY <1>0, <1>10 DEF Close
  <2>2. QED
    BY <1>0, <2>1 DEF IdleGet, NothingAsked, AbsentOK, FreshOK, Verdict
<1>11. QED
  BY <1>1, <1>2, <1>3, <1>4, <1>5, <1>6, <1>7, <1>8, <1>9, <1>10 DEF Get

\* The moving reader is one; the others, and their requests, stay as they are.
LEMMA OnlyReaderMoves ==
    ASSUME TypeInv, NEW r \in Readers, Get(r), NEW q \in Readers \ {r}
    PROVE  get'[q] = get[q] /\ asked'[q] = asked[q]
<1>1. /\ get \in [Readers -> Gets]
      /\ asked \in [Readers -> [at : 0..MaxTime,
                                known : [Agents -> SUBSET AgentSpecs]]]
  BY DEF TypeInv, TypeOK
<1>2. QED
  BY <1>1 DEF Get, Request, ListPodsForCleanCache, CleanCache, CountCache,
              ListPodsToCheck, FetchAgent, JudgeAgent, AnswerCheck, GetAgents,
              GetSingleAgent, Close, CheckFails, Respond

\* The statements about the store and about every reader hold throughout.
LEMMA VerdictInvariance == Spec => [](StoreInv /\ ReaderInv)
<1>1. Init => StoreInv /\ ReaderInv
  BY BoundsAssumption
     DEF Init, StoreInv, ReaderInv, AbsentOK, FreshOK, Verdict, Missing, IdleGet,
         NothingAsked
<1>2. TypeInv /\ TypeInv' /\ (StoreInv /\ ReaderInv) /\ [Next]_vars
         => (StoreInv /\ ReaderInv)'
  <2> SUFFICES ASSUME TypeInv, TypeInv', StoreInv, ReaderInv, [Next]_vars
               PROVE  StoreInv' /\ ReaderInv'
    OBVIOUS
  <2>1. /\ StoreInv' /\ now <= now' /\ now' \in Int
        /\ \A a \in Agents : accepted[a] \subseteq accepted'[a]
    BY Monotone, BoundsAssumption DEF TypeInv, TypeOK
  <2>2. CASE UNCHANGED <<get, asked>>
    BY <2>1, <2>2, ReaderStays DEF ReaderInv
  <2>3. ASSUME NEW r \in Readers, Get(r) PROVE ReaderInv'
    BY <2>1, <2>3, ReaderMoves, ReaderStays, OnlyReaderMoves DEF ReaderInv
  <2>4. CASE Crash
    <3>1. \A r \in Readers : get'[r] = IdleGet /\ asked'[r] = NothingAsked
      BY <2>4 DEF Crash
    <3>2. 0 <= now'
      BY BoundsAssumption DEF TypeInv, TypeOK
    <3>3. \A r \in Readers : AbsentOK(r)'
      BY <3>1 DEF AbsentOK, IdleGet, NothingAsked
    <3>4. \A r \in Readers : FreshOK(r)'
      BY <3>1, <3>2 DEF FreshOK, Verdict, IdleGet, NothingAsked
    <3>5. QED
      BY <2>1, <3>3, <3>4 DEF ReaderInv
  <2>5. CASE World
    BY <2>2, <2>5 DEF World, Tick, PodStart, PodStop
  <2>6. ASSUME NEW p \in Posters, Post(p) PROVE ReaderInv'
    BY <2>2, <2>6 DEF Post, ReceiveReport, GetAgent, ListPods, PurgeBeforeCreate,
                      CreateAgent, UpdateAgent, CacheReport, Return
  <2>7. QED
    BY <2>1, <2>2, <2>3, <2>4, <2>5, <2>6 DEF Next, vars
<1>3. QED
  BY <1>1, <1>2, TypeInvariance, PTL DEF Spec

\* No agent is reported absent that had a report persisted before the check was
\* asked for: restarts, purges of the cache and lost answers notwithstanding.
THEOREM AbsentIsNever == Spec => []AbsentMeansNever
<1>1. ReaderInv => AbsentMeansNever
  BY DEF ReaderInv, AbsentOK, AbsentMeansNever
<1>2. QED
  BY <1>1, VerdictInvariance, PTL

\* A verdict vouches only for pods with a report that was at most two intervals
\* old when the check was asked for.
THEOREM UnlistedAreFresh == Spec => []UnlistedIsFresh
<1>1. ReaderInv => UnlistedIsFresh
  BY DEF ReaderInv, FreshOK, Fresh, UnlistedIsFresh
<1>2. QED
  BY <1>1, VerdictInvariance, PTL

------------------------------------------------------------------------------
(* The conditional store.  A handler's ResourceVersion is one that the resource *)
(* has had, so once the resource moves on no handler that looked before can     *)
(* hold it: this is what makes an admitted write end every reservation.         *)

VersionOK(p) ==
    /\ post[p].pc # "idle" => post[p].rv <= store[post[p].name].rv
    /\ post[p].pc \in {"idle", "get", "list", "purge", "create"} => post[p].rv = 0

VersionInv == \A p \in Posters : VersionOK(p)

\* p is among the holders of a.
Holds(p, a) == /\ post[p].name = a
               /\ post[p].pc \in {"list", "purge", "create", "update"}
               /\ post[p].rv = store[a].rv
               /\ post[p].pc = "update" => post[p].rv # 0

LEMMA HoldersAreHolding ==
    ASSUME NEW a PROVE Holders(a) = {p \in Posters : Holds(p, a)}
  BY DEF Holders, Reporting, Holds

\* Writes move the version of one resource by one, and no other.
LEMMA WriteVersions ==
    ASSUME TypeInv, NEW p \in Posters, NEW admitted,
           post[p].pc \in {"create", "update"}, Write(p, admitted)
    PROVE  /\ \A q \in Posters \ {p} : post'[q] = post[q]
           /\ post'[p].pc = "cache" /\ post'[p].name = post[p].name
           /\ post'[p].rv = post[p].rv
           /\ \A a \in Agents \ {post[p].name} : store'[a] = store[a]
           /\ \/ store' = store
              \/ /\ admitted
                 /\ store'[post[p].name].rv = store[post[p].name].rv + 1
                 /\ store'[post[p].name].spec = post[p].data
<1>1. /\ post \in [Posters -> Posts]
      /\ store \in [Agents -> [rv : Nat, spec : Specs]]
      /\ post[p].name \in Agents
  BY DEF TypeInv, TypeOK, Named, Working
<1>2. /\ \A q \in Posters \ {p} : post'[q] = post[q]
      /\ post'[p].pc = "cache" /\ post'[p].name = post[p].name
      /\ post'[p].rv = post[p].rv
  <2>1. ASSUME NEW s, post' = [post EXCEPT ![p].pc = "cache", ![p].result = s]
        PROVE  /\ \A q \in Posters \ {p} : post'[q] = post[q]
               /\ post'[p].pc = "cache" /\ post'[p].name = post[p].name
               /\ post'[p].rv = post[p].rv
    BY <1>1, <2>1 DEF Posts
  <2>2. QED
    BY <2>1 DEF Write
<1>3. CASE store' = store
  BY <1>2, <1>3
<1>4. CASE /\ admitted
           /\ store' = [store EXCEPT ![post[p].name] =
                           [rv |-> store[post[p].name].rv + 1, spec |-> post[p].data]]
  BY <1>1, <1>2, <1>4
<1>5. QED
  BY <1>3, <1>4 DEF Write

\* Every step of a POST handler keeps the versions in order.
LEMMA PostVersions ==
    ASSUME TypeInv, VersionInv, NEW p \in Posters, Post(p) PROVE VersionInv'
<1>0. /\ post \in [Posters -> Posts]
      /\ store \in [Agents -> [rv : Nat, spec : Specs]]
      /\ \A q \in Posters : post[q].pc # "idle" => post[q].name \in Agents
  BY DEF TypeInv, TypeOK, Named, Working
<1>1. ASSUME store' = store, \A q \in Posters \ {p} : post'[q] = post[q],
             VersionOK(p)'
      PROVE  VersionInv'
  BY <1>1 DEF VersionInv, VersionOK
<1>2. ASSUME NEW a \in Agents, NEW i \in Intervals, ReceiveReport(p, a, i)
      PROVE  VersionInv'
  <2>1. /\ post'[p].pc = "get" /\ post'[p].name = a /\ post'[p].rv = post[p].rv
        /\ \A q \in Posters \ {p} : post'[q] = post[q]
        /\ post[p].pc = "idle" /\ store' = store
    BY <1>0, <1>2 DEF ReceiveReport, Posts
  <2>2. QED
    BY <1>0, <1>1, <2>1 DEF VersionInv, VersionOK
<1>3. ASSUME GetAgent(p) PROVE VersionInv'
  <2>1. /\ post'[p].pc \in {"list", "update"} /\ post'[p].name = post[p].name
        /\ post'[p].rv \in {post[p].rv, store[post[p].name].rv}
        /\ post'[p].pc = "list" => post'[p].rv = post[p].rv
        /\ \A q \in Posters \ {p} : post'[q] = post[q]
        /\ post[p].pc = "get" /\ store' = store
    BY <1>0, <1>3 DEF GetAgent, Posts
  <2>2. QED
    BY <1>0, <1>1, <2>1 DEF VersionInv, VersionOK
<1>4. ASSUME ListPods(p) \/ PurgeBeforeCreate(p) PROVE VersionInv'
  <2>1. /\ post'[p].pc \in {"purge", "create"} /\ post'[p].name = post[p].name
        /\ post'[p].rv = post[p].rv
        /\ \A q \in Posters \ {p} : post'[q] = post[q]
        /\ post[p].pc \in {"list", "purge"} /\ store' = store
    BY <1>0, <1>4 DEF ListPods, PurgeBeforeCreate, Posts
  <2>2. QED
    BY <1>0, <1>1, <2>1 DEF VersionInv, VersionOK
<1>5. ASSUME CreateAgent(p) \/ UpdateAgent(p) PROVE VersionInv'
  <2>1. /\ \A q \in Posters \ {p} : post'[q] = post[q]
        /\ post'[p].pc = "cache" /\ post'[p].name = post[p].name
        /\ post'[p].rv = post[p].rv
        /\ \A a \in Agents : store[a].rv <= store'[a].rv
    BY <1>0, <1>5, WriteVersions DEF CreateAgent, UpdateAgent
  <2>2. \A a \in Agents : store'[a].rv \in Int /\ store[a].rv \in Int
    BY <1>5, WriteVersions, <1>0 DEF CreateAgent, UpdateAgent
  <2>3. \A q \in Posters : post[q].rv \in Int
    BY <1>0 DEF Posts
  <2>4. QED
    BY <1>0, <1>5, <2>1, <2>2, <2>3 DEF VersionInv, VersionOK, CreateAgent, UpdateAgent
<1>6. ASSUME CacheReport(p) PROVE VersionInv'
  <2>1. post'[p] = IdlePost /\ store' = store
        /\ \A q \in Posters \ {p} : post'[q] = post[q]
    BY <1>0, <1>6 DEF CacheReport, Return
  <2>2. QED
    BY <1>1, <2>1 DEF VersionOK, IdlePost
<1>7. QED
  BY <1>2, <1>3, <1>4, <1>5, <1>6 DEF Post

LEMMA VersionInvariance == Spec => []VersionInv
<1>1. Init => VersionInv
  BY DEF Init, VersionInv, VersionOK, IdlePost
<1>2. TypeInv /\ VersionInv /\ [Next]_vars => VersionInv'
  <2> SUFFICES ASSUME TypeInv, VersionInv, [Next]_vars PROVE VersionInv'
    OBVIOUS
  <2>1. CASE UNCHANGED <<post, store>>
    BY <2>1 DEF VersionInv, VersionOK
  <2>2. CASE Crash
    BY <2>2 DEF Crash, VersionInv, VersionOK, IdlePost
  <2>3. ASSUME NEW r \in Readers, Get(r) PROVE UNCHANGED <<post, store>>
    BY <2>3 DEF Get, Request, ListPodsForCleanCache, CleanCache, CountCache,
                ListPodsToCheck, FetchAgent, JudgeAgent, AnswerCheck, GetAgents,
                GetSingleAgent, Close
  <2>4. QED
    BY <2>1, <2>2, <2>3, PostVersions
       DEF Next, World, Tick, PodStart, PodStop, vars
<1>3. QED
  BY <1>1, <1>2, TypeInvariance, PTL DEF Spec

\* A step that leaves the store alone and makes nobody a holder is a Release.
LEMMA Releases ==
    ASSUME store' = store,
           \A a \in Agents : \A p \in Posters : Holds(p, a)' => Holds(p, a)
    PROVE  CS!Release
<1>1. \A a \in Agents : Holders(a)' \subseteq Holders(a)
  BY DEF Holders, Reporting, Holds
<1>2. \A a \in Agents : Holders(a)' \subseteq Posters
  BY DEF Holders, Reporting
<1>3. QED
  BY <1>1, <1>2 DEF CS!Release

\* Looking a resource up takes a reservation, or fails and changes nothing.
LEMMA GetReserves ==
    ASSUME TypeInv, VersionInv, NEW p \in Posters, GetAgent(p)
    PROVE  CS!Next
<1>0. PICK a \in Agents : a = post[p].name
  BY DEF TypeInv, TypeOK, Named, Working, GetAgent
<1>1. /\ post \in [Posters -> Posts]
      /\ store \in [Agents -> [rv : Nat, spec : Specs]]
  BY DEF TypeInv, TypeOK, Named, Working, GetAgent
<1>2. /\ post[p].pc = "get" /\ post[p].rv = 0 /\ store' = store
      /\ \A q \in Posters \ {p} : post'[q] = post[q]
      /\ post'[p].name = a
  BY <1>0, <1>1 DEF GetAgent, VersionInv, VersionOK, Posts
<1>3. \A b \in Agents, q \in Posters \ {p} : Holds(q, b)' <=> Holds(q, b)
  BY <1>2 DEF Holds
<1>4. \A b \in Agents \ {a} : ~Holds(p, b)'
  BY <1>2 DEF Holds
<1>5. \A b \in Agents : ~Holds(p, b)
  BY <1>2 DEF Holds
<1>6. CASE Holds(p, a)'
  <2>1. Holders(a)' = Holders(a) \cup {p}
    BY <1>1, <1>3, <1>6, HoldersAreHolding DEF Holders, Reporting, Holds
  <2>2. \A b \in Agents \ {a} : Holders(b)' = Holders(b)
    BY <1>3, <1>4, <1>5 DEF Holders, Reporting, Holds
  <2>3. CS!Reserve(p, a)
    BY <1>1, <1>2, <2>1, <2>2 DEF CS!Reserve
  <2>4. QED
    BY <1>1, <2>3 DEF CS!Next
<1>7. CASE ~Holds(p, a)'
  <2>1. \A b \in Agents, q \in Posters : Holds(q, b)' => Holds(q, b)
    BY <1>3, <1>4, <1>7
  <2>2. QED
    BY <1>2, <2>1, Releases DEF CS!Next
<1>8. QED
  BY <1>6, <1>7

\* An admitted request is the Commit of a holder, and any other a Release.
LEMMA WriteCommits ==
    ASSUME TypeInv, VersionInv, NEW p \in Posters,
           CreateAgent(p) \/ UpdateAgent(p)
    PROVE  CS!Next
<1>0. PICK a \in Agents : a = post[p].name
  BY DEF TypeInv, TypeOK, Named, Working, CreateAgent, UpdateAgent
<1> DEFINE admitted == \/ post[p].pc = "create" /\ store[a].rv = 0
                       \/ /\ post[p].pc = "update"
                          /\ post[p].rv # 0 /\ post[p].rv = store[a].rv
<1>1. /\ post \in [Posters -> Posts]
      /\ store \in [Agents -> [rv : Nat, spec : Specs]]
      /\ post[p].data \in AgentSpecs
  BY DEF TypeInv, TypeOK, Named, Working, CreateAgent, UpdateAgent
<1>2. /\ \A q \in Posters \ {p} : post'[q] = post[q]
      /\ post'[p].pc = "cache"
      /\ \A b \in Agents \ {a} : store'[b] = store[b]
      /\ \/ store' = store
         \/ /\ admitted
            /\ store'[a].rv = store[a].rv + 1
            /\ store'[a].spec = post[p].data
  <2>1. CASE post[p].pc = "create" /\ Write(p, store[post[p].name].rv = 0)
    <3>1. PICK sent \in BOOLEAN : sent <=> store[post[p].name].rv = 0
      OBVIOUS
    <3>2. Write(p, sent)
      BY <2>1, <3>1 DEF Write
    <3>3. QED
      BY <1>0, <2>1, <3>1, <3>2, WriteVersions
  <2>2. CASE /\ post[p].pc = "update"
             /\ Write(p, post[p].rv # 0 /\ post[p].rv = store[post[p].name].rv)
    <3>1. PICK sent \in BOOLEAN : sent <=> post[p].rv # 0 /\ post[p].rv = store[post[p].name].rv
      OBVIOUS
    <3>2. Write(p, sent)
      BY <2>2, <3>1 DEF Write
    <3>3. QED
      BY <1>0, <2>2, <3>1, <3>2, WriteVersions
  <2>3. QED
    BY <2>1, <2>2 DEF CreateAgent, UpdateAgent
<1>3. \A b \in Agents : ~Holds(p, b)'
  BY <1>2 DEF Holds
<1>4. CASE store' = store
  <2>1. \A b \in Agents, q \in Posters : Holds(q, b)' => Holds(q, b)
    BY <1>2, <1>3, <1>4 DEF Holds
  <2>2. QED
    BY <1>4, <2>1, Releases DEF CS!Next
<1>5. CASE /\ admitted
           /\ store'[a].rv = store[a].rv + 1
           /\ store'[a].spec = post[p].data
  <2>1. Holds(p, a)
    BY <1>0, <1>5 DEF Holds, VersionInv, VersionOK
  <2>2. ASSUME NEW q \in Posters PROVE ~Holds(q, a)'
    <3>1. CASE q = p
      BY <1>1, <1>3, <3>1
    <3>2. CASE q # p
      <4>1. post[q].name = a /\ post[q].pc # "idle" => post[q].rv <= store[a].rv
        BY DEF VersionInv, VersionOK
      <4>2. post[q].rv \in Int /\ store[a].rv \in Int
        BY <1>1 DEF Posts
      <4>3. QED
        BY <1>2, <1>5, <3>2, <4>1, <4>2 DEF Holds
    <3>3. QED
      BY <3>1, <3>2
  <2>3. Holders(a)' = {}
    BY <2>2 DEF Holders, Reporting, Holds
  <2>4. p \in Holders(a)
    BY <2>1, HoldersAreHolding
  <2>5. \A b \in Agents \ {a} : Holders(b)' = Holders(b)
    <3>1. \A b \in Agents \ {a} : ~Holds(p, b)
      BY <1>0 DEF Holds
    <3>2. \A b \in Agents \ {a}, q \in Posters \ {p} : Holds(q, b)' <=> Holds(q, b)
      BY <1>2 DEF Holds
    <3>3. QED
      BY <1>3, <3>1, <3>2 DEF Holders, Reporting, Holds
  <2>6. PICK v \in AgentSpecs : v = post[p].data
    BY <1>1
  <2>7. CS!Commit(p, a, v)
    BY <1>1, <1>2, <1>5, <2>3, <2>4, <2>5, <2>6 DEF CS!Commit
  <2>8. QED
    BY <2>7 DEF CS!Next
<1>6. QED
  BY <1>2, <1>4, <1>5

\* The protocol of Get, then Create or Update with the version that Get returned,
\* implements the conditional store, with any failures and restarts: no report
\* that was persisted is replaced by a handler that has not seen it.
THEOREM StorageImplementsConditionalStore == Spec => ImplementsConditionalStore
<1>1. Init => CS!Init
  BY DEF Init, Missing, IdlePost, Holders, Reporting, CS!Init
<1>2. TypeInv /\ VersionInv /\ [Next]_vars => [CS!Next]_CS!vars
  <2> SUFFICES ASSUME TypeInv, VersionInv, [Next]_vars PROVE CS!Next
    OBVIOUS
  <2>0. post \in [Posters -> Posts]
    BY DEF TypeInv, TypeOK
  <2>1. CASE UNCHANGED <<post, store>>
    <3>1. \A a \in Agents, p \in Posters : Holds(p, a)' => Holds(p, a)
      BY <2>1 DEF Holds
    <3>2. QED
      BY <2>1, <3>1, Releases DEF CS!Next
  <2>2. CASE Crash
    <3>1. \A a \in Agents, p \in Posters : ~Holds(p, a)'
      BY <2>2 DEF Crash, Holds, IdlePost
    <3>2. QED
      BY <2>2, <3>1, Releases DEF Crash, CS!Next
  <2>3. ASSUME NEW r \in Readers, Get(r) PROVE UNCHANGED <<post, store>>
    BY <2>3 DEF Get, Request, ListPodsForCleanCache, CleanCache, CountCache,
                ListPodsToCheck, FetchAgent, JudgeAgent, AnswerCheck, GetAgents,
                GetSingleAgent, Close
  <2>4. ASSUME NEW p \in Posters,
               ListPods(p) \/ PurgeBeforeCreate(p) \/ CacheReport(p)
               \/ \E a \in Agents, i \in Intervals : ReceiveReport(p, a, i)
        PROVE  CS!Next
    <3>1. /\ \A q \in Posters \ {p} : post'[q] = post[q]
          /\ store' = store
          /\ \/ post'[p].pc \in {"idle", "get"}
             \/ /\ post[p].pc \in {"list", "purge"}
                /\ post'[p].pc \in {"purge", "create"}
                /\ post'[p].name = post[p].name /\ post'[p].rv = post[p].rv
      <4>1. CASE ListPods(p)
        BY <2>0, <4>1 DEF ListPods, Posts
      <4>2. CASE PurgeBeforeCreate(p)
        BY <2>0, <4>2 DEF PurgeBeforeCreate, Posts
      <4>3. CASE CacheReport(p)
        BY <2>0, <4>3 DEF CacheReport, Return, IdlePost
      <4>4. ASSUME NEW a \in Agents, NEW i \in Intervals, ReceiveReport(p, a, i)
            PROVE  /\ \A q \in Posters \ {p} : post'[q] = post[q]
                   /\ store' = store /\ post'[p].pc = "get"
        BY <2>0, <4>4 DEF ReceiveReport, Posts
      <4>5. QED
        BY <2>4, <4>1, <4>2, <4>3, <4>4
    <3>2. \A a \in Agents, q \in Posters : Holds(q, a)' => Holds(q, a)
      BY <3>1 DEF Holds
    <3>3. QED
      BY <3>1, <3>2, Releases DEF CS!Next
  <2>5. QED
    BY <2>1, <2>2, <2>3, <2>4, GetReserves, WriteCommits
       DEF Next, World, Tick, PodStart, PodStop, Post, vars
<1>3. QED
  BY <1>1, <1>2, TypeInvariance, VersionInvariance, PTL
     DEF Spec, ImplementsConditionalStore, CS!Spec

==============================================================================
