--------------------------- MODULE K8sHistoryProofs ---------------------------
(* Theorems about the Kubernetes storage: some when the reports of one agent  *)
(* are served one at a time (Overlap = FALSE), others when no call to the API *)
(* server fails (Faults = FALSE).  These are assumptions on the surroundings, *)
(* the ones under which the runs check the same statements; the agents, the   *)
(* handlers, the intervals and the bounds are arbitrary.                      *)
EXTENDS K8sAgentStorageProofs

------------------------------------------------------------------------------
(* What the steps of a POST handler do to its record and to the store.        *)

\* Only the handler that moves changes its record.
LEMMA OnlyPosterMoves ==
    ASSUME TypeInv, NEW p \in Posters, Post(p)
    PROVE  /\ \A q \in Posters \ {p} : post'[q] = post[q]
           /\ UNCHANGED <<now, phase, get, asked>>
<1>1. post \in [Posters -> Posts]
  BY DEF TypeInv, TypeOK
<1>2. \A q \in Posters \ {p} : post'[q] = post[q]
  BY <1>1 DEF Post, ReceiveReport, GetAgent, ListPods, PurgeBeforeCreate,
              CreateAgent, UpdateAgent, Write, CacheReport, Return
<1>3. UNCHANGED <<now, phase, get, asked>>
  BY DEF Post, ReceiveReport, GetAgent, ListPods, PurgeBeforeCreate,
         CreateAgent, UpdateAgent, CacheReport, Return
<1>4. QED
  BY <1>2, <1>3

\* A received report.
LEMMA ReceiveFields ==
    ASSUME TypeInv, NEW p \in Posters, NEW a \in Agents, NEW i \in Intervals,
           ReceiveReport(p, a, i)
    PROVE  /\ post[p].pc = "idle"
           /\ post'[p].pc = "get" /\ post'[p].name = a /\ post'[p].data.at = now
           /\ post'[p].found = post[p].found
           /\ UNCHANGED <<store, cache, accepted>>
<1>1. post \in [Posters -> Posts]
  BY DEF TypeInv, TypeOK
<1>2. /\ post'[p].pc = "get" /\ post'[p].name = a /\ post'[p].data = Stamped(i)
      /\ post'[p].found = post[p].found
  BY <1>1 DEF ReceiveReport, Posts
<1>3. QED
  BY <1>2 DEF ReceiveReport, Stamped

\* The steps between the arrival of a report and its write.
Prepare(p) == GetAgent(p) \/ ListPods(p) \/ PurgeBeforeCreate(p)

LEMMA PrepareFields ==
    ASSUME TypeInv, NEW p \in Posters, Prepare(p)
    PROVE  /\ post[p].pc \in {"get", "list", "purge"}
           /\ post'[p].pc \in {"list", "update", "purge", "create"}
           /\ post'[p].name = post[p].name /\ post'[p].data = post[p].data
           /\ UNCHANGED <<store, accepted>>
<1>1. post \in [Posters -> Posts]
  BY DEF TypeInv, TypeOK
<1>2. CASE GetAgent(p)
  BY <1>1, <1>2 DEF GetAgent, Posts
<1>3. CASE ListPods(p)
  BY <1>1, <1>3 DEF ListPods, Posts
<1>4. CASE PurgeBeforeCreate(p)
  BY <1>1, <1>4 DEF PurgeBeforeCreate, Posts
<1>5. QED
  BY <1>2, <1>3, <1>4 DEF Prepare

\* The write of a report: refused or lost, or carried out.
Refused(p) == UNCHANGED <<store, accepted>> /\ post'[p].result = ZeroSpec

CarriedOut(p) ==
    LET a == post[p].name
    IN  /\ store'[a] = [rv |-> store[a].rv + 1, spec |-> post[p].data]
        /\ accepted'[a] = accepted[a] \cup {post[p].data}
        /\ \A b \in Agents \ {a} : store'[b] = store[b] /\ accepted'[b] = accepted[b]
        /\ post'[p].result \in {post[p].data, ZeroSpec}

LEMMA WriteFields ==
    ASSUME TypeInv, NEW p \in Posters, CreateAgent(p) \/ UpdateAgent(p)
    PROVE  /\ post[p].pc \in {"create", "update"} /\ post'[p].pc = "cache"
           /\ post'[p].name = post[p].name /\ post'[p].data = post[p].data
           /\ cache' = cache
           /\ Refused(p) \/ CarriedOut(p)
<1>1. /\ post \in [Posters -> Posts]
      /\ store \in [Agents -> [rv : Nat, spec : Specs]]
      /\ accepted \in [Agents -> SUBSET AgentSpecs]
  BY DEF TypeInv, TypeOK
<1>2. post[p].pc \in {"create", "update"} /\ cache' = cache
  BY DEF CreateAgent, UpdateAgent
<1>3. post[p].name \in Agents
  BY <1>2 DEF TypeInv, Named, Working
<1>4. PICK admitted \in BOOLEAN : Write(p, admitted)
  BY DEF CreateAgent, UpdateAgent
<1>5. /\ post'[p].pc = "cache"
      /\ post'[p].name = post[p].name /\ post'[p].data = post[p].data
  BY <1>1, <1>4 DEF Write, Posts
<1>6. CASE /\ UNCHANGED <<store, accepted>>
           /\ post' = [post EXCEPT ![p].pc = "cache", ![p].result = ZeroSpec]
  BY <1>1, <1>2, <1>5, <1>6 DEF Refused, Posts
<1>7. CASE LET a == post[p].name
           IN  /\ store' = [store EXCEPT ![a] = [rv |-> store[a].rv + 1,
                                                 spec |-> post[p].data]]
               /\ accepted' = [accepted EXCEPT ![a] = @ \cup {post[p].data}]
               /\ \/ post' = [post EXCEPT ![p].pc = "cache",
                                          ![p].result = post[p].data]
                  \/ post' = [post EXCEPT ![p].pc = "cache", ![p].result = ZeroSpec]
  <2>1. post'[p].result \in {post[p].data, ZeroSpec}
    BY <1>1, <1>7 DEF Posts
  <2>2. CarriedOut(p)
    BY <1>1, <1>3, <1>7, <2>1 DEF CarriedOut
  <2>3. QED
    BY <1>2, <1>5, <2>2
<1>8. QED
  BY <1>4, <1>6, <1>7 DEF Write

\* A handler that has written is done once it has cached the result.
LEMMA ReturnFields ==
    ASSUME TypeInv, NEW p \in Posters, CacheReport(p)
    PROVE  /\ post[p].pc = "cache" /\ post[p].name \in Agents
           /\ post'[p] = IdlePost
           /\ UNCHANGED <<store, accepted>>
<1>1. post \in [Posters -> Posts]
  BY DEF TypeInv, TypeOK
<1>2. QED
  BY <1>1 DEF CacheReport, Return, TypeInv, Named, Working

\* The steps of a POST handler, sorted.
LEMMA PostSteps ==
    ASSUME NEW p \in Posters, Post(p)
    PROVE  \/ \E a \in Agents, i \in Intervals : ReceiveReport(p, a, i)
           \/ Prepare(p)
           \/ CreateAgent(p) \/ UpdateAgent(p)
           \/ CacheReport(p)
  BY DEF Post, Prepare

------------------------------------------------------------------------------
(* One report of an agent at a time.  A handler that is idle has no agent,    *)
(* and no two handlers have the same one.                                     *)

IdleUnnamed(p) == post[p].pc = "idle" => post[p].name = NoAgent

Alone(p) == \A q \in Posters \ {p} :
                post[q].name = post[p].name => post[p].name = NoAgent

OneAtATime == \A p \in Posters : IdleUnnamed(p) /\ Alone(p)

\* A handler that takes on no new agent leaves the others alone.
LEMMA AloneStays ==
    ASSUME OneAtATime, NEW p \in Posters,
           \A q \in Posters \ {p} : post'[q] = post[q],
           post'[p].name \in {post[p].name, NoAgent}, IdleUnnamed(p)'
    PROVE  OneAtATime'
  BY DEF OneAtATime, IdleUnnamed, Alone

LEMMA OneAtATimeStep ==
    ASSUME Overlap = FALSE, TypeInv, OneAtATime, [Next]_vars PROVE OneAtATime'
<1>1. CASE UNCHANGED post
  BY <1>1 DEF OneAtATime, IdleUnnamed, Alone
<1>2. CASE World
  BY <1>1, <1>2 DEF World, Tick, PodStart, PodStop
<1>3. ASSUME NEW r \in Readers, Get(r) PROVE OneAtATime'
  BY <1>1, <1>3 DEF Get, Request, ListPodsForCleanCache, CleanCache, CountCache,
                    ListPodsToCheck, FetchAgent, JudgeAgent, AnswerCheck,
                    GetAgents, GetSingleAgent, Close
<1>4. CASE Crash
  <2>1. \A p \in Posters : post'[p] = IdlePost
    BY <1>4 DEF Crash
  <2>2. QED
    BY <2>1 DEF OneAtATime, IdleUnnamed, Alone, IdlePost
<1>5. ASSUME NEW p \in Posters, Post(p) PROVE OneAtATime'
  <2>1. \A q \in Posters \ {p} : post'[q] = post[q]
    BY <1>5, OnlyPosterMoves
  <2>2. ASSUME NEW a \in Agents, NEW i \in Intervals, ReceiveReport(p, a, i)
        PROVE  OneAtATime'
    <3>1. \A q \in Posters : post[q].name # a
      BY <2>2 DEF ReceiveReport, Reporting
    <3>2. post'[p].pc = "get" /\ post'[p].name = a
      BY <2>2, ReceiveFields
    <3>3. QED
      BY <2>1, <3>1, <3>2 DEF OneAtATime, IdleUnnamed, Alone
  <2>3. CASE Prepare(p)
    BY <2>1, <2>3, PrepareFields, AloneStays DEF IdleUnnamed
  <2>4. CASE CreateAgent(p) \/ UpdateAgent(p)
    BY <2>1, <2>4, WriteFields, AloneStays DEF IdleUnnamed
  <2>5. CASE CacheReport(p)
    <3>1. post'[p].pc = "idle" /\ post'[p].name = NoAgent
      BY <2>5, ReturnFields DEF IdlePost
    <3>2. QED
      BY <2>1, <3>1, AloneStays DEF IdleUnnamed
  <2>6. QED
    BY <1>5, <2>2, <2>3, <2>4, <2>5, PostSteps
<1>6. CASE UNCHANGED vars
  BY <1>1, <1>6 DEF vars
<1>7. QED
  BY <1>2, <1>3, <1>4, <1>5, <1>6 DEF Next

\* It holds throughout, if reports of an agent do not overlap.
LEMMA OneAtATimeInvariance == ASSUME Overlap = FALSE PROVE Spec => []OneAtATime
<1>1. Init => OneAtATime
  BY DEF Init, OneAtATime, IdleUnnamed, Alone, IdlePost
<1>2. TypeInv /\ OneAtATime /\ [Next]_vars => OneAtATime'
  BY OneAtATimeStep
<1>3. QED
  BY <1>1, <1>2, TypeInvariance, PTL DEF Spec

------------------------------------------------------------------------------
(* What the handler of an agent relies on when nobody else writes that         *)
(* agent's resource: the stored report is the latest ever accepted, the one    *)
(* being served is at least as late as any accepted, and once it is written    *)
(* the result is what is stored.                                               *)

LatestStored(a) == \A s \in accepted[a] : s.at <= store[a].spec.at /\ s.at <= now

Timely(p) ==
    /\ post[p].pc # "idle" => post[p].data.at <= now
    /\ post[p].pc \notin {"idle", "cache"} =>
          \A s \in accepted[post[p].name] : s.at <= post[p].data.at

ResultStored(p) == post[p].pc = "cache" =>
                      post[p].result \in {store[post[p].name].spec, ZeroSpec}

OrderInv == /\ \A a \in Agents : LatestStored(a)
            /\ \A p \in Posters : Timely(p) /\ ResultStored(p)
            /\ CacheFollowsStore

\* Times are numbers.
LEMMA Times ==
    ASSUME TypeInv
    PROVE  /\ now \in Int
           /\ \A a \in Agents : \A s \in accepted[a] : s.at \in Int
           /\ \A a \in Agents : store[a].spec.at \in Int
           /\ \A p \in Posters : post[p].data.at \in Int
<1>1. \A s \in Specs : s.at \in Int
  BY SpecNumbers DEF Specs, ZeroSpec
<1>2. now \in Int
  BY BoundsAssumption DEF TypeInv, TypeOK
<1>3. \A a \in Agents : \A s \in accepted[a] : s \in Specs
  BY DEF TypeInv, TypeOK, Specs
<1>4. \A a \in Agents : store[a].spec \in Specs
  BY DEF TypeInv, TypeOK
<1>5. \A p \in Posters : post[p].data \in Specs
  BY DEF TypeInv, TypeOK, Posts
<1>6. QED
  BY <1>1, <1>2, <1>3, <1>4, <1>5

\* Where neither the store nor a handler moves, purging the cache and the
\* passing of time do no harm.
LEMMA OrderStays ==
    ASSUME TypeInv, TypeInv', OrderInv, UNCHANGED <<store, post, accepted>>,
           now <= now', DOMAIN cache' \subseteq DOMAIN cache,
           \A a \in DOMAIN cache' : cache'[a] = cache[a]
    PROVE  OrderInv'
<1>0. now \in Int /\ now' \in Int
  BY BoundsAssumption DEF TypeInv, TypeOK
<1>1. \A a \in Agents : LatestStored(a)'
  BY <1>0, Times DEF OrderInv, LatestStored
<1>2. ASSUME NEW p \in Posters PROVE Timely(p)' /\ ResultStored(p)'
  <2>1. post[p].data.at \in Int
    BY Times
  <2>2. QED
    BY <1>0, <2>1 DEF OrderInv, Timely, ResultStored
<1>3. CacheFollowsStore'
  BY DEF OrderInv, CacheFollowsStore, Reporting
<1>4. QED
  BY <1>1, <1>2, <1>3 DEF OrderInv

\* A handler that only prepares its write, possibly after a purge.
LEMMA OrderPrepares ==
    ASSUME TypeInv, OrderInv, NEW p \in Posters, Post(p), Prepare(p)
    PROVE  OrderInv'
<1>1. /\ post[p].pc \in {"get", "list", "purge"}
      /\ post'[p].pc \in {"list", "update", "purge", "create"}
      /\ post'[p].name = post[p].name /\ post'[p].data = post[p].data
      /\ UNCHANGED <<store, accepted>>
  BY PrepareFields
<1>2. /\ \A q \in Posters \ {p} : post'[q] = post[q]
      /\ now' = now
  BY OnlyPosterMoves
<1>3. DOMAIN cache' \subseteq DOMAIN cache /\ \A a \in DOMAIN cache' : cache'[a] = cache[a]
  BY DEF Prepare, GetAgent, ListPods, PurgeBeforeCreate, Purge
<1>4. \A a \in Agents : LatestStored(a)'
  BY <1>1, <1>2 DEF OrderInv, LatestStored
<1>5. \A q \in Posters : Timely(q)' /\ ResultStored(q)'
  BY <1>1, <1>2 DEF OrderInv, Timely, ResultStored
<1>6. CacheFollowsStore'
  BY <1>1, <1>2, <1>3 DEF OrderInv, CacheFollowsStore, Reporting
<1>7. QED
  BY <1>4, <1>5, <1>6 DEF OrderInv

\* The arrival of a report: its stamp is the present.
LEMMA OrderReceives ==
    ASSUME TypeInv, OneAtATime, OrderInv, NEW p \in Posters, NEW a \in Agents,
           NEW i \in Intervals, Post(p), ReceiveReport(p, a, i)
    PROVE  OrderInv'
<1>1. /\ post'[p].pc = "get" /\ post'[p].name = a /\ post'[p].data.at = now
      /\ UNCHANGED <<store, cache, accepted>>
  BY ReceiveFields
<1>2. /\ \A q \in Posters \ {p} : post'[q] = post[q]
      /\ now' = now
  BY OnlyPosterMoves
<1>3. \A b \in Agents : LatestStored(b)'
  BY <1>1, <1>2 DEF OrderInv, LatestStored
<1>4. Timely(p)' /\ ResultStored(p)'
  BY <1>1, <1>2, Times DEF OrderInv, LatestStored, Timely, ResultStored
<1>5. \A q \in Posters \ {p} : Timely(q)' /\ ResultStored(q)'
  BY <1>1, <1>2 DEF OrderInv, Timely, ResultStored
<1>6. CacheFollowsStore'
  <2> SUFFICES ASSUME NEW b \in DOMAIN cache, Reporting(b)' = {}
               PROVE  cache[b] \in {store[b].spec, ZeroSpec}
    BY <1>1 DEF CacheFollowsStore
  <2>1. post[p].name = NoAgent
    BY ReceiveFields DEF OneAtATime, IdleUnnamed
  <2>2. b \in Agents
    BY DEF TypeInv, TypeOK
  <2>3. Reporting(b) = {}
    BY <1>2, <2>1, <2>2, AgentsAssumption DEF Reporting
  <2>4. QED
    BY <2>3 DEF OrderInv, CacheFollowsStore
<1>7. QED
  BY <1>3, <1>4, <1>5, <1>6 DEF OrderInv

\* The write of the only report of its agent.
LEMMA OrderWrites ==
    ASSUME TypeInv, OneAtATime, OrderInv, NEW p \in Posters, Post(p),
           CreateAgent(p) \/ UpdateAgent(p)
    PROVE  OrderInv'
<1>0. PICK a \in Agents : a = post[p].name
  BY WriteFields DEF TypeInv, Named, Working
<1>1. /\ post[p].pc \in {"create", "update"} /\ post'[p].pc = "cache"
      /\ post'[p].name = a /\ post'[p].data = post[p].data
      /\ cache' = cache
      /\ Refused(p) \/ CarriedOut(p)
  BY <1>0, WriteFields
<1>2. /\ \A q \in Posters \ {p} : post'[q] = post[q]
      /\ now' = now
  BY OnlyPosterMoves
<1>3. \A q \in Posters \ {p} : post[q].name # a
  BY <1>0, AgentsAssumption DEF OneAtATime, Alone
<1>4. CASE Refused(p)
  <2>1. \A b \in Agents : LatestStored(b)'
    BY <1>2, <1>4 DEF Refused, OrderInv, LatestStored
  <2>2. \A q \in Posters : Timely(q)' /\ ResultStored(q)'
    BY <1>1, <1>2, <1>4 DEF Refused, OrderInv, Timely, ResultStored
  <2>3. CacheFollowsStore'
    BY <1>0, <1>1, <1>2, <1>4 DEF Refused, OrderInv, CacheFollowsStore, Reporting
  <2>4. QED
    BY <2>1, <2>2, <2>3 DEF OrderInv
<1>5. CASE CarriedOut(p)
  <2>1. /\ store'[a].spec = post[p].data
        /\ accepted'[a] = accepted[a] \cup {post[p].data}
        /\ \A b \in Agents \ {a} : store'[b] = store[b] /\ accepted'[b] = accepted[b]
        /\ post'[p].result \in {post[p].data, ZeroSpec}
    BY <1>0, <1>5 DEF CarriedOut
  <2>2. /\ post[p].data.at <= now
        /\ \A s \in accepted[a] : s.at <= post[p].data.at
    BY <1>0, <1>1 DEF OrderInv, Timely
  <2>3. LatestStored(a)'
    BY <1>2, <2>1, <2>2, Times DEF OrderInv, LatestStored
  <2>4. \A b \in Agents \ {a} : LatestStored(b)'
    BY <1>2, <2>1 DEF OrderInv, LatestStored
  <2>5. Timely(p)' /\ ResultStored(p)'
    BY <1>1, <1>2, <2>1, <2>2 DEF Timely, ResultStored
  <2>6. ASSUME NEW q \in Posters \ {p} PROVE Timely(q)' /\ ResultStored(q)'
    <3>1. post[q].pc # "idle" => post[q].name \in Agents \ {a}
      BY <1>3 DEF TypeInv, Named, Working
    <3>2. QED
      BY <1>2, <2>1, <3>1 DEF OrderInv, Timely, ResultStored
  <2>7. CacheFollowsStore'
    <3>1. \A b \in Agents : p \in Reporting(b)' <=> b = a
      BY <1>1 DEF Reporting
    <3>2. \A b \in Agents \ {a} : Reporting(b)' = Reporting(b)
      BY <1>0, <1>1, <1>2 DEF Reporting
    <3>3. DOMAIN cache \subseteq Agents
      BY DEF TypeInv, TypeOK
    <3>4. QED
      BY <1>1, <2>1, <3>1, <3>2, <3>3 DEF OrderInv, CacheFollowsStore
  <2>8. QED
    BY <2>3, <2>4, <2>5, <2>6, <2>7 DEF OrderInv
<1>6. QED
  BY <1>1, <1>4, <1>5

\* The result is cached, and the handler ends.
LEMMA OrderReturns ==
    ASSUME TypeInv, OneAtATime, OrderInv, NEW p \in Posters, Post(p), CacheReport(p)
    PROVE  OrderInv'
<1> DEFINE a == post[p].name
<1>1. /\ post[p].pc = "cache" /\ a \in Agents
      /\ post'[p] = IdlePost
      /\ UNCHANGED <<store, accepted>>
  BY ReturnFields
<1>2. /\ \A q \in Posters \ {p} : post'[q] = post[q]
      /\ now' = now
  BY OnlyPosterMoves
<1>3. \A b \in Agents : LatestStored(b)'
  BY <1>1, <1>2 DEF OrderInv, LatestStored
<1>4. \A q \in Posters : Timely(q)' /\ ResultStored(q)'
  BY <1>1, <1>2 DEF OrderInv, Timely, ResultStored, IdlePost
<1>5. CacheFollowsStore'
  <2>1. post[p].result \in {store[a].spec, ZeroSpec}
    BY <1>1 DEF OrderInv, ResultStored
  <2>2. \A b \in Agents \ {a} : Reporting(b)' = {} => Reporting(b) = {}
    BY <1>2 DEF Reporting
  <2>3. /\ DOMAIN cache' = DOMAIN cache \cup {a}
        /\ cache'[a] = post[p].result
        /\ \A b \in DOMAIN cache \ {a} : cache'[b] = cache[b]
    BY DEF CacheReport, Put
  <2>4. DOMAIN cache \subseteq Agents
    BY DEF TypeInv, TypeOK
  <2>5. QED
    BY <1>1, <2>1, <2>2, <2>3, <2>4 DEF OrderInv, CacheFollowsStore
<1>6. QED
  BY <1>3, <1>4, <1>5 DEF OrderInv

\* Every step keeps the order of the reports.
LEMMA OrderStep ==
    ASSUME TypeInv, TypeInv', OneAtATime, OrderInv, [Next]_vars PROVE OrderInv'
<1>0. now \in Int /\ now <= now
  BY Times
<1>1. CASE World
  BY <1>0, <1>1, OrderStays DEF World, Tick, PodStart, PodStop
<1>2. ASSUME NEW p \in Posters, Post(p) PROVE OrderInv'
  BY <1>2, PostSteps, OrderReceives, OrderPrepares, OrderWrites, OrderReturns
<1>3. ASSUME NEW r \in Readers, Get(r) PROVE OrderInv'
  <2>1. CASE CleanCache(r)
    BY <1>0, <2>1, OrderStays DEF CleanCache, Purge
  <2>2. CASE UNCHANGED <<now, store, cache, post, accepted>>
    BY <1>0, <2>2, OrderStays
  <2>3. QED
    BY <1>3, <2>1, <2>2
       DEF Get, Request, ListPodsForCleanCache, CountCache, ListPodsToCheck,
           FetchAgent, JudgeAgent, AnswerCheck, GetAgents, GetSingleAgent, Close
<1>4. CASE Crash
  <2>1. /\ DOMAIN cache' = {}
        /\ \A p \in Posters : post'[p] = IdlePost
        /\ UNCHANGED <<now, store, accepted>>
    BY <1>4 DEF Crash, EmptyCache
  <2>2. QED
    BY <2>1 DEF OrderInv, LatestStored, Timely, ResultStored, CacheFollowsStore,
                IdlePost
<1>5. CASE UNCHANGED vars
  BY <1>0, <1>5, OrderStays DEF vars
<1>6. QED
  BY <1>1, <1>2, <1>3, <1>4, <1>5 DEF Next

\* The order of the reports holds throughout.
LEMMA OrderInvariance == ASSUME Overlap = FALSE PROVE Spec => []OrderInv
<1>1. Init => OrderInv
  BY DEF Init, OrderInv, LatestStored, Timely, ResultStored, CacheFollowsStore,
         EmptyCache, IdlePost
<1>2. TypeInv /\ TypeInv' /\ OneAtATime /\ OrderInv /\ [Next]_vars => OrderInv'
  BY OrderStep
<1>3. QED
  BY <1>1, <1>2, TypeInvariance, OneAtATimeInvariance, PTL DEF Spec

\* Reports of one agent served one at a time: between two of them its entry of
\* NcAgentCache is what the API server stores, or empty, whatever fails, however
\* purges interleave with it, and wherever the process dies.
THEOREM CacheFollows == ASSUME Overlap = FALSE PROVE Spec => []CacheFollowsStore
<1>1. OrderInv => CacheFollowsStore
  BY DEF OrderInv
<1>2. QED
  BY <1>1, OrderInvariance, PTL

------------------------------------------------------------------------------
(* The verdict "outdated".  The report a check judges is the latest of those   *)
(* known when the check was asked for, because the store holds the latest; an  *)
(* overdue report stays overdue.                                               *)

\* No report known to r when it began is later than s.
LatestKnown(r, a, s) == \A k \in asked[r].known[a] : k.at <= s.at

SilentOK(r) ==
    /\ get[r].pc \notin {"fetch", "judge", "done"} => get[r].outdated = {}
    /\ get[r].pc = "judge" => LatestKnown(r, get[r].name, get[r].spec)
    /\ \A a \in get[r].outdated :
          \E s \in accepted[a] : Overdue(s) /\ LatestKnown(r, a, s)

SilentInv == \A r \in Readers : SilentOK(r)

\* What is overdue stays so.
LEMMA StaysOverdue ==
    ASSUME NEW s \in AgentSpecs, now \in Int, now' \in Int, now <= now', Overdue(s)
    PROVE  Overdue(s)'
<1>1. s.at \in Int /\ s.interval \in Int
  BY SpecNumbers
<1>2. now - s.at > s.interval * 2 => now' - s.at > s.interval * 2
  BY <1>1
<1>3. QED
  BY <1>2 DEF Overdue

\* A reader that does not move keeps what it has established.
LEMMA SilentStays ==
    ASSUME TypeInv, SilentInv, NEW r \in Readers,
           get'[r] = get[r], asked'[r] = asked[r], now' \in Int, now <= now',
           \A a \in Agents : accepted[a] \subseteq accepted'[a]
    PROVE  SilentOK(r)'
<1>1. /\ get[r].outdated \subseteq Agents /\ now \in Int
      /\ \A a \in Agents : accepted[a] \subseteq AgentSpecs
  BY BoundsAssumption DEF TypeInv, TypeOK, Gets
<1>2. ASSUME NEW a \in get[r].outdated
      PROVE  (\E s \in accepted[a] : Overdue(s) /\ LatestKnown(r, a, s))'
  <2>1. PICK s \in accepted[a] : Overdue(s) /\ LatestKnown(r, a, s)
    BY DEF SilentInv, SilentOK
  <2>2. Overdue(s)'
    BY <1>1, <2>1, StaysOverdue
  <2>3. s \in accepted'[a] /\ LatestKnown(r, a, s)'
    BY <1>1, <2>1 DEF LatestKnown
  <2>4. QED
    BY <2>2, <2>3
<1>3. QED
  BY <1>2 DEF SilentInv, SilentOK, LatestKnown

\* A step of r that neither asks nor judges, and finds nobody outdated.
LEMMA SilentKeeps ==
    ASSUME SilentInv, NEW r \in Readers, UNCHANGED <<now, accepted, asked>>,
           get'[r].outdated \in {get[r].outdated, {}},
           get'[r].pc # "judge",
           get[r].pc \in {"fetch", "judge", "done"} => get'[r].pc \in {"fetch", "done"}
    PROVE  SilentOK(r)'
<1>1. \A a \in get[r].outdated :
          (\E s \in accepted[a] : Overdue(s) /\ LatestKnown(r, a, s))'
  BY DEF SilentInv, SilentOK, Overdue, LatestKnown
<1>2. QED
  BY <1>1 DEF SilentInv, SilentOK

\* Every step of a GET handler keeps what it knows of the silent.
LEMMA SilentMoves ==
    ASSUME TypeInv, StoreInv, ReaderInv, OrderInv, SilentInv,
           NEW r \in Readers, Get(r)
    PROVE  SilentOK(r)'
<1>0. /\ get \in [Readers -> Gets] /\ get[r] \in Gets
      /\ asked \in [Readers -> [at : 0..MaxTime,
                                known : [Agents -> SUBSET AgentSpecs]]]
      /\ Seeking(r) /\ AbsentOK(r) /\ FreshOK(r) /\ SilentOK(r)
  BY DEF TypeInv, TypeOK, Named, ReaderInv, SilentInv
<1>1. ASSUME NEW k, NEW a, Request(r, k, a) PROVE SilentOK(r)'
  <2>1. get'[r].pc = "list" /\ get'[r].outdated = {}
    BY <1>0, <1>1 DEF Request, Gets, SilentOK
  <2>2. QED
    BY <2>1 DEF SilentOK
<1>2. CASE ListPodsForCleanCache(r)
  <2>1. /\ get[r].pc = "list" /\ UNCHANGED <<now, accepted, asked>>
        /\ get[r].kind \in {"check", "dump", "single"}
    BY <1>0, <1>2 DEF ListPodsForCleanCache, Seeking
  <2>2. get'[r].pc \in {"purge", get[r].kind} /\ get'[r].outdated = get[r].outdated
    BY <1>0, <1>2 DEF ListPodsForCleanCache, Gets
  <2>3. QED
    BY <2>1, <2>2, SilentKeeps
<1>3. CASE CleanCache(r)
  <2>1. /\ get[r].pc = "purge" /\ UNCHANGED <<now, accepted, asked>>
        /\ get[r].kind \in {"check", "dump", "single"}
    BY <1>0, <1>3 DEF CleanCache, Seeking
  <2>2. get'[r].pc = get[r].kind /\ get'[r].outdated = get[r].outdated
    BY <1>0, <1>3 DEF CleanCache, Gets
  <2>3. QED
    BY <2>1, <2>2, SilentKeeps
<1>4. CASE CountCache(r)
  <2>1. /\ get[r].pc = "check" /\ UNCHANGED <<now, accepted, asked>>
        /\ get'[r].pc = "pods" /\ get'[r].outdated = get[r].outdated
    BY <1>0, <1>4 DEF CountCache, Gets
  <2>2. QED
    BY <2>1, SilentKeeps
<1>5. ASSUME NEW absent, NEW outdated \in {get[r].outdated, {}}, NEW listed,
             NEW status, Respond(r, absent, outdated, listed, status),
             UNCHANGED <<now, accepted, asked>>
      PROVE  SilentOK(r)'
  <2>1. get'[r].pc = "done" /\ get'[r].outdated = outdated
    BY <1>5, RespondFields
  <2>2. QED
    BY <1>5, <2>1, SilentKeeps
<1>6. CASE ListPodsToCheck(r)
  <2>1. UNCHANGED <<now, accepted, asked>>
    BY <1>6 DEF ListPodsToCheck
  <2>2. CASE CheckFails(r)
    BY <1>5, <2>1, <2>2 DEF CheckFails
  <2>3. CASE get' = [get EXCEPT ![r].pc = "fetch", ![r].pods = Pods, ![r].todo = Pods]
    <3>1. get'[r].pc = "fetch" /\ get'[r].outdated = get[r].outdated
      BY <1>0, <2>3 DEF Gets
    <3>2. QED
      BY <2>1, <3>1, SilentKeeps
  <2>4. QED
    BY <1>6, <2>2, <2>3 DEF ListPodsToCheck
<1>7. ASSUME NEW a \in Agents, FetchAgent(r, a) PROVE SilentOK(r)'
  <2>1. get[r].pc = "fetch" /\ UNCHANGED <<now, store, accepted, asked>>
    BY <1>7 DEF FetchAgent
  <2>2. CASE CheckFails(r)
    BY <1>5, <2>1, <2>2 DEF CheckFails
  <2>3. CASE get' = [get EXCEPT ![r].todo = @ \ {a}, ![r].absent = @ \cup {a}]
    <3>1. get'[r].pc = "fetch" /\ get'[r].outdated = get[r].outdated
      BY <1>0, <2>1, <2>3 DEF Gets
    <3>2. QED
      BY <2>1, <3>1, SilentKeeps
  <2>4. CASE get' = [get EXCEPT ![r].todo = @ \ {a}, ![r].pc = "judge",
                                ![r].name = a, ![r].spec = store[a].spec]
    <3>1. /\ get'[r].pc = "judge" /\ get'[r].outdated = get[r].outdated
          /\ get'[r].name = a /\ get'[r].spec = store[a].spec
      BY <1>0, <2>4 DEF Gets
    <3>2. \A k \in asked[r].known[a] : k.at <= store[a].spec.at
      BY <1>0 DEF AbsentOK, OrderInv, LatestStored
    <3>3. LatestKnown(r, get[r].name, get[r].spec)'
      BY <2>1, <3>1, <3>2 DEF LatestKnown
    <3>4. \A b \in get[r].outdated :
              (\E s \in accepted[b] : Overdue(s) /\ LatestKnown(r, b, s))'
      BY <1>0, <2>1 DEF SilentOK, Overdue, LatestKnown
    <3>5. QED
      BY <3>1, <3>3, <3>4 DEF SilentOK
  <2>5. QED
    BY <1>7, <2>2, <2>3, <2>4 DEF FetchAgent
<1>8. CASE JudgeAgent(r)
  <2>1. PICK a \in Agents : a = get[r].name
    BY <1>0, <1>8 DEF JudgeAgent, Seeking
  <2>2. get[r].pc = "judge" /\ UNCHANGED <<now, accepted, asked>>
    BY <1>8 DEF JudgeAgent
  <2>3. /\ get'[r].pc = "fetch"
        /\ get'[r].outdated = IF Overdue(get[r].spec)
                              THEN get[r].outdated \cup {a} ELSE get[r].outdated
    BY <1>0, <1>8, <2>1 DEF JudgeAgent, Gets
  <2>4. PICK s : s = get[r].spec
    OBVIOUS
  <2>5. s \in accepted[a] /\ LatestKnown(r, a, s)
    BY <1>0, <2>1, <2>2, <2>4 DEF FreshOK, SilentOK
  <2>6. \A b \in get'[r].outdated :
            \E t \in accepted[b] : Overdue(t) /\ LatestKnown(r, b, t)
    BY <1>0, <2>3, <2>4, <2>5 DEF SilentOK
  <2>7. \A b \in get'[r].outdated :
            (\E t \in accepted[b] : Overdue(t) /\ LatestKnown(r, b, t))'
    BY <2>2, <2>6 DEF Overdue, LatestKnown
  <2>8. QED
    BY <2>3, <2>7 DEF SilentOK
<1>9. CASE AnswerCheck(r)
  BY <1>5, <1>9 DEF AnswerCheck
<1>10. CASE GetAgents(r) \/ GetSingleAgent(r)
  BY <1>5, <1>10 DEF GetAgents, GetSingleAgent
<1>11. CASE Close(r)
  <2>1. get'[r] = IdleGet
    BY <1>0, <1>11 DEF Close
  <2>2. QED
    BY <2>1 DEF IdleGet, SilentOK
<1>12. QED
  BY <1>1, <1>2, <1>3, <1>4, <1>6, <1>7, <1>8, <1>9, <1>10, <1>11 DEF Get

\* What the checks know of the silent holds throughout.
LEMMA SilentInvariance == ASSUME Overlap = FALSE PROVE Spec => []SilentInv
<1>1. Init => SilentInv
  BY DEF Init, SilentInv, SilentOK, IdleGet
<1>2. TypeInv /\ TypeInv' /\ StoreInv /\ ReaderInv /\ OrderInv /\ SilentInv
         /\ [Next]_vars => SilentInv'
  <2> SUFFICES ASSUME TypeInv, TypeInv', StoreInv, ReaderInv, OrderInv, SilentInv,
                      [Next]_vars
               PROVE  SilentInv'
    OBVIOUS
  <2>1. /\ now <= now' /\ now' \in Int
        /\ \A a \in Agents : accepted[a] \subseteq accepted'[a]
    BY Monotone, BoundsAssumption DEF TypeInv, TypeOK
  <2>2. CASE UNCHANGED <<get, asked>>
    BY <2>1, <2>2, SilentStays DEF SilentInv
  <2>3. ASSUME NEW r \in Readers, Get(r) PROVE SilentInv'
    BY <2>1, <2>3, SilentMoves, SilentStays, OnlyReaderMoves DEF SilentInv
  <2>4. CASE Crash
    <3>1. \A r \in Readers : get'[r] = IdleGet
      BY <2>4 DEF Crash
    <3>2. QED
      BY <3>1 DEF SilentInv, SilentOK, IdleGet
  <2>5. CASE World
    BY <2>2, <2>5 DEF World, Tick, PodStart, PodStop
  <2>6. ASSUME NEW p \in Posters, Post(p) PROVE SilentInv'
    BY <2>2, <2>6, OnlyPosterMoves
  <2>7. QED
    BY <2>2, <2>3, <2>4, <2>5, <2>6 DEF Next, vars
<1>3. QED
  BY <1>1, <1>2, TypeInvariance, VerdictInvariance, OrderInvariance, PTL DEF Spec

\* Reports of one agent served one at a time: an agent is called outdated only
\* if the last of its reports persisted before the check was asked for is more
\* than two of its intervals old; no failure, purge or restart makes a check
\* judge an older report than that.
THEOREM OutdatedIsSilent == ASSUME Overlap = FALSE PROVE Spec => []OutdatedMeansSilent
<1>1. SilentInv => OutdatedMeansSilent
  BY DEF SilentInv, SilentOK, LatestKnown, OutdatedMeansSilent
<1>2. QED
  BY <1>1, SilentInvariance, PTL

------------------------------------------------------------------------------
(* Without faults, but with any number of overlapping reports of an agent.  A  *)
(* handler's write carries the version that it found, so it is refused only if *)
(* the resource has moved on since.                                            *)

Carries(p) ==
    LET resource == store[post[p].name]
    IN  /\ post[p].pc \in {"idle", "get", "list", "purge", "create"} =>
               post[p].found = 0
        /\ post[p].pc = "update" => post[p].found # 0 /\ post[p].rv = post[p].found
        /\ post[p].pc \in {"list", "purge", "create", "update"} =>
               resource.rv >= post[p].found
        /\ post[p].pc = "cache" =>
               \/ /\ post[p].result = post[p].data
                  /\ post[p].data \in accepted[post[p].name]
               \/ post[p].result = ZeroSpec /\ resource.rv > post[p].found

CarriesInv == \A p \in Posters : Carries(p)

\* The versions are numbers.
LEMMA Versions ==
    ASSUME TypeInv
    PROVE  /\ \A a \in Agents : store[a].rv \in Nat
           /\ \A p \in Posters : post[p].found \in Nat /\ post[p].rv \in Nat
  BY DEF TypeInv, TypeOK, Posts

\* What others write does not take away what p relies on.
LEMMA CarriesStays ==
    ASSUME TypeInv, TypeInv', NEW p \in Posters, Carries(p), post'[p] = post[p],
           \A a \in Agents : /\ store[a].rv <= store'[a].rv
                             /\ accepted[a] \subseteq accepted'[a]
    PROVE  Carries(p)'
<1>1. CASE post[p].pc \in {"idle", "get"}
  BY <1>1 DEF Carries
<1>2. CASE post[p].pc \notin {"idle", "get"}
  <2>1. PICK a \in Agents : a = post[p].name
    BY <1>2 DEF TypeInv, Named, Working
  <2>2. /\ store[a].rv \in Nat /\ store'[a].rv \in Nat /\ post[p].found \in Nat
        /\ store[a].rv <= store'[a].rv /\ accepted[a] \subseteq accepted'[a]
    BY Versions DEF TypeInv, TypeOK
  <2>3. QED
    BY <2>1, <2>2 DEF Carries
<1>3. QED
  BY <1>1, <1>2

\* What a handler finds and what it concludes, if nothing fails.
LEMMA PrepareCarries ==
    ASSUME Faults = FALSE, TypeInv, NEW p \in Posters, Carries(p), Prepare(p)
    PROVE  Carries(p)'
<1>1. /\ post \in [Posters -> Posts]
      /\ post'[p].name = post[p].name /\ UNCHANGED <<store, accepted>>
  BY PrepareFields DEF TypeInv, TypeOK
<1>2. PICK a \in Agents : a = post[p].name
  BY PrepareFields DEF TypeInv, Named, Working
<1>3. CASE GetAgent(p)
  <2>1. post[p].pc = "get"
    BY <1>3 DEF GetAgent
  <2>2. CASE store[a].rv = 0 /\ post' = [post EXCEPT ![p].pc = "list"]
    <3>1. post'[p].pc = "list" /\ post'[p].found = 0
      BY <1>1, <2>1, <2>2 DEF Posts, Carries
    <3>2. QED
      BY <1>1, <1>2, <2>2, <3>1 DEF Carries
  <2>3. CASE /\ store[a].rv # 0
             /\ post' = [post EXCEPT ![p].pc = "update",
                                     ![p].found = store[a].rv, ![p].rv = store[a].rv]
    <3>1. /\ post'[p].pc = "update" /\ post'[p].found = store[a].rv
          /\ post'[p].rv = store[a].rv
      BY <1>1, <2>3 DEF Posts
    <3>2. store[a].rv \in Nat
      BY Versions
    <3>3. QED
      BY <1>1, <1>2, <2>3, <3>1, <3>2 DEF Carries
  <2>4. QED
    BY <1>2, <1>3, <2>2, <2>3 DEF GetAgent
<1>4. CASE ListPods(p) \/ PurgeBeforeCreate(p)
  <2>1. post[p].pc \in {"list", "purge"} /\ post'[p].pc \in {"purge", "create"}
    BY <1>1, <1>4 DEF ListPods, PurgeBeforeCreate, Posts
  <2>2. post'[p].found = post[p].found
    BY <1>1, <1>4 DEF ListPods, PurgeBeforeCreate, Posts
  <2>3. QED
    BY <1>1, <2>1, <2>2 DEF Carries
<1>5. QED
  BY <1>3, <1>4 DEF Prepare

\* A write is carried out and its result is the report, or it is refused and
\* the resource is no longer at the version found.
LEMMA WriteCarries ==
    ASSUME Faults = FALSE, TypeInv, NEW p \in Posters, Carries(p),
           CreateAgent(p) \/ UpdateAgent(p)
    PROVE  Carries(p)'
<1>1. PICK a \in Agents : a = post[p].name
  BY WriteFields DEF TypeInv, Named, Working
<1>2. /\ post[p].pc \in {"create", "update"} /\ post'[p].pc = "cache"
      /\ post'[p].name = a /\ post'[p].data = post[p].data
  BY <1>1, WriteFields
<1>3. /\ store \in [Agents -> [rv : Nat, spec : Specs]]
      /\ accepted \in [Agents -> SUBSET AgentSpecs]
      /\ post \in [Posters -> Posts]
  BY DEF TypeInv, TypeOK
<1>4. store[a].rv \in Nat /\ post[p].found \in Nat /\ post[p].rv \in Nat
  BY Versions
<1>5. store[a].rv >= post[p].found
  BY <1>1, <1>2 DEF Carries
<1>6. CASE Write(p, TRUE)
  <2>1. /\ accepted' = [accepted EXCEPT ![a] = @ \cup {post[p].data}]
        /\ post' = [post EXCEPT ![p].pc = "cache", ![p].result = post[p].data]
    BY <1>1, <1>6 DEF Write
  <2>2. post'[p].result = post[p].data /\ post[p].data \in accepted'[a]
    BY <1>3, <2>1 DEF Posts
  <2>3. QED
    BY <1>2, <2>2 DEF Carries
<1>7. CASE Write(p, FALSE) /\ store[a].rv # post[p].found
  <2>1. /\ UNCHANGED store
        /\ post' = [post EXCEPT ![p].pc = "cache", ![p].result = ZeroSpec]
    BY <1>1, <1>7 DEF Write
  <2>2. post'[p].result = ZeroSpec /\ post'[p].found = post[p].found
    BY <1>3, <2>1 DEF Posts
  <2>3. store'[a].rv > post'[p].found
    BY <1>4, <1>5, <1>7, <2>1, <2>2
  <2>4. QED
    BY <1>2, <2>2, <2>3 DEF Carries
<1>8. Write(p, TRUE) \/ (Write(p, FALSE) /\ store[a].rv # post[p].found)
  <2>1. CASE CreateAgent(p)
    <3>1. Write(p, store[a].rv = 0) /\ post[p].found = 0
      BY <1>1, <2>1 DEF CreateAgent, Carries
    <3>2. QED
      BY <3>1
  <2>2. CASE UpdateAgent(p)
    <3>1. /\ Write(p, post[p].rv # 0 /\ post[p].rv = store[a].rv)
          /\ post[p].found # 0 /\ post[p].rv = post[p].found
      BY <1>1, <2>2 DEF UpdateAgent, Carries
    <3>2. QED
      BY <3>1
  <2>3. QED
    BY <2>1, <2>2
<1>9. QED
  BY <1>6, <1>7, <1>8

\* No step takes a persisted report out of the history or a version back.
LEMMA StoreGrows ==
    ASSUME TypeInv, [Next]_vars
    PROVE  \A a \in Agents : /\ store[a].rv <= store'[a].rv
                             /\ accepted[a] \subseteq accepted'[a]
<1>1. \A a \in Agents : store[a].rv \in Nat
  BY Versions
<1>2. CASE UNCHANGED <<store, accepted>>
  BY <1>1, <1>2
<1>3. CASE World \/ Crash \/ UNCHANGED vars
  BY <1>2, <1>3 DEF World, Tick, PodStart, PodStop, Crash, vars
<1>4. ASSUME NEW r \in Readers, Get(r) PROVE UNCHANGED <<store, accepted>>
  BY <1>4 DEF Get, Request, ListPodsForCleanCache, CleanCache, CountCache,
              ListPodsToCheck, FetchAgent, JudgeAgent, AnswerCheck,
              GetAgents, GetSingleAgent, Close
<1>5. ASSUME NEW p \in Posters, Post(p)
      PROVE  \A a \in Agents : /\ store[a].rv <= store'[a].rv
                               /\ accepted[a] \subseteq accepted'[a]
  <2>1. CASE CreateAgent(p) \/ UpdateAgent(p)
    <3>1. PICK a \in Agents : a = post[p].name
      BY <2>1, WriteFields DEF TypeInv, Named, Working
    <3>2. CASE Refused(p)
      BY <1>2, <3>2 DEF Refused
    <3>3. CASE CarriedOut(p)
      <4>1. /\ store'[a].rv = store[a].rv + 1 /\ accepted[a] \subseteq accepted'[a]
            /\ \A b \in Agents \ {a} : store'[b] = store[b] /\ accepted'[b] = accepted[b]
        BY <3>1, <3>3 DEF CarriedOut
      <4>2. QED
        BY <1>1, <4>1
    <3>4. QED
      BY <2>1, <3>2, <3>3, WriteFields
  <2>2. CASE Prepare(p) \/ CacheReport(p)
    BY <1>2, <2>2, PrepareFields, ReturnFields
  <2>3. ASSUME NEW a \in Agents, NEW i \in Intervals, ReceiveReport(p, a, i)
        PROVE  UNCHANGED <<store, accepted>>
    BY <2>3, ReceiveFields
  <2>4. QED
    BY <1>2, <1>5, <2>1, <2>2, <2>3, PostSteps
<1>6. QED
  BY <1>2, <1>3, <1>4, <1>5 DEF Next

\* Every step leaves the handlers so.
LEMMA CarriesStep ==
    ASSUME Faults = FALSE, TypeInv, TypeInv', CarriesInv, [Next]_vars
    PROVE  CarriesInv'
<1>1. CASE UNCHANGED post
  BY <1>1, CarriesStays, StoreGrows DEF CarriesInv
<1>2. CASE World
  BY <1>1, <1>2 DEF World, Tick, PodStart, PodStop
<1>3. ASSUME NEW r \in Readers, Get(r) PROVE CarriesInv'
  BY <1>1, <1>3 DEF Get, Request, ListPodsForCleanCache, CleanCache, CountCache,
                    ListPodsToCheck, FetchAgent, JudgeAgent, AnswerCheck,
                    GetAgents, GetSingleAgent, Close
<1>4. CASE Crash
  <2>1. \A p \in Posters : post'[p].pc = "idle" /\ post'[p].found = 0
    BY <1>4 DEF Crash, IdlePost
  <2>2. QED
    BY <2>1 DEF CarriesInv, Carries
<1>5. ASSUME NEW p \in Posters, Post(p) PROVE CarriesInv'
  <2>1. \A q \in Posters \ {p} : Carries(q)'
    BY <1>5, OnlyPosterMoves, CarriesStays, StoreGrows DEF CarriesInv
  <2>2. Carries(p)'
    <3>1. ASSUME NEW a \in Agents, NEW i \in Intervals, ReceiveReport(p, a, i)
          PROVE  Carries(p)'
      BY <3>1, ReceiveFields DEF CarriesInv, Carries
    <3>2. CASE Prepare(p)
      BY <3>2, PrepareCarries DEF CarriesInv
    <3>3. CASE CreateAgent(p) \/ UpdateAgent(p)
      BY <3>3, WriteCarries DEF CarriesInv
    <3>4. CASE CacheReport(p)
      BY <3>4, ReturnFields DEF Carries, IdlePost
    <3>5. QED
      BY <1>5, <3>1, <3>2, <3>3, <3>4, PostSteps
  <2>3. QED
    BY <2>1, <2>2 DEF CarriesInv
<1>6. CASE UNCHANGED vars
  BY <1>1, <1>6 DEF vars
<1>7. QED
  BY <1>2, <1>3, <1>4, <1>5, <1>6 DEF Next

\* No call failing, but reports of an agent overlapping at will: a POST about to
\* be answered by 200 has persisted its report, or another POST of the agent has
\* written the resource since this one looked at it and the report is lost.
THEOREM AnswerMeansStored ==
    ASSUME Faults = FALSE PROVE Spec => []StoredUnlessOvertaken
<1>1. Init => CarriesInv
  BY DEF Init, CarriesInv, Carries, IdlePost
<1>2. TypeInv /\ TypeInv' /\ CarriesInv /\ [Next]_vars => CarriesInv'
  BY CarriesStep
<1>3. CarriesInv => StoredUnlessOvertaken
  BY DEF CarriesInv, Carries, StoredUnlessOvertaken
<1>4. QED
  BY <1>1, <1>2, <1>3, TypeInvariance, PTL DEF Spec

------------------------------------------------------------------------------
(* The dump.  What was known when it was asked for is still accepted, and an   *)
(* agent with an accepted report has a resource for List to return.            *)

DumpOK(r) ==
    /\ get[r].pc \in {"pods", "fetch", "judge"} => get[r].kind = "check"
    /\ get[r].pc = "done" /\ get[r].kind = "dump" =>
          \A a \in Agents : asked[r].known[a] # {} => a \in get[r].listed

\* A step within the service of r leaves it what it asked, and shows in its
\* answer what GetAgents finds.
LEMMA DumpMoves ==
    ASSUME Faults = FALSE, TypeInv, StoreInv, ReaderInv, NEW r \in Readers,
           DumpOK(r), Get(r)
    PROVE  DumpOK(r)'
<1>0. /\ get \in [Readers -> Gets] /\ get[r] \in Gets
      /\ Seeking(r) /\ AbsentOK(r) /\ FreshOK(r)
  BY DEF TypeInv, TypeOK, Named, ReaderInv
<1>1. ASSUME get'[r].pc \notin {"pods", "fetch", "judge", "done"} PROVE DumpOK(r)'
  BY <1>1 DEF DumpOK
<1>2. ASSUME get'[r].pc \in {"pods", "fetch", "judge", "done"},
             get'[r].kind = "check"
      PROVE  DumpOK(r)'
  BY <1>2 DEF DumpOK
<1>3. ASSUME NEW k, NEW a, Request(r, k, a) PROVE DumpOK(r)'
  BY <1>0, <1>1, <1>3 DEF Request, Gets
<1>4. CASE ListPodsForCleanCache(r) \/ CleanCache(r)
  BY <1>0, <1>1, <1>4 DEF ListPodsForCleanCache, CleanCache, Gets, Seeking
<1>5. CASE CountCache(r)
  BY <1>0, <1>2, <1>5 DEF CountCache, Gets, FreshOK
<1>6. CASE ListPodsToCheck(r)
  BY <1>0, <1>2, <1>6 DEF ListPodsToCheck, Gets, DumpOK
<1>7. ASSUME NEW a \in Agents, FetchAgent(r, a) PROVE DumpOK(r)'
  BY <1>0, <1>2, <1>7 DEF FetchAgent, Gets, DumpOK
<1>8. CASE JudgeAgent(r)
  BY <1>0, <1>2, <1>8 DEF JudgeAgent, Gets, DumpOK
<1>9. CASE AnswerCheck(r)
  BY <1>2, <1>9, RespondFields DEF AnswerCheck, DumpOK
<1>10. CASE GetAgents(r)
  <2>1. Respond(r, {}, {}, {a \in Agents : store[a].rv # 0}, 200)
    BY <1>10 DEF GetAgents
  <2>2. get'[r].pc = "done" /\ get'[r].listed = {a \in Agents : store[a].rv # 0}
    BY <1>0, <2>1 DEF Respond, Gets
  <2>3. UNCHANGED asked
    BY <1>10 DEF GetAgents
  <2>4. \A a \in Agents : asked[r].known[a] # {} => store[a].rv # 0
    BY <1>0 DEF AbsentOK, StoreInv
  <2>5. QED
    BY <2>2, <2>3, <2>4 DEF DumpOK
<1>11. CASE GetSingleAgent(r)
  <2>1. get[r].kind = "single"
    BY <1>0, <1>11 DEF GetSingleAgent, FreshOK
  <2>2. get'[r].pc = "done" /\ get'[r].kind = "single"
    BY <1>11, <2>1, RespondFields DEF GetSingleAgent
  <2>3. QED
    BY <2>2 DEF DumpOK
<1>12. CASE Close(r)
  BY <1>0, <1>1, <1>12 DEF Close, IdleGet
<1>13. QED
  BY <1>3, <1>4, <1>5, <1>6, <1>7, <1>8, <1>9, <1>10, <1>11, <1>12 DEF Get

\* No call failing, the dump shows every agent that had a report persisted when
\* the dump was asked for, also one whose report an earlier process received.
THEOREM DumpShowsAll == ASSUME Faults = FALSE PROVE Spec => []DumpIsComplete
<1> DEFINE DumpInv == \A r \in Readers : DumpOK(r)
<1>1. Init => DumpInv
  BY DEF Init, DumpOK, IdleGet
<1>2. TypeInv /\ StoreInv /\ ReaderInv /\ DumpInv /\ [Next]_vars => DumpInv'
  <2> SUFFICES ASSUME TypeInv, StoreInv, ReaderInv, DumpInv, [Next]_vars
               PROVE  DumpInv'
    OBVIOUS
  <2>1. CASE UNCHANGED <<get, asked>>
    BY <2>1 DEF DumpOK
  <2>2. ASSUME NEW r \in Readers, Get(r) PROVE DumpInv'
    BY <2>2, DumpMoves, OnlyReaderMoves DEF DumpOK
  <2>3. CASE Crash
    <3>1. \A r \in Readers : get'[r] = IdleGet
      BY <2>3 DEF Crash
    <3>2. QED
      BY <3>1 DEF DumpOK, IdleGet
  <2>4. CASE World
    BY <2>1, <2>4 DEF World, Tick, PodStart, PodStop
  <2>5. ASSUME NEW p \in Posters, Post(p) PROVE DumpInv'
    BY <2>1, <2>5, OnlyPosterMoves
  <2>6. QED
    BY <2>1, <2>2, <2>3, <2>4, <2>5 DEF Next, vars
<1>3. DumpInv => DumpIsComplete
  BY DEF DumpOK, DumpIsComplete
<1>4. QED
  BY <1>1, <1>2, <1>3, TypeInvariance, VerdictInvariance, PTL DEF Spec

==============================================================================
