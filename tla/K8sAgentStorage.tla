--------------------------- MODULE K8sAgentStorage ---------------------------
(***************************************************************************)
(* The server's Kubernetes storage, pkg/utils/storer_k8s.go, under the     *)
(* concurrent HTTP handlers that call it: agents POST their reports, which *)
(* are persisted as Agent resources of the API server and copied into the  *)
(* in-memory NcAgentCache; users GET the connectivity check, the dump of   *)
(* the agents and single agents; pods come and go; the server process may  *)
(* die at any step.                                                        *)
(*                                                                         *)
(* Every call to the API server (Pods, Get, List, Create, Update) and      *)
(* every access to the shared cache is an action of its own, because       *)
(* net/http runs one goroutine per request and no lock is taken.           *)
(***************************************************************************)
EXTENDS Integers, FiniteSets

CONSTANTS Agents,        \* names of agent pods, which are the agents' names
          NoAgent,       \* the name in the record of an idle handler
          Posters,       \* goroutines that serve POST /api/v1/agents/:name
          Readers,       \* goroutines that serve the GET endpoints
          RequestKinds,  \* the GET endpoints in use
          Intervals,     \* values of the report_interval of a report
          MaxTime,       \* bound on the clock
          MaxVersion,    \* bound on the writes of one Agent resource
          Faults,        \* may calls to the API server fail
          Overlap        \* may two reports of one agent be served at once

ASSUME AgentsAssumption == IsFiniteSet(Agents) /\ NoAgent \notin Agents
ASSUME KindsAssumption == RequestKinds \subseteq {"check", "dump", "single"}
ASSUME IntervalsAssumption == Intervals \subseteq Nat
ASSUME BoundsAssumption == MaxTime \in Nat \ {0} /\ MaxVersion \in Nat \ {0}
ASSUME SwitchesAssumption == Faults \in BOOLEAN /\ Overlap \in BOOLEAN

VARIABLES now,       \* the clock, in seconds
          phase,     \* phase[a]: is pod a yet to come, listed, or deleted
          store,     \* store[a]: the Agent resource of a at the API server
          cache,     \* NcAgentCache, a Go map
          post,      \* post[p]: the locals of the POST handler p
          get,       \* get[r]: the locals of the GET handler r
          accepted,  \* history: accepted[a], every report of a ever persisted
          asked      \* history: asked[r], time and accepted when r began

vars == <<now, phase, store, cache, post, get, accepted, asked>>

-----------------------------------------------------------------------------
(* Data.                                                                   *)

\* What matters of an ext_v1.AgentSpec: when it was received and the
\* interval at which the agent promised to report.
AgentSpecs == [at : 1..MaxTime, interval : Intervals]

\* The spec of a zero ext_v1.Agent: a LastUpdated in year 1, interval 0.
ZeroSpec == [at |-> 0, interval |-> 0]

Specs == AgentSpecs \cup {ZeroSpec}

\* The resource that was never written.
Missing == [rv |-> 0, spec |-> ZeroSpec]

EmptyCache == [a \in {} |-> ZeroSpec]

\* found (history): the version that Get found; rv: the one the write carries.
IdlePost == [pc |-> "idle", name |-> NoAgent, data |-> ZeroSpec, found |-> 0,
             rv |-> 0, pods |-> {}, result |-> ZeroSpec]

IdleGet == [pc |-> "idle", kind |-> "none", name |-> NoAgent,
            spec |-> ZeroSpec, pods |-> {}, todo |-> {}, absent |-> {},
            outdated |-> {}, listed |-> {}, count |-> 0, status |-> 0]

NothingAsked == [at |-> 0, known |-> [a \in Agents |-> {}]]

PostPcs == {"idle", "get", "list", "purge", "create", "update", "cache"}

GetPcs == {"idle", "list", "purge", "check", "dump", "single", "pods", "fetch",
           "judge", "done"}

GetKinds == {"none", "check", "dump", "single"}

\* 0 stands for a header not yet written.
Statuses == {0, 200, 400, 500}

Posts == [pc : PostPcs, name : Agents \cup {NoAgent}, data : Specs,
          found : Nat, rv : Nat, pods : SUBSET Agents, result : Specs]

Gets == [pc : GetPcs, kind : GetKinds,
         name : Agents \cup {NoAgent}, spec : Specs, pods : SUBSET Agents,
         todo : SUBSET Agents, absent : SUBSET Agents,
         outdated : SUBSET Agents, listed : SUBSET Agents, count : Nat,
         status : Statuses]

\* The pods that KubeProxy.Pods selects by label.
Pods == {a \in Agents : phase[a] = "listed"}

Reporting(a) == {p \in Posters : post[p].name = a}

-----------------------------------------------------------------------------
(* The world around the server.                                            *)

Tick == /\ now < MaxTime
        /\ now' = now + 1
        /\ UNCHANGED <<phase, store, cache, post, get, accepted, asked>>

PodStart(a) == /\ phase[a] = "future"
               /\ phase' = [phase EXCEPT ![a] = "listed"]
               /\ UNCHANGED <<now, store, cache, post, get, accepted, asked>>

\* The names of a DaemonSet's pods are fresh: a deleted one does not return.
PodStop(a) == /\ phase[a] = "listed"
              /\ phase' = [phase EXCEPT ![a] = "deleted"]
              /\ UNCHANGED <<now, store, cache, post, get, accepted, asked>>

-----------------------------------------------------------------------------
(* POST /api/v1/agents/:name                                               *)

\* Variant to be rejected: the line that stamps LastUpdated is missing.
Unstamped(i) == [at |-> 0, interval |-> i]

\* The spec of a decoded report, stamped with the server's time.
Stamped(i) == [at |-> now, interval |-> i]

\* A report is decoded and stamped.  It may come from a pod deleted since.
ReceiveReport(p, a, i) ==
    /\ post[p].pc = "idle"
    /\ phase[a] # "future"
    /\ Overlap \/ Reporting(a) = {}
    /\ store[a].rv + Cardinality(Reporting(a)) < MaxVersion
    /\ post' = [post EXCEPT ![p].pc = "get", ![p].name = a,
                            ![p].data = Stamped(i)]
    /\ UNCHANGED <<now, phase, store, cache, get, accepted, asked>>

\* Variant to be rejected: the ResourceVersion is not copied for the update.
GetAgentWithoutVersion(p) ==
    LET found == store[post[p].name].rv
    IN  /\ post[p].pc = "get"
        /\ post' = [post EXCEPT ![p].pc = IF found = 0 THEN "list" ELSE "update",
                                ![p].found = found]
        /\ UNCHANGED <<now, phase, store, cache, get, accepted, asked>>

\* Only "not found" leads to Create.  Any other failure falls through to
\* Update with the empty ResourceVersion of the empty result, here 0.
GetAgent(p) ==
    LET found == store[post[p].name].rv
    IN  /\ post[p].pc = "get"
        /\ \/ /\ found = 0
              /\ post' = [post EXCEPT ![p].pc = "list"]
           \/ /\ found # 0
              /\ post' = [post EXCEPT ![p].pc = "update", ![p].found = found,
                                      ![p].rv = found]
           \/ /\ Faults
              /\ post' = [post EXCEPT ![p].pc = "update"]
        /\ UNCHANGED <<now, phase, store, cache, get, accepted, asked>>

\* CleanCacheOnDemand(nil), first half: without a pod list nothing is purged.
ListPods(p) ==
    /\ post[p].pc = "list"
    /\ \/ post' = [post EXCEPT ![p].pc = "purge", ![p].pods = Pods]
       \/ Faults /\ post' = [post EXCEPT ![p].pc = "create"]
    /\ UNCHANGED <<now, phase, store, cache, get, accepted, asked>>

\* CleanCacheOnDemand, second half: keep the entries of the listed pods.
Purge(pods) == cache' = [a \in DOMAIN cache \cap pods |-> cache[a]]

PurgeBeforeCreate(p) ==
    /\ post[p].pc = "purge"
    /\ Purge(post[p].pods)
    /\ post' = [post EXCEPT ![p].pc = "create", ![p].pods = {}]
    /\ UNCHANGED <<now, phase, store, get, accepted, asked>>

\* A write request and what the handler learns of it.  Admitted, it is carried
\* out, but its answer may be lost; refused or undelivered, the client returns
\* an empty Agent, whose spec is ZeroSpec.
Write(p, admitted) ==
    LET a == post[p].name
        Learn(s) == post' = [post EXCEPT ![p].pc = "cache", ![p].result = s]
    IN  \/ /\ admitted
           /\ store' = [store EXCEPT ![a] = [rv |-> store[a].rv + 1,
                                             spec |-> post[p].data]]
           /\ accepted' = [accepted EXCEPT ![a] = @ \cup {post[p].data}]
           /\ Learn(post[p].data) \/ (Faults /\ Learn(ZeroSpec))
        \/ /\ ~admitted \/ Faults
           /\ Learn(ZeroSpec)
           /\ UNCHANGED <<store, accepted>>

CreateAgent(p) ==
    /\ post[p].pc = "create"
    /\ Write(p, store[post[p].name].rv = 0)
    /\ UNCHANGED <<now, phase, cache, get, asked>>

\* Variant to be rejected: the update is forced, whatever version it is at.
ForceUpdateAgent(p) ==
    /\ post[p].pc = "update"
    /\ Write(p, TRUE)
    /\ UNCHANGED <<now, phase, cache, get, asked>>

\* Agent is a custom resource: no unconditional updates, hence rv # 0.
UpdateAgent(p) ==
    /\ post[p].pc = "update"
    /\ Write(p, post[p].rv # 0 /\ post[p].rv = store[post[p].name].rv)
    /\ UNCHANGED <<now, phase, cache, get, asked>>

Put(a, spec) == cache' = [b \in DOMAIN cache \cup {a} |->
                             IF b = a THEN spec ELSE cache[b]]

Return(p) == /\ post[p].pc = "cache"
             /\ post' = [post EXCEPT ![p] = IdlePost]
             /\ UNCHANGED <<now, phase, store, get, accepted, asked>>

\* Variant to be rejected: the report is cached, not the API server's answer.
CacheReportAsReceived(p) == Return(p) /\ Put(post[p].name, post[p].data)

\* Variant to be rejected: after a failed write the cache is left alone.
CacheReportOnSuccess(p) ==
    /\ Return(p)
    /\ IF post[p].result = ZeroSpec THEN UNCHANGED cache
                                    ELSE Put(post[p].name, post[p].result)

\* The result is cached whether or not the write failed, and answered by 200.
CacheReport(p) == Return(p) /\ Put(post[p].name, post[p].result)

-----------------------------------------------------------------------------
(* The GET endpoints, each behind the CleanCache wrapper.                  *)

Request(r, k, a) ==
    /\ get[r].pc = "idle"
    /\ get' = [get EXCEPT ![r].pc = "list", ![r].kind = k, ![r].name = a]
    /\ asked' = [asked EXCEPT ![r] = [at |-> now, known |-> accepted]]
    /\ UNCHANGED <<now, phase, store, cache, post, accepted>>

\* The wrapper's pod list.  Its failure writes the header 500, which no later
\* write replaces, and the wrapped handler runs nevertheless.
ListPodsForCleanCache(r) ==
    /\ get[r].pc = "list"
    /\ \/ get' = [get EXCEPT ![r].pc = "purge", ![r].pods = Pods]
       \/ /\ Faults
          /\ get' = [get EXCEPT ![r].pc = get[r].kind, ![r].status = 500]
    /\ UNCHANGED <<now, phase, store, cache, post, accepted, asked>>

CleanCache(r) ==
    /\ get[r].pc = "purge"
    /\ Purge(get[r].pods)
    /\ get' = [get EXCEPT ![r].pc = get[r].kind, ![r].pods = {}]
    /\ UNCHANGED <<now, phase, store, post, accepted, asked>>

\* The header that the client sees is the first one written.
Header(r, status) == IF get[r].status = 0 THEN status ELSE get[r].status

\* The response of r.
Respond(r, absent, outdated, listed, status) ==
    get' = [get EXCEPT ![r].pc = "done", ![r].status = Header(r, status),
                       ![r].absent = absent, ![r].outdated = outdated,
                       ![r].listed = listed, ![r].todo = {}]

\* ConnectivityCheck counts the cache for its message before it checks.
CountCache(r) ==
    /\ get[r].pc = "check"
    /\ get' = [get EXCEPT ![r].pc = "pods",
                          ![r].count = Cardinality(DOMAIN cache)]
    /\ UNCHANGED <<now, phase, store, cache, post, accepted, asked>>

CheckFails(r) == Respond(r, {}, {}, {}, 500)

ListPodsToCheck(r) ==
    /\ get[r].pc = "pods"
    /\ \/ get' = [get EXCEPT ![r].pc = "fetch", ![r].pods = Pods,
                             ![r].todo = Pods]
       \/ Faults /\ CheckFails(r)
    /\ UNCHANGED <<now, phase, store, cache, post, accepted, asked>>

\* Variant to be rejected: absent is whoever the cache does not hold.
FetchAgentFromCache(r, a) ==
    /\ get[r].pc = "fetch"
    /\ a \in get[r].todo
    /\ \/ /\ a \notin DOMAIN cache
          /\ get' = [get EXCEPT ![r].todo = @ \ {a}, ![r].absent = @ \cup {a}]
       \/ /\ a \in DOMAIN cache
          /\ get' = [get EXCEPT ![r].todo = @ \ {a}, ![r].pc = "judge",
                                ![r].name = a, ![r].spec = cache[a]]
    /\ UNCHANGED <<now, phase, store, cache, post, accepted, asked>>

\* Variant to be rejected: a failed Get is logged and its empty result judged.
FetchAgentIgnoringErrors(r, a) ==
    /\ get[r].pc = "fetch"
    /\ a \in get[r].todo
    /\ \/ /\ store[a].rv = 0
          /\ get' = [get EXCEPT ![r].todo = @ \ {a}, ![r].absent = @ \cup {a}]
       \/ \E s \in {store[a].spec, ZeroSpec} :
             /\ s # ZeroSpec \/ Faults
             /\ get' = [get EXCEPT ![r].todo = @ \ {a}, ![r].pc = "judge",
                                   ![r].name = a, ![r].spec = s]
    /\ UNCHANGED <<now, phase, store, cache, post, accepted, asked>>

\* One turn of the loop of CheckAgents, up to the answer of Get.
FetchAgent(r, a) ==
    /\ get[r].pc = "fetch"
    /\ a \in get[r].todo
    /\ \/ /\ store[a].rv = 0
          /\ get' = [get EXCEPT ![r].todo = @ \ {a}, ![r].absent = @ \cup {a}]
       \/ /\ store[a].rv # 0
          /\ get' = [get EXCEPT ![r].todo = @ \ {a}, ![r].pc = "judge",
                                ![r].name = a, ![r].spec = store[a].spec]
       \/ Faults /\ CheckFails(r)
    /\ UNCHANGED <<now, phase, store, cache, post, accepted, asked>>

\* Variant to be rejected: one second late.
OverdueLate(spec) == now - spec.at > spec.interval * 2 + 1

Overdue(spec) == now - spec.at > spec.interval * 2

\* The rest of the turn: the clock is read after the answer has arrived.
JudgeAgent(r) ==
    /\ get[r].pc = "judge"
    /\ get' = [get EXCEPT ![r].pc = "fetch", ![r].name = NoAgent,
                          ![r].spec = ZeroSpec,
                          ![r].outdated = IF Overdue(get[r].spec)
                                          THEN @ \cup {get[r].name} ELSE @]
    /\ UNCHANGED <<now, phase, store, cache, post, accepted, asked>>

AnswerCheck(r) ==
    /\ get[r].pc = "fetch"
    /\ get[r].todo = {}
    /\ Respond(r, get[r].absent, get[r].outdated, {},
               IF get[r].absent \cup get[r].outdated = {} THEN 200 ELSE 400)
    /\ UNCHANGED <<now, phase, store, cache, post, accepted, asked>>

\* Variant to be rejected: the dump shows the cache.
GetAgentsFromCache(r) ==
    /\ get[r].pc = "dump"
    /\ Respond(r, {}, {}, DOMAIN cache, 200)
    /\ UNCHANGED <<now, phase, store, cache, post, accepted, asked>>

\* A failed List is only logged: the empty list is the answer.
GetAgents(r) ==
    /\ get[r].pc = "dump"
    /\ \/ Respond(r, {}, {}, {a \in Agents : store[a].rv # 0}, 200)
       \/ Faults /\ Respond(r, {}, {}, {}, 200)
    /\ UNCHANGED <<now, phase, store, cache, post, accepted, asked>>

\* Any failed Get, "not found" included, returns before the 404 is written.
GetSingleAgent(r) ==
    /\ get[r].pc = "single"
    /\ \/ Respond(r, {}, {}, {a \in {get[r].name} : store[a].rv # 0}, 200)
       \/ Faults /\ Respond(r, {}, {}, {}, 200)
    /\ UNCHANGED <<now, phase, store, cache, post, accepted, asked>>

\* The response is on its way and the goroutine ends.
Close(r) ==
    /\ get[r].pc = "done"
    /\ get' = [get EXCEPT ![r] = IdleGet]
    /\ asked' = [asked EXCEPT ![r] = NothingAsked]
    /\ UNCHANGED <<now, phase, store, cache, post, accepted>>

-----------------------------------------------------------------------------
(* The server's process ends, for a new pod of it or for the Go runtime's  *)
(* fatal error on concurrent map access, and a new one starts.             *)
Crash == /\ cache' = EmptyCache
         /\ post' = [p \in Posters |-> IdlePost]
         /\ get' = [r \in Readers |-> IdleGet]
         /\ asked' = [r \in Readers |-> NothingAsked]
         /\ UNCHANGED <<now, phase, store, accepted>>

Init == /\ now = 1
        /\ phase = [a \in Agents |-> "future"]
        /\ store = [a \in Agents |-> Missing]
        /\ cache = EmptyCache
        /\ post = [p \in Posters |-> IdlePost]
        /\ get = [r \in Readers |-> IdleGet]
        /\ accepted = [a \in Agents |-> {}]
        /\ asked = [r \in Readers |-> NothingAsked]

World == Tick \/ \E a \in Agents : PodStart(a) \/ PodStop(a)

Post(p) == \/ \E a \in Agents, i \in Intervals : ReceiveReport(p, a, i)
           \/ GetAgent(p)
           \/ ListPods(p)
           \/ PurgeBeforeCreate(p)
           \/ CreateAgent(p)
           \/ UpdateAgent(p)
           \/ CacheReport(p)

Get(r) == \/ \E k \in RequestKinds \ {"single"} : Request(r, k, NoAgent)
          \/ "single" \in RequestKinds /\ \E a \in Agents : Request(r, "single", a)
          \/ ListPodsForCleanCache(r)
          \/ CleanCache(r)
          \/ CountCache(r)
          \/ ListPodsToCheck(r)
          \/ \E a \in Agents : FetchAgent(r, a)
          \/ JudgeAgent(r)
          \/ AnswerCheck(r)
          \/ GetAgents(r)
          \/ GetSingleAgent(r)
          \/ Close(r)

Next == \/ World
        \/ \E p \in Posters : Post(p)
        \/ \E r \in Readers : Get(r)
        \/ Crash

Spec == Init /\ [][Next]_vars

-----------------------------------------------------------------------------
(* Properties.                                                             *)

\* Every variable holds what its comment says.
TypeOK ==
    /\ now \in 1..MaxTime
    /\ phase \in [Agents -> {"future", "listed", "deleted"}]
    /\ store \in [Agents -> [rv : Nat, spec : Specs]]
    /\ DOMAIN cache \subseteq Agents
    /\ cache \in [DOMAIN cache -> Specs]
    /\ post \in [Posters -> Posts]
    /\ get \in [Readers -> Gets]
    /\ accepted \in [Agents -> SUBSET AgentSpecs]
    /\ asked \in [Readers -> [at : 0..MaxTime,
                              known : [Agents -> SUBSET AgentSpecs]]]

\* Whatever fails and however handlers interleave, an entry of the cache is a
\* report that was really persisted for that agent, or visibly empty.  (The
\* code caches the API server's answer at storer_k8s.go:136, not the report.)
CacheAccepted == \A a \in DOMAIN cache : cache[a] \in accepted[a] \cup {ZeroSpec}

\* The verdict of r is out, as opposed to an error.
Verdict(r) == /\ get[r].pc = "done"
              /\ get[r].kind = "check"
              /\ get[r].status \in {200, 400}

\* A connectivity check that lists a pod neither as absent nor as outdated
\* vouches for it: when the check was asked for, a persisted report of the pod
\* was at most two of its intervals old (README, second criterion).
UnlistedIsFresh ==
    \A r \in Readers : Verdict(r) =>
        \A a \in get[r].pods \ (get[r].absent \cup get[r].outdated) :
            \E s \in accepted[a] : asked[r].at - s.at <= s.interval * 2

\* A pod is called absent only if none of its reports had been persisted when
\* the check was asked for, however often the server was restarted since the
\* report and whatever was purged from the cache.
AbsentMeansNever ==
    \A r \in Readers : \A a \in get[r].absent : asked[r].known[a] = {}

\* A pod is called outdated only if the last of the reports persisted before
\* the check was asked for is more than two intervals old.
OutdatedMeansSilent ==
    \A r \in Readers : \A a \in get[r].outdated :
        \E s \in accepted[a] :
            /\ Overdue(s)
            /\ \A k \in asked[r].known[a] : k.at <= s.at

\* Between two reports of an agent its cache entry is the persisted report, or
\* empty: the cache lags behind the store only while a POST is being served.
CacheFollowsStore ==
    \A a \in DOMAIN cache :
        Reporting(a) = {} => cache[a] \in {store[a].spec, ZeroSpec}

\* No call failing, a report about to be answered by 200 was persisted, or was
\* refused because another handler has written the resource since this one
\* looked at it (storer_k8s.go:107, 124): then the client gets 200 all the same
\* and the report is lost, but only then, never on account of its own version.
StoredUnlessOvertaken ==
    \A p \in Posters : post[p].pc = "cache" =>
        \/ /\ post[p].result = post[p].data
           /\ post[p].data \in accepted[post[p].name]
        \/ /\ post[p].result = ZeroSpec
           /\ store[post[p].name].rv > post[p].found

\* The dump of the agents shows every agent that had a report persisted when
\* the dump was asked for, also across restarts of the server.
DumpIsComplete ==
    \A r \in Readers : get[r].pc = "done" /\ get[r].kind = "dump" =>
        \A a \in Agents : asked[r].known[a] # {} => a \in get[r].listed

\* The clients p whose look at the resource of a is still current, so that the
\* write they are going to send will be admitted.
Holders(a) == {p \in Reporting(a) :
                  /\ post[p].pc \in {"list", "purge", "create", "update"}
                  /\ post[p].rv = store[a].rv
                  /\ post[p].pc = "update" => post[p].rv # 0}

CS == INSTANCE ConditionalStore
          WITH Clients <- Posters, Keys <- Agents, Values <- AgentSpecs,
               NoValue <- ZeroSpec,
               value <- [a \in Agents |-> store[a].spec],
               holders <- [a \in Agents |-> Holders(a)]

\* Get, then Create or Update with the ResourceVersion that Get returned, is a
\* conditional store: no persisted report is replaced by a handler that has not
\* seen it, whatever is lost on the way and wherever the server dies.
ImplementsConditionalStore == CS!Spec

-----------------------------------------------------------------------------
(* Statements of the repository that the code does not keep.               *)

\* "All %v pods successfully reported back" (handler.go): a check answered
\* by 200 counts the pods that it has checked.
MessageCountsPods ==
    \A r \in Readers : Verdict(r) /\ get[r].status = 200 =>
        get[r].count = Cardinality(get[r].pods)

\* "There is no such entry in the agent cache" (storer_k8s.go): an agent that
\* is not found is answered by 404, and 200 comes with the agent's data.
SingleIsFoundOr404 ==
    \A r \in Readers :
        /\ get[r].pc = "done"
        /\ get[r].kind = "single"
        /\ get[r].status = 200
        => get[r].listed = {get[r].name}

===============================================================================
