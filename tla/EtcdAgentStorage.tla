--------------------------- MODULE EtcdAgentStorage ---------------------------
(***************************************************************************)
(* The server's etcd storage, pkg/utils/storer_etcd.go, under the          *)
(* concurrent HTTP handlers that call it.  Each agent has a directory with *)
(* a time to live, and in it a record per report, named by the agent's     *)
(* uptime, with a time to live of its own.  Nothing is kept in memory: the *)
(* server forgets an agent when etcd does.                                 *)
(*                                                                         *)
(* Every request to etcd and to the API server is an action of its own.    *)
(* etcd is linearizable (the reads are quorum reads) and its clock, not    *)
(* the server's, is the one that counts.                                   *)
(***************************************************************************)
EXTENDS Integers, FiniteSetsExt

CONSTANTS Agents,        \* names of agent pods, which are the agents' names
          NoAgent,       \* the name in the record of an idle handler
          Posters,       \* goroutines that serve POST /api/v1/agents/:name
          Readers,       \* goroutines that serve the GET endpoints
          RequestKinds,  \* the GET endpoints in use, dump and single alike
          Deletable,     \* the pods that may be deleted
          Leftover,      \* agents at whose place a plain key is left over
          Failing,       \* the requests that may fail
          TTL,           \* -report-ttl
          Uptimes,       \* the uptimes that reports give
          MaxTime        \* bound on the time at which something still happens

Calls == {"get", "unlink", "create", "refresh", "record", "fetch", "pods"}

ASSUME AgentsAssumption == IsFiniteSet(Agents) /\ NoAgent \notin Agents
ASSUME KindsAssumption == RequestKinds \subseteq {"check", "data"}
ASSUME FailingAssumption == Failing \subseteq Calls
ASSUME LeftoverAssumption == Leftover \subseteq Agents
ASSUME DeletableAssumption == Deletable \subseteq Agents
ASSUME TimesAssumption == /\ TTL \in Nat \ {0}
                          /\ MaxTime \in Nat \ {0}

\* They are unsigned integers in the code, so that there is a greatest.
ASSUME UptimesAssumption == /\ Uptimes \subseteq Nat
                            /\ \E top \in Uptimes : \A u \in Uptimes : u <= top

VARIABLES now,      \* the clock of etcd, in seconds
          up,       \* is the server listening
          pods,     \* the pods that KubeProxy.Pods selects by label
          tree,     \* tree[a]: the node <EtcdTree>/agents/a
          post,     \* post[p]: the locals of the POST handler p
          get,      \* get[r]: the locals of the GET handler r
          known,    \* history: known[a], what has become of a's reports
          asked     \* history: asked[r], time and known reports when r began

vars == <<now, up, pods, tree, post, get, known, asked>>

-----------------------------------------------------------------------------
(* Data.                                                                   *)

\* A node of etcd.  The directory is gone when until comes, and its records
\* with it; until = 0 is for one without a time to live.
NodeKinds == {"none", "file", "dir"}

Records == [uptime : Nat, at : Nat, until : Nat]

NoNode == [kind |-> "none", until |-> 0, records |-> {}]

File == [NoNode EXCEPT !.kind = "file"]

Directory(until) == [kind |-> "dir", until |-> until, records |-> {}]

Due(until) == until # 0 /\ until <= now

\* What is going to expire by itself.
Mortal(a) == \/ tree[a].until # 0
             \/ \E r \in tree[a].records : r.until # 0

PostPcs == {"idle", "get", "unlink", "create", "refresh", "record"}

IdlePost == [pc |-> "idle", name |-> NoAgent, uptime |-> 0, at |-> 0]

Posts == [pc : PostPcs, name : Agents \cup {NoAgent}, uptime : Nat, at : Nat]

GetPcs == {"idle", "fetch", "pods", "done"}

NothingSeen == [a \in Agents |-> 0]

IdleGet == [pc |-> "idle", kind |-> "none", seen |-> NothingSeen,
            pods |-> {}, absent |-> {}, status |-> 0]

Gets == [pc : GetPcs, kind : {"none", "check", "data"},
         seen : [Agents -> Nat], pods : SUBSET Agents,
         absent : SUBSET Agents, status : {0, 200, 400, 500}]

\* Of the reports with a positive uptime: when the latest that is stored was
\* stamped and the uptime in it, when the last one was put, when the latest
\* answered was stamped.
NothingKnown == [stored |-> 0, uptime |-> 0, put |-> 0, answered |-> 0]

Knowledge == [stored : Nat, uptime : Nat, put : Nat, answered : Nat]

NothingAsked == [at |-> 0, stored |-> NothingSeen, uptime |-> NothingSeen,
                 answered |-> NothingSeen]

Questions == [at : Nat, stored : [Agents -> Nat], uptime : [Agents -> Nat],
              answered : [Agents -> Nat]]

Serving(a) == {p \in Posters : post[p].name = a}

-----------------------------------------------------------------------------
(* The world around the server.                                            *)

\* Etcd purges what is due within the second.  From MaxTime on the clock only
\* runs for what is left to expire, once the handlers are through.
Tick == /\ \A a \in Agents : ~Due(tree[a].until)
        /\ \A a \in Agents : \A r \in tree[a].records : ~Due(r.until)
        /\ \/ now < MaxTime
           \/ /\ \E a \in Agents : Mortal(a)
              /\ \A p \in Posters : post[p].pc = "idle"
        /\ now' = now + 1
        /\ UNCHANGED <<up, pods, tree, post, get, known, asked>>

ExpireDirectory(a) ==
    /\ Due(tree[a].until)
    /\ tree' = [tree EXCEPT ![a] = NoNode]
    /\ UNCHANGED <<now, up, pods, post, get, known, asked>>

ExpireRecord(a) ==
    \E r \in tree[a].records :
        /\ Due(r.until)
        /\ tree' = [tree EXCEPT ![a].records = @ \ {r}]
        /\ UNCHANGED <<now, up, pods, post, get, known, asked>>

Expire == \E a \in Agents : ExpireDirectory(a) \/ ExpireRecord(a)

\* The pods are there from the beginning.  The names of a DaemonSet's pods are
\* fresh: a deleted one does not return.
PodStop(a) == /\ a \in pods \cap Deletable
              /\ pods' = pods \ {a}
              /\ UNCHANGED <<now, up, tree, post, get, known, asked>>

-----------------------------------------------------------------------------
(* POST /api/v1/agents/:name                                               *)

\* A report is decoded and stamped; its name in etcd is the uptime in it.  The
\* agent has measured that before it sent the report: any may come at any time,
\* again, late, after a restart of the agent or after its pod is gone.
ReceiveReport(p, a, u) ==
    /\ up
    /\ now < MaxTime
    /\ post[p].pc = "idle"
    /\ post' = [post EXCEPT ![p] = [pc |-> "get", name |-> a, at |-> now,
                                    uptime |-> u]]
    /\ UNCHANGED <<now, up, pods, tree, get, known, asked>>

Proceed(p, pc) == post' = [post EXCEPT ![p].pc = pc]

\* glog.Fatalf, or any other end of the process; main is called again by the
\* restart of the pod.
Exit == /\ up' = FALSE
        /\ post' = [p \in Posters |-> IdlePost]
        /\ get' = [r \in Readers |-> IdleGet]
        /\ asked' = [r \in Readers |-> NothingAsked]
        /\ UNCHANGED <<now, pods, tree, known>>

\* checkOrCreateAgentTree.  An error other than KeyNotFound ends the process.
GetTree(p) ==
    LET found == tree[post[p].name].kind
    IN  /\ post[p].pc = "get"
        /\ \/ /\ Proceed(p, CASE found = "none" -> "create"
                              [] found = "file" -> "unlink"
                              [] found = "dir" -> "refresh")
              /\ UNCHANGED <<now, up, pods, tree, get, known, asked>>
           \/ "get" \in Failing /\ Exit

Replace(p, node) == tree' = [tree EXCEPT ![post[p].name] = node]

\* Only the deletion of a key that is still there is no error, and only then
\* the directory is created.  The answer may be lost.
Unlink(p) ==
    LET a == post[p].name
    IN  /\ post[p].pc = "unlink"
        /\ \/ /\ tree[a].kind = "file"
              /\ Replace(p, NoNode)
              /\ \/ Proceed(p, "create")
                 \/ "unlink" \in Failing /\ Proceed(p, "record")
           \/ /\ tree[a].kind # "file" \/ "unlink" \in Failing
              /\ Proceed(p, "record")
              /\ UNCHANGED tree
        /\ UNCHANGED <<now, up, pods, get, known, asked>>

\* Variant to be rejected: whatever is there by now is removed first.
RecreateTree(p) ==
    /\ post[p].pc = "create"
    /\ Replace(p, Directory(now + TTL))
    /\ Proceed(p, "record")
    /\ UNCHANGED <<now, up, pods, get, known, asked>>

\* createOrUpdateAgentTree(ctx, dirName, false).  Its errors are only logged.
CreateTree(p) ==
    LET a == post[p].name
    IN  /\ post[p].pc = "create"
        /\ \/ tree[a].kind = "none" /\ Replace(p, Directory(now + TTL))
           \/ /\ tree[a].kind # "none" \/ "create" \in Failing
              /\ UNCHANGED tree
        /\ Proceed(p, "record")
        /\ UNCHANGED <<now, up, pods, get, known, asked>>

\* Variant to be rejected: a directory that is there is left as it is.
LeaveTree(p) ==
    /\ post[p].pc = "refresh"
    /\ Proceed(p, "record")
    /\ UNCHANGED <<now, up, pods, tree, get, known, asked>>

\* createOrUpdateAgentTree(ctx, dirName, true).
RefreshTree(p) ==
    LET a == post[p].name
    IN  /\ post[p].pc = "refresh"
        /\ \/ /\ tree[a].kind = "dir"
              /\ Replace(p, [tree[a] EXCEPT !.until = now + TTL])
           \/ /\ tree[a].kind # "dir" \/ "refresh" \in Failing
              /\ UNCHANGED tree
        /\ Proceed(p, "record")
        /\ UNCHANGED <<now, up, pods, get, known, asked>>

\* No record is written over one of the same uptime.
Storable(p) == LET node == tree[post[p].name]
               IN  /\ node.kind # "file"
                   /\ \A r \in node.records : r.uptime # post[p].uptime

\* Variant to be rejected: no time to live is set.
NewRecordForEver(p) == [uptime |-> post[p].uptime, at |-> post[p].at,
                        until |-> 0]

\* The record with its own time to live.
NewRecord(p) == [uptime |-> post[p].uptime, at |-> post[p].at,
                 until |-> now + TTL]

\* A record put where there is no directory gets one without a time to live.
PutRecord(p) ==
    LET node == tree[post[p].name]
    IN  Replace(p, [node EXCEPT !.kind = "dir", !.records = @ \cup {NewRecord(p)}])

Later(m, n) == IF m < n THEN n ELSE m

\* Does p's report take the place of the latest that is stored?
IsLatest(p) == LET k == known[post[p].name]
               IN  \/ post[p].at > k.stored
                   \/ post[p].at = k.stored /\ post[p].uptime > k.uptime

\* What the history learns from the answer to p; a report of uptime 0 is none.
Learn(p, isStored) ==
    LET k == known[post[p].name]
        latest == isStored /\ IsLatest(p)
    IN  known' = IF post[p].uptime = 0 THEN known ELSE
                 [known EXCEPT ![post[p].name] =
                     [stored |-> IF latest THEN post[p].at ELSE k.stored,
                      uptime |-> IF latest THEN post[p].uptime ELSE k.uptime,
                      put |-> IF isStored THEN now ELSE k.put,
                      answered |-> Later(k.answered, post[p].at)]]

\* UpdateAgents, the rest: 200 is answered whether or not the record was put.
StoreRecord(p) ==
    /\ post[p].pc = "record"
    /\ \/ /\ Storable(p)
          /\ PutRecord(p)
          /\ Learn(p, TRUE)
       \/ /\ ~Storable(p) \/ "record" \in Failing
          /\ Learn(p, FALSE)
          /\ UNCHANGED tree
    /\ post' = [post EXCEPT ![p] = IdlePost]
    /\ UNCHANGED <<now, up, pods, get, asked>>

-----------------------------------------------------------------------------
(* The GET endpoints.  The CleanCache wrapper does nothing here.           *)

Request(r, k) ==
    /\ up
    /\ now <= MaxTime + 1
    /\ get[r].pc = "idle"
    /\ get' = [get EXCEPT ![r] = [@ EXCEPT !.pc = "fetch", !.kind = k]]
    /\ asked' = [asked EXCEPT ![r] =
                    [at |-> now,
                     stored |-> [b \in Agents |-> known[b].stored],
                     uptime |-> [b \in Agents |-> known[b].uptime],
                     answered |-> [b \in Agents |-> known[b].answered]]]
    /\ UNCHANGED <<now, up, pods, tree, post, known>>

\* Variant to be rejected: the first record that is met is shown.
LatestIsFirst(a) == IF tree[a].records = {} THEN 0
                    ELSE (CHOOSE r \in tree[a].records : TRUE).uptime

\* Variant to be rejected: an agent without a record is told from one with.
LatestOrNone(a) == Max({r.uptime : r \in tree[a].records} \cup {-1})

\* getAgents shows the record of the greatest uptime.  Uptime 0 stands for an
\* agent that is not there, so that a record with it does not count.
Latest(a) == Max({r.uptime : r \in tree[a].records} \cup {0})

\* The dump answers all that is fetched; of a single agent, its entry or, if
\* there is none, the zero spec.
See(r, seen) ==
    LET isCheck == get[r].kind = "check"
    IN  get' = [get EXCEPT ![r] =
                   [@ EXCEPT !.seen = seen,
                             !.pc = IF isCheck THEN "pods" ELSE "done",
                             !.status = IF isCheck THEN 0 ELSE 200]]

\* Without the tree, nothing is there: the error is only logged.
Fetch(r) ==
    /\ get[r].pc = "fetch"
    /\ \/ See(r, [a \in Agents |-> Latest(a)])
       \/ "fetch" \in Failing /\ See(r, NothingSeen)
    /\ UNCHANGED <<now, up, pods, tree, post, known, asked>>

\* CheckAgents, the rest, and the answer of ConnectivityCheck.  (The number in
\* its message comes from one more fetch, which decides nothing.)
Check(r) ==
    LET absent == {a \in pods : get[r].seen[a] = 0}
    IN  /\ get[r].pc = "pods"
        /\ \/ get' = [get EXCEPT ![r] =
                         [@ EXCEPT !.pc = "done", !.pods = pods,
                                   !.absent = absent,
                                   !.status = IF absent = {} THEN 200 ELSE 400]]
           \/ /\ "pods" \in Failing
              /\ get' = [get EXCEPT ![r] = [@ EXCEPT !.pc = "done", !.status = 500]]
        /\ UNCHANGED <<now, up, pods, tree, post, known, asked>>

\* The response is on its way and the goroutine ends.
Close(r) ==
    /\ get[r].pc = "done"
    /\ get' = [get EXCEPT ![r] = IdleGet]
    /\ asked' = [asked EXCEPT ![r] = NothingAsked]
    /\ UNCHANGED <<now, up, pods, tree, post, known>>

-----------------------------------------------------------------------------
(* The server's process.                                                   *)

\* Main: etcd has answered the ping, Kubernetes is connected, and the listener
\* is started.  Otherwise main panics, and the pod is started once more.
Start == /\ ~up
         /\ up' = TRUE
         /\ UNCHANGED <<now, pods, tree, post, get, known, asked>>

Crash == up /\ Exit

Init == /\ now = 1
        /\ up = FALSE
        /\ pods = Agents
        /\ tree = [a \in Agents |-> IF a \in Leftover THEN File ELSE NoNode]
        /\ post = [p \in Posters |-> IdlePost]
        /\ get = [r \in Readers |-> IdleGet]
        /\ known = [a \in Agents |-> NothingKnown]
        /\ asked = [r \in Readers |-> NothingAsked]

Serve(p) == GetTree(p) \/ Unlink(p) \/ CreateTree(p) \/ RefreshTree(p) \/ StoreRecord(p)

Answer(r) == Fetch(r) \/ Check(r) \/ Close(r)

Ask(r) == \E k \in RequestKinds : Request(r, k)

World == \/ Tick
         \/ Expire
         \/ \E a \in Agents : PodStop(a)

Next == \/ World
        \/ \E p \in Posters, a \in Agents, u \in Uptimes : ReceiveReport(p, a, u)
        \/ \E p \in Posters : Serve(p)
        \/ \E r \in Readers : Ask(r) \/ Answer(r)
        \/ Start
        \/ Crash

Spec == Init /\ [][Next]_vars

-----------------------------------------------------------------------------
(* Properties.                                                             *)

\* Every variable holds what its comment says, and records are in directories.
TypeOK ==
    /\ now \in Nat \ {0}
    /\ up \in BOOLEAN
    /\ pods \subseteq Agents
    /\ tree \in [Agents -> [kind : NodeKinds, until : Nat,
                            records : SUBSET Records]]
    /\ \A a \in Agents : tree[a].kind # "dir" =>
                            tree[a].until = 0 /\ tree[a].records = {}
    /\ post \in [Posters -> Posts]
    /\ get \in [Readers -> Gets]
    /\ known \in [Agents -> Knowledge]
    /\ asked \in [Readers -> Questions]

\* The stored report of a that r knew of when it was asked is still to be seen.
Owed(r, a) == LET stamp == asked[r].stored[a]
              IN  stamp # 0 /\ now < stamp + TTL

\* A pod is called absent only if each report of it that had been stored when
\* the check was asked for has lived its time since the server received it,
\* although the directory and the record live apart, either of them may expire
\* between two steps of a handler, and handlers create and refresh the
\* directory under each other's hands.  Kept as long as neither the fetch of
\* the tree nor the refresh of a directory fails.
AbsentMeansSilent ==
    \A r \in Readers : \A a \in get[r].absent : ~Owed(r, a)

\* A check that does not list a pod vouches for a report of it that was put not
\* longer than its time to live before the check was asked for, whatever fails.
UnlistedHasReported ==
    \A r \in Readers : get[r].status \in {200, 400} =>
        \A a \in get[r].pods \ get[r].absent :
            /\ known[a].put # 0
            /\ asked[r].at <= known[a].put + TTL

\* What a dump, the data of a single agent or a check goes by does not lag behind
\* the latest report that was stored when it was asked for: a record is seen, of
\* an uptime not below that report's.  Kept as long as the tree can be fetched
\* and a directory can be refreshed.  This compares uptimes, as getAgents does:
\* an older record of a greater uptime, from before a restart of the agent, may
\* still hide that report.
DumpNotBehind ==
    \A r \in Readers : get[r].pc \in {"pods", "done"} =>
        \A a \in Agents : Owed(r, a) =>
            /\ get[r].seen[a] # 0
            /\ get[r].seen[a] >= asked[r].uptime[a]

FS == INSTANCE ForgetfulStore
          WITH Keys <- Agents,
               held <- [a \in Agents |-> {r.at : r \in tree[a].records}]

\* Directory, record and the order in which they are written make a store that
\* forgets no report before its time to live is over.
ImplementsForgetfulStore == FS!Spec

\* No record outlives its time for ever, even one in a directory that has none:
\* "All data auto-purged by ETCD TTL feature" (storer_etcd.go).
RecordsArePurged ==
    \A a \in Agents : tree[a].records # {} ~> tree[a].records = {}

-----------------------------------------------------------------------------
(* A statement of the repository that the code does not keep.              *)

\* "In case of using etcd, period of agent's data obsolescence is set
\* explicitly in parameters to the server" (README): an agent whose report was
\* answered by 200 within that period is not absent.
AnsweredIsSeen ==
    \A r \in Readers : \A a \in get[r].absent :
        LET stamp == asked[r].answered[a]
        IN  stamp # 0 => stamp + TTL <= now

===============================================================================
