------------------------ MODULE EtcdAgentStorageProofs ------------------------
(* Theorems about the etcd storage, for any agents, handlers, times to live,  *)
(* bounds and failures: types; times to live, and that the storage implements *)
(* ForgetfulStore; what a request is told, by the history of the reports.     *)
EXTENDS EtcdAgentStorage, OperatorProofs

-------------------------------------------------------------------------------
(* Lemmas on the data.                                                        *)

\* The idle records have their types.
LEMMA IdleTypes == /\ IdlePost \in Posts
                   /\ IdleGet \in Gets
                   /\ NothingAsked \in Questions
                   /\ NothingKnown \in Knowledge
                   /\ NothingSeen \in [Agents -> Nat]
  BY DEF IdlePost, Posts, PostPcs, IdleGet, Gets, GetPcs, NothingAsked, Questions,
         NothingKnown, Knowledge, NothingSeen

\* The uptime that is shown of an agent.
LEMMA LatestIsMax ==
    ASSUME NEW a \in Agents, \A x \in tree[a].records : x.uptime \in Uptimes
    PROVE  /\ Latest(a) \in Nat
           /\ \A x \in tree[a].records : x.uptime <= Latest(a)
           /\ Latest(a) # 0 => \E x \in tree[a].records : x.uptime = Latest(a)
<1> DEFINE S == {x.uptime : x \in tree[a].records} \cup {0}
<1>0. PICK top \in Uptimes : \A u \in Uptimes : u <= top
  BY UptimesAssumption
<1>1. S \in SUBSET Nat /\ S # {} /\ top \in Nat /\ \A s \in S : s <= top
  <2>1. top \in Nat /\ Uptimes \subseteq Nat
    BY UptimesAssumption
  <2>2. ASSUME NEW s \in S PROVE s \in Nat /\ s <= top
    <3>1. CASE s = 0
      BY <2>1, <3>1
    <3>2. CASE s \in Uptimes
      BY <1>0, <2>1, <3>2
    <3>3. QED
      BY <3>1, <3>2
  <2>3. 0 \in S
    OBVIOUS
  <2> HIDE DEF S
  <2>4. QED
    BY <2>1, <2>2, <2>3
<1>2. Max(S) \in S /\ \A s \in S : s <= Max(S)
  BY <1>1, MaxOfBounded
<1>3. QED
  BY <1>1, <1>2 DEF Latest

-------------------------------------------------------------------------------
(* Types.  A handler that is not idle works for an agent, no stamp is ahead   *)
(* of the clock, and the uptimes are those that reports give: without this    *)
(* the types are not inductive, since the tree is indexed by these names and  *)
(* the greatest uptime is shown.                                              *)

Nodes == [kind : NodeKinds, until : Nat, records : SUBSET Records]

Working(p) == post[p].pc # "idle" =>
                 /\ post[p].name \in Agents
                 /\ post[p].uptime \in Uptimes
                 /\ post[p].at \in 1..now

InTime(a) == \A x \in tree[a].records : x.uptime \in Uptimes /\ x.at \in 1..now

TypeInv == /\ TypeOK
           /\ \A p \in Posters : Working(p)
           /\ \A a \in Agents : InTime(a)

\* The variables that the clock, the agents and etcd change.
LEMMA WorldTypes == ASSUME TypeInv, World PROVE TypeInv'
<1>1. CASE Tick
  <2>1. TypeOK' /\ now \in Nat /\ now' = now + 1 /\ UNCHANGED <<tree, post>>
    BY <1>1 DEF Tick, TypeInv, TypeOK
  <2>2. ASSUME NEW p \in Posters PROVE Working(p)'
    <3>1. post[p] \in Posts /\ Working(p)
      BY DEF TypeInv, TypeOK
    <3>2. QED
      BY <2>1, <3>1 DEF Working, Posts
  <2>3. ASSUME NEW a \in Agents PROVE InTime(a)'
    <3>1. InTime(a) /\ \A x \in tree[a].records : x \in Records
      BY DEF TypeInv, TypeOK
    <3>2. QED
      BY <2>1, <3>1 DEF InTime, Records
  <2>4. QED
    BY <2>1, <2>2, <2>3 DEF TypeInv
<1>2. ASSUME NEW a \in Agents, ExpireDirectory(a) \/ ExpireRecord(a) PROVE TypeInv'
  <2>1. PICK n \in Nodes :
           /\ tree' = [tree EXCEPT ![a] = n]
           /\ n.kind # "dir" => n.until = 0 /\ n.records = {}
           /\ n.records \subseteq tree[a].records
    <3>1. CASE ExpireDirectory(a)
      <4>1. NoNode \in Nodes
        BY DEF NoNode, Nodes, NodeKinds
      <4>2. QED
        BY <3>1, <4>1 DEF ExpireDirectory, NoNode
    <3>2. CASE ExpireRecord(a)
      <4>1. PICK x \in tree[a].records : tree' = [tree EXCEPT ![a].records = @ \ {x}]
        BY <3>2 DEF ExpireRecord
      <4> DEFINE n == [tree[a] EXCEPT !.records = @ \ {x}]
      <4>2. tree[a] \in Nodes
        BY DEF TypeInv, TypeOK, Nodes
      <4>3. n \in Nodes /\ n.kind = tree[a].kind /\ n.until = tree[a].until
              /\ n.records = tree[a].records \ {x}
        BY <4>2 DEF Nodes
      <4>4. tree' = [tree EXCEPT ![a] = n]
        BY <4>1 DEF TypeInv, TypeOK
      <4>5. QED
        BY <4>3, <4>4 DEF TypeInv, TypeOK
    <3>3. QED
      BY <1>2, <3>1, <3>2
  <2>2. tree' \in [Agents -> Nodes]
    BY <2>1 DEF TypeInv, TypeOK, Nodes
  <2>3. UNCHANGED <<now, up, pods, post, get, known, asked>>
    BY <1>2 DEF ExpireDirectory, ExpireRecord
  <2>4. QED
    BY <2>1, <2>2, <2>3 DEF TypeInv, TypeOK, Working, InTime, Nodes
<1>3. ASSUME NEW a \in Agents, PodStop(a) PROVE TypeInv'
  <2>1. TypeOK' /\ UNCHANGED <<now, tree, post>>
    BY <1>3 DEF PodStop, TypeInv, TypeOK
  <2>2. QED
    BY <2>1 DEF TypeInv, Working, InTime
<1>4. QED
  BY <1>1, <1>2, <1>3 DEF World, Expire

\* A handler's node is one, and what it works with is in time.
LEMMA WorkingNode ==
    ASSUME TypeInv, NEW p \in Posters, post[p].pc # "idle"
    PROVE  /\ post[p] \in Posts
           /\ post[p].name \in Agents
           /\ tree[post[p].name] \in Nodes
           /\ InTime(post[p].name)
           /\ now \in Nat \ {0}
           /\ TTL \in Nat \ {0}
  BY TimesAssumption DEF TypeInv, TypeOK, Working, Nodes

\* Replacing a node keeps the types if the new one is in time.
LEMMA ReplaceTypes ==
    ASSUME TypeInv, NEW a \in Agents, NEW n \in Nodes,
           n.kind # "dir" => n.until = 0 /\ n.records = {},
           \A x \in n.records : x.uptime \in Uptimes /\ x.at \in 1..now,
           tree' = [tree EXCEPT ![a] = n], UNCHANGED now
    PROVE  /\ tree' \in [Agents -> Nodes]
           /\ \A b \in Agents : tree'[b].kind # "dir" =>
                                    tree'[b].until = 0 /\ tree'[b].records = {}
           /\ \A b \in Agents : InTime(b)'
<1>1. tree \in [Agents -> Nodes]
  BY DEF TypeInv, TypeOK, Nodes
<1>2. tree' \in [Agents -> Nodes]
  BY <1>1
<1>3. \A b \in Agents : tree'[b] = IF b = a THEN n ELSE tree[b]
  BY <1>1
<1>4. QED
  BY <1>2, <1>3 DEF TypeInv, TypeOK, InTime

\* The types of the handlers' locals are kept when one of them goes on.
LEMMA HandlersTypes ==
    ASSUME TypeInv, NEW p \in Posters, NEW l \in Posts,
           post' = [post EXCEPT ![p] = l], UNCHANGED now,
           l.pc # "idle" => l.name \in Agents /\ l.uptime \in Uptimes /\ l.at \in 1..now
    PROVE  post' \in [Posters -> Posts] /\ \A q \in Posters : Working(q)'
  BY DEF TypeInv, TypeOK, Working

\* A handler that proceeds changes nothing else of its locals.
LEMMA Proceeding ==
    ASSUME TypeInv, NEW p \in Posters, NEW pc \in PostPcs, post[p].pc # "idle",
           Proceed(p, pc), UNCHANGED now
    PROVE  /\ post' \in [Posters -> Posts]
           /\ \A q \in Posters : Working(q)'
           /\ post' = [post EXCEPT ![p] = post'[p]]
           /\ post'[p].pc = pc
           /\ post'[p].name = post[p].name
           /\ post'[p].uptime = post[p].uptime
           /\ post'[p].at = post[p].at
<1> DEFINE l == [post[p] EXCEPT !.pc = pc]
<1>1. post \in [Posters -> Posts] /\ post[p] \in Posts /\ Working(p)
  BY DEF TypeInv, TypeOK
<1>2. post' = [post EXCEPT ![p] = l] /\ post'[p] = l
  BY <1>1 DEF Proceed
<1>3. l \in Posts /\ l.pc = pc /\ l.name = post[p].name
        /\ l.uptime = post[p].uptime /\ l.at = post[p].at
  BY <1>1 DEF Posts
<1>4. post' \in [Posters -> Posts] /\ \A q \in Posters : Working(q)'
  <2> HIDE DEF l
  <2>1. QED
    BY <1>1, <1>2, <1>3, HandlersTypes DEF Working
<1>5. QED
  BY <1>2, <1>3, <1>4

\* The end of the process keeps the types.
LEMMA ExitTypes == ASSUME TypeInv, Exit PROVE TypeInv'
<1>1. /\ post' \in [Posters -> Posts]
      /\ get' \in [Readers -> Gets]
      /\ asked' \in [Readers -> Questions]
  BY IdleTypes DEF Exit
<1>2. \A p \in Posters : Working(p)'
  BY DEF Exit, Working, IdlePost
<1>3. \A a \in Agents : InTime(a)'
  BY DEF Exit, InTime, TypeInv
<1>4. TypeOK'
  BY <1>1 DEF Exit, TypeInv, TypeOK
<1>5. QED
  BY <1>2, <1>3, <1>4 DEF TypeInv

\* What a step on a directory may do to the node.
TreeStep(p) == Unlink(p) \/ CreateTree(p) \/ RefreshTree(p)

\* A step on a directory moves its handler on, and leaves the node as it is,
\* removes a plain key, makes an empty directory, or extends the time to live.
LEMMA DirectorySteps ==
    ASSUME TypeInv, NEW p \in Posters, TreeStep(p)
    PROVE  /\ UNCHANGED <<now, up, pods, get, known, asked>>
           /\ post[p].pc # "idle"
           /\ \E pc \in PostPcs \ {"idle"} : Proceed(p, pc)
           /\ \/ tree' = tree
              \/ /\ tree[post[p].name].kind = "file"
                 /\ Replace(p, NoNode)
              \/ /\ tree[post[p].name].kind = "none"
                 /\ Replace(p, Directory(now + TTL))
              \/ /\ tree[post[p].name].kind = "dir"
                 /\ Replace(p, [tree[post[p].name] EXCEPT !.until = now + TTL])
  BY DEF TreeStep, Unlink, CreateTree, RefreshTree, PostPcs

\* Steps on a directory keep the types.
LEMMA DirectoryTypes ==
    ASSUME TypeInv, NEW p \in Posters, TreeStep(p)
    PROVE  TypeInv'
<1> DEFINE a == post[p].name
<1>1. /\ UNCHANGED <<now, up, pods, get, known, asked>>
      /\ post[p].pc # "idle"
  BY DirectorySteps
<1>2. post' \in [Posters -> Posts] /\ \A q \in Posters : Working(q)'
  BY <1>1, DirectorySteps, Proceeding
<1>3. a \in Agents /\ tree[a] \in Nodes /\ InTime(a) /\ now \in Nat /\ TTL \in Nat
  BY <1>1, WorkingNode
<1>4. /\ tree' \in [Agents -> Nodes]
      /\ \A b \in Agents : tree'[b].kind # "dir" =>
                               tree'[b].until = 0 /\ tree'[b].records = {}
      /\ \A b \in Agents : InTime(b)'
  <2>1. CASE tree' = tree
    BY <1>1, <2>1 DEF TypeInv, TypeOK, Nodes, InTime
  <2>2. CASE Replace(p, NoNode)
    <3>1. NoNode \in Nodes /\ NoNode.until = 0 /\ NoNode.records = {}
      BY DEF NoNode, Nodes, NodeKinds
    <3>2. QED
      BY <1>1, <1>3, <2>2, <3>1, ReplaceTypes DEF Replace
  <2>3. CASE Replace(p, Directory(now + TTL))
    <3> DEFINE n == Directory(now + TTL)
    <3>1. n \in Nodes /\ n.kind = "dir" /\ n.records = {}
      BY <1>3 DEF Directory, Nodes, NodeKinds
    <3>2. QED
      BY <1>1, <1>3, <2>3, <3>1, ReplaceTypes DEF Replace
  <2>4. CASE /\ tree[a].kind = "dir"
             /\ Replace(p, [tree[a] EXCEPT !.until = now + TTL])
    <3> DEFINE n == [tree[a] EXCEPT !.until = now + TTL]
    <3>1. n \in Nodes /\ n.kind = "dir" /\ n.records = tree[a].records
      BY <1>3, <2>4 DEF Nodes
    <3>2. tree' = [tree EXCEPT ![a] = n]
      BY <2>4 DEF Replace
    <3>3. \A x \in n.records : x.uptime \in Uptimes /\ x.at \in 1..now
      BY <1>3, <3>1 DEF InTime
    <3> HIDE DEF n
    <3>4. QED
      BY <1>1, <1>3, <3>1, <3>2, <3>3, ReplaceTypes
  <2>5. QED
    BY <2>1, <2>2, <2>3, <2>4, DirectorySteps
<1>5. TypeOK'
  BY <1>1, <1>2, <1>4 DEF TypeInv, TypeOK, Nodes
<1>6. QED
  BY <1>2, <1>4, <1>5 DEF TypeInv


\* A report that comes in is in time.
LEMMA ReceiveTypes ==
    ASSUME TypeInv, NEW p \in Posters, NEW a \in Agents, NEW u \in Uptimes,
         ReceiveReport(p, a, u)
    PROVE  TypeInv'
<1> DEFINE l == [pc |-> "get", name |-> a, at |-> now, uptime |-> u]
<1>1. u \in Nat /\ now \in Nat \ {0}
  BY UptimesAssumption DEF TypeInv, TypeOK
<1>2. /\ l \in Posts
      /\ l.name \in Agents /\ l.uptime \in Uptimes /\ l.at \in 1..now
  BY <1>1 DEF Posts, PostPcs
<1>3. post' = [post EXCEPT ![p] = l]
      /\ UNCHANGED <<now, up, pods, tree, get, known, asked>>
  BY DEF ReceiveReport
<1>4. post' \in [Posters -> Posts] /\ \A q \in Posters : Working(q)'
  <2> HIDE DEF l
  <2>1. QED
    BY <1>2, <1>3, HandlersTypes
<1>5. QED
  BY <1>3, <1>4 DEF TypeInv, TypeOK, InTime

\* The first request of a POST keeps the types.
LEMMA GetTreeTypes == ASSUME TypeInv, NEW p \in Posters, GetTree(p) PROVE TypeInv'
<1>1. CASE Exit
  BY <1>1, ExitTypes
<1>2. ASSUME NEW pc \in PostPcs, Proceed(p, pc),
             UNCHANGED <<now, up, pods, tree, get, known, asked>>
      PROVE  TypeInv'
  <2>1. post' \in [Posters -> Posts] /\ \A q \in Posters : Working(q)'
    BY <1>2, Proceeding DEF GetTree
  <2>2. QED
    BY <1>2, <2>1 DEF TypeInv, TypeOK, InTime
<1>3. ASSUME ~ Exit
      PROVE  \E pc \in PostPcs :
                /\ Proceed(p, pc)
                /\ UNCHANGED <<now, up, pods, tree, get, known, asked>>
  <2>1. tree[post[p].name].kind \in NodeKinds
    BY WorkingNode DEF GetTree, Nodes
  <2>2. QED
    BY <1>3, <2>1 DEF GetTree, NodeKinds, PostPcs
<1>4. QED
  BY <1>1, <1>2, <1>3

\* The node after a record has been put.
Recorded(p) == [tree[post[p].name] EXCEPT !.kind = "dir",
                                          !.records = @ \cup {NewRecord(p)}]

\* A record that is put is one more record in a directory.
LEMMA RecordedNode ==
    ASSUME TypeInv, NEW p \in Posters, post[p].pc # "idle"
    PROVE  /\ NewRecord(p) \in Records
           /\ NewRecord(p).uptime = post[p].uptime
           /\ NewRecord(p).at = post[p].at
           /\ NewRecord(p).until = now + TTL
           /\ Recorded(p) \in Nodes
           /\ Recorded(p).kind = "dir"
           /\ Recorded(p).until = tree[post[p].name].until
           /\ Recorded(p).records = tree[post[p].name].records \cup {NewRecord(p)}
<1>1. post[p] \in Posts /\ tree[post[p].name] \in Nodes /\ now \in Nat /\ TTL \in Nat
  BY WorkingNode
<1>2. /\ NewRecord(p) \in Records
      /\ NewRecord(p).uptime = post[p].uptime
      /\ NewRecord(p).at = post[p].at
      /\ NewRecord(p).until = now + TTL
  BY <1>1 DEF NewRecord, Records, Posts
<1>3. QED
  BY <1>1, <1>2 DEF Recorded, Nodes, NodeKinds

\* What the history may learn.
LEMMA LearnTypes ==
    ASSUME TypeInv, NEW p \in Posters, post[p].pc # "idle",
           NEW isStored \in BOOLEAN, Learn(p, isStored)
    PROVE  known' \in [Agents -> Knowledge]
<1> DEFINE a == post[p].name
           k == known[a]
           latest == isStored /\ IsLatest(p)
           l == [stored |-> IF latest THEN post[p].at ELSE k.stored,
                 uptime |-> IF latest THEN post[p].uptime ELSE k.uptime,
                 put |-> IF isStored THEN now ELSE k.put,
                 answered |-> Later(k.answered, post[p].at)]
<1>1. known \in [Agents -> Knowledge] /\ post[p] \in Posts /\ a \in Agents /\ now \in Nat
  BY WorkingNode DEF TypeInv, TypeOK
<1>2. l \in Knowledge
  BY <1>1 DEF Knowledge, Posts, Later
<1>3. known' = known \/ known' = [known EXCEPT ![a] = l]
  BY DEF Learn
<1>4. QED
  BY <1>1, <1>2, <1>3

\* The end of a POST keeps the types.
LEMMA StoreTypes == ASSUME TypeInv, NEW p \in Posters, StoreRecord(p) PROVE TypeInv'
<1> DEFINE a == post[p].name
<1>1. /\ post[p].pc # "idle"
      /\ post' = [post EXCEPT ![p] = IdlePost]
      /\ UNCHANGED <<now, up, pods, get, asked>>
  BY DEF StoreRecord
<1>2. post' \in [Posters -> Posts] /\ \A q \in Posters : Working(q)'
  <2>1. IdlePost \in Posts /\ IdlePost.pc = "idle"
    BY IdleTypes DEF IdlePost
  <2>2. QED
    BY <1>1, <2>1, HandlersTypes
<1>3. known' \in [Agents -> Knowledge]
  BY <1>1, LearnTypes DEF StoreRecord
<1>4. /\ tree' \in [Agents -> Nodes]
      /\ \A b \in Agents : tree'[b].kind # "dir" =>
                               tree'[b].until = 0 /\ tree'[b].records = {}
      /\ \A b \in Agents : InTime(b)'
  <2>1. CASE tree' = tree
    BY <1>1, <2>1 DEF TypeInv, TypeOK, Nodes, InTime
  <2>2. CASE PutRecord(p)
    <3>1. tree' = [tree EXCEPT ![a] = Recorded(p)]
      BY <2>2 DEF PutRecord, Replace, Recorded
    <3>2. a \in Agents /\ InTime(a) /\ post[p].uptime \in Uptimes /\ post[p].at \in 1..now
      BY <1>1, WorkingNode DEF TypeInv, Working
    <3>3. \A x \in Recorded(p).records : x.uptime \in Uptimes /\ x.at \in 1..now
      BY <1>1, <3>2, RecordedNode DEF InTime
    <3>4. QED
      BY <1>1, <3>1, <3>2, <3>3, RecordedNode, ReplaceTypes
  <2>3. QED
    BY <2>1, <2>2 DEF StoreRecord
<1>5. TypeOK'
  BY <1>1, <1>2, <1>3, <1>4 DEF TypeInv, TypeOK, Nodes
<1>6. QED
  BY <1>2, <1>4, <1>5 DEF TypeInv

\* The greatest uptime of each agent is a number.
LEMMA LatestTypes == ASSUME TypeInv PROVE [a \in Agents |-> Latest(a)] \in [Agents -> Nat]
<1>1. ASSUME NEW a \in Agents PROVE Latest(a) \in Nat
  <2>1. \A x \in tree[a].records : x.uptime \in Uptimes
    BY DEF TypeInv, InTime
  <2>2. QED
    BY <2>1, LatestIsMax
<1>2. QED
  BY <1>1

\* What a request begins with.
LEMMA RequestStep ==
    ASSUME TypeInv, NEW r \in Readers, NEW k \in RequestKinds, Request(r, k)
    PROVE  \E g \in Gets : /\ get' = [get EXCEPT ![r] = g]
                           /\ g.pc = "fetch"
                           /\ g.seen = get[r].seen /\ g.pods = get[r].pods
                           /\ g.absent = get[r].absent /\ g.status = get[r].status
<1> DEFINE g1 == [get[r] EXCEPT !.pc = "fetch"]
           g2 == [g1 EXCEPT !.kind = k]
<1>1. get \in [Readers -> Gets] /\ get[r] \in Gets /\ "fetch" \in GetPcs
        /\ k \in {"none", "check", "data"}
  BY KindsAssumption DEF TypeInv, TypeOK, GetPcs
<1>2. get' = [get EXCEPT ![r] = g2]
  BY <1>1 DEF Request
<1>3. /\ g1 \in Gets /\ g1.pc = "fetch" /\ g1.kind = get[r].kind /\ g1.seen = get[r].seen
      /\ g1.pods = get[r].pods /\ g1.absent = get[r].absent /\ g1.status = get[r].status
  BY <1>1 DEF Gets
<1> HIDE DEF g1
<1>4. g2 \in Gets /\ g2.pc = g1.pc /\ g2.seen = g1.seen /\ g2.pods = g1.pods
        /\ g2.absent = g1.absent /\ g2.status = g1.status
  BY <1>1, <1>3 DEF Gets
<1>5. QED
  <2> HIDE DEF g2
  <2>1. QED
    BY <1>2, <1>3, <1>4

\* What becomes of the fetched tree.
LEMMA SeeStep ==
    ASSUME TypeInv, NEW r \in Readers, NEW seen \in [Agents -> Nat], See(r, seen)
    PROVE  \E g \in Gets : /\ get' = [get EXCEPT ![r] = g]
                           /\ g.seen = seen /\ g.pods = get[r].pods
                           /\ g.absent = get[r].absent
                           /\ \/ g.pc = "pods" /\ g.status = 0
                              \/ g.pc = "done" /\ g.status = 200
<1> DEFINE check == get[r].kind = "check"
           pc == IF check THEN "pods" ELSE "done"
           status == IF check THEN 0 ELSE 200
           g1 == [get[r] EXCEPT !.seen = seen]
           g2 == [g1 EXCEPT !.pc = pc]
           g3 == [g2 EXCEPT !.status = status]
<1>1. /\ get \in [Readers -> Gets] /\ get[r] \in Gets
      /\ pc \in GetPcs /\ status \in {0, 200, 400, 500}
      /\ \/ pc = "pods" /\ status = 0
         \/ pc = "done" /\ status = 200
  <2>1. get \in [Readers -> Gets]
    BY DEF TypeInv, TypeOK
  <2>2. CASE check
    BY <2>1, <2>2 DEF GetPcs
  <2>3. CASE ~ check
    BY <2>1, <2>3 DEF GetPcs
  <2>4. QED
    BY <2>2, <2>3
<1>2. get' = [get EXCEPT ![r] = g3]
  BY <1>1 DEF See
<1> HIDE DEF pc, status
<1>3. g1 \in Gets /\ g1.seen = seen /\ g1.pods = get[r].pods /\ g1.absent = get[r].absent
  BY <1>1 DEF Gets
<1> HIDE DEF g1
<1>4. g2 \in Gets /\ g2.seen = g1.seen /\ g2.pods = g1.pods /\ g2.absent = g1.absent
        /\ g2.pc = pc
  BY <1>1, <1>3 DEF Gets
<1> HIDE DEF g2
<1>5. g3 \in Gets /\ g3.seen = g2.seen /\ g3.pods = g2.pods /\ g3.absent = g2.absent
        /\ g3.pc = g2.pc /\ g3.status = status
  <2>1. g2 \in Gets /\ status \in {0, 200, 400, 500}
    BY <1>1, <1>4
  <2>2. QED
    BY <2>1 DEF Gets
<1> HIDE DEF g3
<1>6. /\ g3.seen = seen /\ g3.pods = get[r].pods /\ g3.absent = get[r].absent
      /\ g3.pc = pc /\ g3.status = status
  BY <1>3, <1>4, <1>5
<1> USE <1>5
<1>7. WITNESS g3 \in Gets
<1>8. QED
  BY <1>1, <1>2, <1>6

\* The answer of a check.
LEMMA CheckStep ==
    ASSUME TypeInv, NEW r \in Readers, Check(r)
    PROVE  \/ \E g \in Gets : /\ get' = [get EXCEPT ![r] = g]
                              /\ g.pc = "done" /\ g.seen = get[r].seen
                              /\ g.pods = pods
                              /\ g.absent = {a \in pods : get[r].seen[a] = 0}
                              /\ g.status \in {200, 400}
           \/ \E g \in Gets : /\ get' = [get EXCEPT ![r] = g]
                              /\ g.pc = "done" /\ g.seen = get[r].seen
                              /\ g.pods = get[r].pods /\ g.absent = get[r].absent
                              /\ g.status = 500
<1> DEFINE absent == {a \in pods : get[r].seen[a] = 0}
           status == IF absent = {} THEN 200 ELSE 400
           g1 == [get[r] EXCEPT !.pc = "done"]
           g2 == [g1 EXCEPT !.pods = pods]
           g3 == [g2 EXCEPT !.absent = absent]
           g4 == [g3 EXCEPT !.status = status]
           h2 == [g1 EXCEPT !.status = 500]
<1>1. get \in [Readers -> Gets] /\ get[r] \in Gets /\ "done" \in GetPcs
        /\ pods \in SUBSET Agents /\ absent \in SUBSET Agents
        /\ status \in {200, 400}
  BY DEF TypeInv, TypeOK, GetPcs
<1>2. get' = [get EXCEPT ![r] = g4] \/ get' = [get EXCEPT ![r] = h2]
  BY <1>1 DEF Check
<1> HIDE DEF absent, status
<1>3. g1 \in Gets /\ g1.pc = "done" /\ g1.seen = get[r].seen /\ g1.pods = get[r].pods
        /\ g1.absent = get[r].absent
  BY <1>1 DEF Gets
<1> HIDE DEF g1
<1>4. g2 \in Gets /\ g2.pc = g1.pc /\ g2.seen = g1.seen /\ g2.pods = pods
  BY <1>1, <1>3 DEF Gets
<1>5. h2 \in Gets /\ h2.pc = g1.pc /\ h2.seen = g1.seen /\ h2.pods = g1.pods
        /\ h2.absent = g1.absent /\ h2.status = 500
  BY <1>3 DEF Gets
<1> HIDE DEF g2, h2
<1>6. g3 \in Gets /\ g3.pc = g2.pc /\ g3.seen = g2.seen /\ g3.pods = g2.pods
        /\ g3.absent = absent
  <2>1. g2 \in Gets /\ absent \in SUBSET Agents
    BY <1>1, <1>4
  <2>2. QED
    BY <2>1 DEF Gets
<1> HIDE DEF g3
<1>7. g4 \in Gets /\ g4.pc = g3.pc /\ g4.seen = g3.seen /\ g4.pods = g3.pods
        /\ g4.absent = g3.absent /\ g4.status = status
  BY <1>1, <1>6 DEF Gets
<1> HIDE DEF g4
<1>8. ASSUME get' = [get EXCEPT ![r] = g4]
      PROVE  \E g \in Gets : /\ get' = [get EXCEPT ![r] = g]
                              /\ g.pc = "done" /\ g.seen = get[r].seen
                              /\ g.pods = pods
                              /\ g.absent = {a \in pods : get[r].seen[a] = 0}
                              /\ g.status \in {200, 400}
  <2>1. /\ g4.pc = "done" /\ g4.seen = get[r].seen /\ g4.pods = pods
        /\ g4.absent = absent /\ g4.status \in {200, 400}
    BY <1>1, <1>3, <1>4, <1>6, <1>7
  <2> USE <1>7
  <2>2. WITNESS g4 \in Gets
  <2>3. QED
    BY <1>8, <2>1 DEF absent
<1>9. ASSUME get' = [get EXCEPT ![r] = h2]
      PROVE  \E g \in Gets : /\ get' = [get EXCEPT ![r] = g]
                              /\ g.pc = "done" /\ g.seen = get[r].seen
                              /\ g.pods = get[r].pods /\ g.absent = get[r].absent
                              /\ g.status = 500
  <2>1. /\ h2.pc = "done" /\ h2.seen = get[r].seen /\ h2.pods = get[r].pods
        /\ h2.absent = get[r].absent /\ h2.status = 500
    BY <1>3, <1>5
  <2> USE <1>5
  <2>2. WITNESS h2 \in Gets
  <2>3. QED
    BY <1>9, <2>1
<1>10. QED
  BY <1>2, <1>8, <1>9

\* The steps of the GET endpoints keep the types.
LEMMA ReaderTypes ==
    ASSUME TypeInv, NEW r \in Readers, Ask(r) \/ Answer(r)
    PROVE  TypeInv'
<1>1. get \in [Readers -> Gets] /\ asked \in [Readers -> Questions]
        /\ get[r] \in Gets /\ pods \subseteq Agents
  BY DEF TypeInv, TypeOK
<1>2. UNCHANGED <<now, up, pods, tree, post, known>>
  BY DEF Ask, Request, Answer, Fetch, Check, Close
<1>3. get' \in [Readers -> Gets]
  <2>1. ASSUME NEW k \in RequestKinds, Request(r, k) PROVE get' \in [Readers -> Gets]
    BY <1>1, <2>1, RequestStep
  <2>2. ASSUME NEW seen \in [Agents -> Nat], See(r, seen) PROVE get' \in [Readers -> Gets]
    BY <1>1, <2>2, SeeStep
  <2>3. CASE Fetch(r)
    BY <2>2, <2>3, LatestTypes, IdleTypes DEF Fetch
  <2>4. CASE Check(r)
    BY <1>1, <2>4, CheckStep
  <2>5. CASE Close(r)
    BY <1>1, <2>5, IdleTypes DEF Close
  <2>6. QED
    BY <2>1, <2>3, <2>4, <2>5 DEF Ask, Answer
<1>4. asked' \in [Readers -> Questions]
  <2>1. ASSUME NEW k \in RequestKinds, Request(r, k) PROVE asked' \in [Readers -> Questions]
    <3>1. [at |-> now, stored |-> [b \in Agents |-> known[b].stored],
           uptime |-> [b \in Agents |-> known[b].uptime],
           answered |-> [b \in Agents |-> known[b].answered]] \in Questions
      BY DEF TypeInv, TypeOK, Questions, Knowledge
    <3>2. QED
      BY <1>1, <2>1, <3>1 DEF Request
  <2>2. QED
    BY <1>1, <2>1, IdleTypes DEF Ask, Answer, Fetch, Check, Close
<1>5. TypeOK'
  BY <1>2, <1>3, <1>4 DEF TypeInv, TypeOK
<1>6. QED
  BY <1>2, <1>5 DEF TypeInv, Working, InTime

\* The types are an inductive invariant.
LEMMA TypesInitially == ASSUME Init PROVE TypeInv
<1>1. tree \in [Agents -> Nodes] /\ \A a \in Agents : tree[a].kind # "dir"
        /\ tree[a].until = 0 /\ tree[a].records = {}
  BY DEF Init, File, NoNode, Nodes, NodeKinds
<1>2. /\ post \in [Posters -> Posts]
      /\ get \in [Readers -> Gets]
      /\ known \in [Agents -> Knowledge]
      /\ asked \in [Readers -> Questions]
  BY IdleTypes DEF Init
<1>3. TypeOK
  <2>1. now \in Nat \ {0} /\ pods \subseteq Agents
    BY DEF Init
  <2>2. up \in BOOLEAN
    BY Zenon DEF Init
  <2>3. QED
    BY <1>1, <1>2, <2>1, <2>2 DEF TypeOK, Nodes
<1>4. QED
  BY <1>1, <1>3 DEF Init, TypeInv, Working, InTime, IdlePost

LEMMA TypesKept == ASSUME TypeInv, [Next]_vars PROVE TypeInv'
<1>1. CASE World
  BY <1>1, WorldTypes
<1>2. ASSUME NEW p \in Posters, NEW a \in Agents, NEW u \in Uptimes,
         ReceiveReport(p, a, u) PROVE TypeInv'
  BY <1>2, ReceiveTypes
<1>3. ASSUME NEW p \in Posters, Serve(p) PROVE TypeInv'
  BY <1>3, GetTreeTypes, DirectoryTypes, StoreTypes DEF Serve, TreeStep
<1>4. ASSUME NEW r \in Readers, Ask(r) \/ Answer(r) PROVE TypeInv'
  BY <1>4, ReaderTypes
<1>5. CASE Start
  BY <1>5 DEF Start, TypeInv, TypeOK, Working, InTime
<1>6. CASE Crash
  BY <1>6, ExitTypes DEF Crash
<1>7. CASE UNCHANGED vars
  BY <1>7 DEF vars, TypeInv, TypeOK, Working, InTime
<1>8. QED
  BY <1>1, <1>2, <1>3, <1>4, <1>5, <1>6, <1>7 DEF Next

\* Every variable of the etcd storage keeps its type, whatever fails or expires
\* between any two requests of any handlers; what is more, a handler that is not
\* idle works for an agent, and neither its stamp nor that of a record is ahead
\* of etcd's clock.
THEOREM TypeCorrect ==
    Spec => [](/\ TypeOK
               /\ \A p \in Posters : Working(p)
               /\ \A a \in Agents : InTime(a))
<1>1. Init => TypeInv
  BY TypesInitially
<1>2. TypeInv /\ [Next]_vars => TypeInv'
  BY TypesKept
<1>3. TypeInv => /\ TypeOK
                 /\ \A p \in Posters : Working(p)
                 /\ \A a \in Agents : InTime(a)
  BY DEF TypeInv
<1>4. QED
  BY <1>1, <1>2, <1>3, PTL DEF Spec

-------------------------------------------------------------------------------
(* What the steps do to the tree.                                             *)

\* A record that expires leaves its directory as it is.
LEMMA ExpireRecordEffect ==
    ASSUME TypeInv, NEW a \in Agents, ExpireRecord(a)
    PROVE  /\ \A b \in Agents \ {a} : tree'[b] = tree[b]
           /\ tree'[a].kind = tree[a].kind
           /\ tree'[a].until = tree[a].until
           /\ \E x \in tree[a].records :
                 Due(x.until) /\ tree'[a].records = tree[a].records \ {x}
           /\ UNCHANGED <<now, up, pods, post, get, known, asked>>
<1>1. PICK x \in tree[a].records :
         Due(x.until) /\ tree' = [tree EXCEPT ![a].records = @ \ {x}]
  BY DEF ExpireRecord
<1>2. tree \in [Agents -> Nodes] /\ tree[a] \in Nodes
  BY DEF TypeInv, TypeOK, Nodes
<1> DEFINE n == [tree[a] EXCEPT !.records = @ \ {x}]
<1>3. n.kind = tree[a].kind /\ n.until = tree[a].until
        /\ n.records = tree[a].records \ {x}
  BY <1>2 DEF Nodes
<1>4. tree' = [tree EXCEPT ![a] = n]
  BY <1>1, <1>2
<1> HIDE DEF n
<1>5. tree'[a] = n /\ \A b \in Agents \ {a} : tree'[b] = tree[b]
  BY <1>2, <1>4
<1>6. QED
  BY <1>1, <1>3, <1>5 DEF ExpireRecord

\* A directory that expires takes its records with it.
LEMMA ExpireDirectoryEffect ==
    ASSUME TypeInv, NEW a \in Agents, ExpireDirectory(a)
    PROVE  /\ \A b \in Agents \ {a} : tree'[b] = tree[b]
           /\ Due(tree[a].until)
           /\ tree'[a].kind = "none" /\ tree'[a].until = 0 /\ tree'[a].records = {}
           /\ UNCHANGED <<now, up, pods, post, get, known, asked>>
  BY DEF ExpireDirectory, TypeInv, TypeOK, NoNode

\* The steps on a directory touch no record.
LEMMA DirectoryEffect ==
    ASSUME TypeInv, NEW p \in Posters, TreeStep(p)
    PROVE  /\ UNCHANGED <<now, up, pods, get, known, asked>>
           /\ \A b \in Agents : tree'[b].records = tree[b].records
           /\ \A b \in Agents : \/ tree'[b] = tree[b]
                                \/ tree'[b].kind = "none"
                                \/ tree'[b].kind = "dir" /\ tree'[b].until = now + TTL
<1> DEFINE a == post[p].name
<1>1. /\ UNCHANGED <<now, up, pods, get, known, asked>>
      /\ post[p].pc # "idle"
  BY DirectorySteps
<1>2. a \in Agents /\ tree[a] \in Nodes /\ tree \in [Agents -> Nodes]
        /\ now \in Nat /\ TTL \in Nat
  BY <1>1, WorkingNode DEF TypeInv, TypeOK, Nodes
<1>3. tree[a].kind # "dir" => tree[a].records = {}
  BY <1>2 DEF TypeInv, TypeOK
<1>4. CASE tree' = tree
  BY <1>1, <1>4
<1>5. ASSUME NEW n, tree' = [tree EXCEPT ![a] = n], n.records = tree[a].records,
             n.kind = "none" \/ (n.kind = "dir" /\ n.until = now + TTL)
      PROVE  /\ \A b \in Agents : tree'[b].records = tree[b].records
             /\ \A b \in Agents : \/ tree'[b] = tree[b]
                                  \/ tree'[b].kind = "none"
                                  \/ tree'[b].kind = "dir" /\ tree'[b].until = now + TTL
  <2>1. \A b \in Agents : tree'[b] = IF b = a THEN n ELSE tree[b]
    BY <1>2, <1>5
  <2>2. QED
    BY <1>5, <2>1
<1>6. CASE tree[a].kind = "file" /\ Replace(p, NoNode)
  <2>1. NoNode.records = tree[a].records /\ NoNode.kind = "none"
    BY <1>3, <1>6 DEF NoNode
  <2>2. tree' = [tree EXCEPT ![a] = NoNode]
    BY <1>6 DEF Replace
  <2>3. QED
    BY <1>1, <1>5, <2>1, <2>2
<1>7. CASE tree[a].kind = "none" /\ Replace(p, Directory(now + TTL))
  <2> DEFINE n == Directory(now + TTL)
  <2>1. n.records = tree[a].records /\ n.kind = "dir" /\ n.until = now + TTL
    BY <1>3, <1>7 DEF Directory
  <2>2. tree' = [tree EXCEPT ![a] = n]
    BY <1>7 DEF Replace
  <2> HIDE DEF n
  <2>3. QED
    BY <1>1, <1>5, <2>1, <2>2
<1>8. CASE /\ tree[a].kind = "dir"
           /\ Replace(p, [tree[a] EXCEPT !.until = now + TTL])
  <2> DEFINE n == [tree[a] EXCEPT !.until = now + TTL]
  <2>1. n.records = tree[a].records /\ n.kind = "dir" /\ n.until = now + TTL
    BY <1>2, <1>8 DEF Nodes
  <2>2. tree' = [tree EXCEPT ![a] = n]
    BY <1>8 DEF Replace
  <2> HIDE DEF n
  <2>3. QED
    BY <1>1, <1>5, <2>1, <2>2
<1>9. QED
  BY <1>1, <1>4, <1>6, <1>7, <1>8, DirectorySteps

\* The handler of a step on a directory goes on.
LEMMA DirectoryProceeds ==
    ASSUME TypeInv, NEW p \in Posters, TreeStep(p)
    PROVE  /\ post[p].pc # "idle" /\ post'[p].pc # "idle"
           /\ post'[p].name = post[p].name
           /\ post'[p].uptime = post[p].uptime
           /\ post'[p].at = post[p].at
           /\ \A q \in Posters \ {p} : post'[q] = post[q]
<1>1. PICK pc \in PostPcs \ {"idle"} : Proceed(p, pc)
  BY DirectorySteps
<1>2. post[p].pc # "idle" /\ UNCHANGED now /\ post \in [Posters -> Posts]
  BY DirectorySteps DEF TypeInv, TypeOK
<1>3. /\ post' = [post EXCEPT ![p] = post'[p]]
      /\ post'[p].pc = pc
      /\ post'[p].name = post[p].name
      /\ post'[p].uptime = post[p].uptime
      /\ post'[p].at = post[p].at
  BY <1>1, <1>2, Proceeding
<1>4. \A q \in Posters \ {p} : post'[q] = post[q]
  BY <1>2, <1>3
<1>5. QED
  BY <1>1, <1>2, <1>3, <1>4

\* The last step of a POST adds a record or none.
LEMMA StoreEffect ==
    ASSUME TypeInv, NEW p \in Posters, StoreRecord(p)
    PROVE  /\ UNCHANGED <<now, up, pods, get, asked>>
           /\ post[p].pc = "record" /\ post'[p] = IdlePost
           /\ \A q \in Posters \ {p} : post'[q] = post[q]
           /\ post[p].name \in Agents /\ post[p].uptime \in Nat
           /\ post[p].uptime \in Uptimes /\ post[p].at \in 1..now
           /\ \/ tree' = tree /\ Learn(p, FALSE)
              \/ /\ Learn(p, TRUE)
                 /\ \A b \in Agents \ {post[p].name} : tree'[b] = tree[b]
                 /\ tree'[post[p].name] = Recorded(p)
<1>1. post \in [Posters -> Posts] /\ tree \in [Agents -> Nodes]
  BY DEF TypeInv, TypeOK, Nodes
<1>2. /\ UNCHANGED <<now, up, pods, get, asked>>
      /\ post[p].pc = "record" /\ post'[p] = IdlePost
      /\ \A q \in Posters \ {p} : post'[q] = post[q]
  BY <1>1 DEF StoreRecord
<1>3. post[p].name \in Agents /\ post[p].uptime \in Nat
        /\ post[p].uptime \in Uptimes /\ post[p].at \in 1..now
  BY <1>1, <1>2, WorkingNode DEF TypeInv, Working, Posts
<1>4. CASE PutRecord(p) /\ Learn(p, TRUE)
  <2>1. tree' = [tree EXCEPT ![post[p].name] = Recorded(p)]
    BY <1>4 DEF PutRecord, Replace, Recorded
  <2>2. QED
    BY <1>1, <1>2, <1>3, <1>4, <2>1
<1>5. CASE Learn(p, FALSE) /\ UNCHANGED tree
  BY <1>2, <1>3, <1>5
<1>6. QED
  BY <1>4, <1>5 DEF StoreRecord

\* The other steps leave the tree alone.
LEMMA OtherEffect ==
    ASSUME TypeInv, [Next]_vars,
           ~ \E a \in Agents : ExpireDirectory(a) \/ ExpireRecord(a),
           ~ \E p \in Posters : TreeStep(p) \/ StoreRecord(p)
    PROVE  UNCHANGED tree
<1>1. CASE World
  BY <1>1 DEF World, Tick, Expire, PodStop
<1>2. ASSUME NEW p \in Posters, NEW a \in Agents, NEW u \in Uptimes,
         ReceiveReport(p, a, u) PROVE UNCHANGED tree
  BY <1>2 DEF ReceiveReport
<1>3. ASSUME NEW p \in Posters, Serve(p) PROVE UNCHANGED tree
  BY <1>3 DEF Serve, TreeStep, GetTree, Exit
<1>4. ASSUME NEW r \in Readers, Ask(r) \/ Answer(r) PROVE UNCHANGED tree
  BY <1>4 DEF Ask, Request, Answer, Fetch, Check, Close
<1>5. CASE Start \/ Crash
  BY <1>5 DEF Start, Crash, Exit
<1>6. QED
  BY <1>1, <1>2, <1>3, <1>4, <1>5 DEF Next, vars

\* Only the clock changes the time.
LEMMA OtherClock == ASSUME [Next]_vars, ~ Tick PROVE UNCHANGED now
<1>1. CASE World
  BY <1>1 DEF World, Expire, ExpireDirectory, ExpireRecord, PodStop
<1>2. ASSUME NEW p \in Posters, NEW a \in Agents, NEW u \in Uptimes,
         ReceiveReport(p, a, u) PROVE UNCHANGED now
  BY <1>2 DEF ReceiveReport
<1>3. ASSUME NEW p \in Posters, Serve(p) PROVE UNCHANGED now
  BY <1>3 DEF Serve, GetTree, Exit, Unlink, CreateTree, RefreshTree, StoreRecord
<1>4. ASSUME NEW r \in Readers, Ask(r) \/ Answer(r) PROVE UNCHANGED now
  BY <1>4 DEF Ask, Request, Answer, Fetch, Check, Close
<1>5. CASE Start \/ Crash
  BY <1>5 DEF Start, Crash, Exit
<1>6. QED
  BY <1>1, <1>2, <1>3, <1>4, <1>5 DEF Next, vars

\* Apart from the steps on the tree, a handler begins, ends with the process, or
\* has got the node.
LEMMA OtherLocals ==
    ASSUME TypeInv, [Next]_vars, NEW q \in Posters,
           ~ \E p \in Posters : TreeStep(p) \/ StoreRecord(p)
    PROVE  \/ post'[q] = post[q]
           \/ post'[q].pc \in {"idle", "get", "refresh"}
           \/ /\ GetTree(q) /\ tree[post[q].name].kind # "dir"
              /\ post'[q].name = post[q].name
<1> DEFINE Goal == \/ post'[q] = post[q]
                   \/ post'[q].pc \in {"idle", "get", "refresh"}
                   \/ /\ GetTree(q) /\ tree[post[q].name].kind # "dir"
                      /\ post'[q].name = post[q].name
<1>0. post \in [Posters -> Posts]
  BY DEF TypeInv, TypeOK
<1>1. CASE World
  BY <1>1 DEF World, Tick, Expire, ExpireDirectory, ExpireRecord, PodStop
<1>2. ASSUME NEW p \in Posters, NEW a \in Agents, NEW u \in Uptimes,
         ReceiveReport(p, a, u) PROVE Goal
  BY <1>0, <1>2 DEF ReceiveReport
<1>3. CASE Exit
  BY <1>3 DEF Exit, IdlePost
<1>4. ASSUME NEW p \in Posters, Serve(p), ~ Exit PROVE Goal
  <2>1. GetTree(p)
    BY <1>4 DEF Serve, TreeStep
  <2>2. tree[post[p].name].kind \in NodeKinds /\ post[p].pc # "idle"
    BY <2>1, WorkingNode DEF GetTree, Nodes
  <2>3. PICK pc \in PostPcs : /\ Proceed(p, pc)
                              /\ tree[post[p].name].kind = "dir" => pc = "refresh"
                              /\ UNCHANGED now
    BY <1>4, <2>1, <2>2 DEF GetTree, NodeKinds, PostPcs
  <2>4. /\ post'[p].pc = pc /\ post'[p].name = post[p].name
        /\ post' = [post EXCEPT ![p] = post'[p]]
    BY <2>2, <2>3, Proceeding
  <2>5. CASE q = p
    BY <2>1, <2>3, <2>4, <2>5
  <2>6. CASE q # p
    BY <1>0, <2>4, <2>6
  <2>7. QED
    BY <2>5, <2>6
<1>5. ASSUME NEW r \in Readers, Ask(r) \/ Answer(r) PROVE Goal
  BY <1>5 DEF Ask, Request, Answer, Fetch, Check, Close
<1>6. CASE Start \/ Crash
  BY <1>3, <1>6 DEF Start, Crash
<1>7. QED
  BY <1>1, <1>2, <1>3, <1>4, <1>5, <1>6 DEF Next, vars

-------------------------------------------------------------------------------
(* A report is kept for its time to live.  The directory counts as much as    *)
(* the record does, and a handler that has seen to the directory must find it *)
(* alive when it puts its record, or find none.                               *)

Lives(a) == \A x \in tree[a].records :
               /\ x.at + TTL <= x.until
               /\ tree[a].until # 0 => x.at + TTL <= tree[a].until

SeenTo(p) ==
    LET node == tree[post[p].name]
    IN  /\ post[p].pc \in {"unlink", "create", "record"}
        /\ node.kind = "dir"
        /\ node.until # 0
        => post[p].at + TTL <= node.until

LifeInv == /\ \A a \in Agents : Lives(a)
           /\ \A p \in Posters : SeenTo(p)

\* Where the node of every agent is as before, dead, or refreshed now, the
\* handlers that have seen to it find it as they expect.
LEMMA SeenToKept ==
    ASSUME TypeInv, LifeInv, NEW q \in Posters, UNCHANGED now, post'[q] = post[q],
           \A b \in Agents : \/ /\ tree'[b].kind = tree[b].kind
                                /\ tree'[b].until = tree[b].until
                             \/ tree'[b].kind = "none"
                             \/ tree'[b].kind = "dir" /\ tree'[b].until = now + TTL
                             \/ tree[b].kind = "none" /\ tree'[b].until = tree[b].until
    PROVE  SeenTo(q)'
<1>1. CASE post[q].pc = "idle"
  BY <1>1 DEF SeenTo
<1>2. CASE post[q].pc # "idle"
  <2>1. /\ post[q].name \in Agents /\ post[q].at \in Nat /\ post[q].at <= now
        /\ now \in Nat /\ TTL \in Nat
        /\ tree[post[q].name].until \in Nat
        /\ tree[post[q].name].kind = "none" => tree[post[q].name].until = 0
    BY <1>2, WorkingNode DEF TypeInv, TypeOK, Working, Posts, Nodes
  <2>2. SeenTo(q)
    BY DEF LifeInv
  <2>3. QED
    BY <2>1, <2>2 DEF SeenTo
<1>3. QED
  BY <1>1, <1>2

LEMMA LifeKept ==
    ASSUME TypeInv, LifeInv, [Next]_vars, "refresh" \notin Failing
    PROVE  LifeInv'
<1>1. ASSUME NEW a \in Agents, ExpireDirectory(a) PROVE LifeInv'
  <2>1. /\ \A b \in Agents \ {a} : tree'[b] = tree[b]
        /\ tree'[a].kind = "none" /\ tree'[a].records = {}
        /\ UNCHANGED <<now, post>>
    BY <1>1, ExpireDirectoryEffect
  <2>2. \A q \in Posters : SeenTo(q)'
    BY <2>1, SeenToKept
  <2>3. \A b \in Agents : Lives(b)'
    BY <2>1 DEF LifeInv, Lives
  <2>4. QED
    BY <2>2, <2>3 DEF LifeInv
<1>2. ASSUME NEW a \in Agents, ExpireRecord(a) PROVE LifeInv'
  <2>1. /\ \A b \in Agents \ {a} : tree'[b] = tree[b]
        /\ tree'[a].kind = tree[a].kind /\ tree'[a].until = tree[a].until
        /\ tree'[a].records \subseteq tree[a].records
        /\ UNCHANGED <<now, post>>
    BY <1>2, ExpireRecordEffect
  <2>2. \A q \in Posters : SeenTo(q)'
    BY <2>1, SeenToKept
  <2>3. \A b \in Agents : Lives(b)'
    BY <2>1 DEF LifeInv, Lives
  <2>4. QED
    BY <2>2, <2>3 DEF LifeInv
<1>3. ASSUME NEW p \in Posters, TreeStep(p) PROVE LifeInv'
  <2>1. /\ UNCHANGED now
        /\ \A b \in Agents : tree'[b].records = tree[b].records
        /\ \A b \in Agents : \/ tree'[b] = tree[b]
                             \/ tree'[b].kind = "none"
                             \/ tree'[b].kind = "dir" /\ tree'[b].until = now + TTL
    BY <1>3, DirectoryEffect
  <2>2. ASSUME NEW q \in Posters \ {p} PROVE SeenTo(q)'
    <3>1. post'[q] = post[q]
      BY <1>3, DirectoryProceeds
    <3>2. QED
      BY <2>1, <3>1, SeenToKept
  <2>3. SeenTo(p)'
    <3>1. /\ post'[p].name = post[p].name /\ post'[p].at = post[p].at
          /\ post[p].pc # "idle"
      BY <1>3, DirectoryProceeds
    <3>2. /\ post[p].name \in Agents /\ post[p].at \in Nat /\ post[p].at <= now
          /\ now \in Nat /\ TTL \in Nat
      BY <3>1, WorkingNode DEF TypeInv, Working, Posts
    <3>3. CASE RefreshTree(p)
      <4>1. tree[post[p].name] \in Nodes /\ tree \in [Agents -> Nodes]
        BY <3>1, WorkingNode DEF TypeInv, TypeOK, Nodes
      <4>2. \/ tree'[post[p].name].kind # "dir"
            \/ tree'[post[p].name].until = now + TTL
        BY <3>2, <3>3, <4>1, FailingAssumption DEF RefreshTree, Replace, Nodes
      <4>3. QED
        BY <3>1, <3>2, <4>2, <2>1 DEF SeenTo
    <3>4. CASE Unlink(p) \/ CreateTree(p)
      <4>1. post[p].pc \in {"unlink", "create", "record"}
        BY <3>4 DEF Unlink, CreateTree
      <4>2. SeenTo(p)
        BY DEF LifeInv
      <4>3. QED
        BY <2>1, <3>1, <3>2, <4>1, <4>2 DEF SeenTo
    <3>5. QED
      BY <1>3, <3>3, <3>4 DEF TreeStep
  <2>4. ASSUME NEW b \in Agents PROVE Lives(b)'
    <3>1. /\ \A x \in tree[b].records : x.at \in Nat /\ x.at <= now /\ x.until \in Nat
          /\ now \in Nat /\ TTL \in Nat
          /\ tree'[b].kind # "dir" => tree'[b].records = {}
      BY TimesAssumption, TypesKept DEF TypeInv, TypeOK, InTime, Records
    <3>2. Lives(b)
      BY DEF LifeInv
    <3>3. QED
      BY <2>1, <3>1, <3>2 DEF Lives
  <2>5. QED
    BY <2>2, <2>3, <2>4 DEF LifeInv
<1>4. ASSUME NEW p \in Posters, StoreRecord(p) PROVE LifeInv'
  <2>0. PICK a \in Agents : a = post[p].name
    BY <1>4, StoreEffect
  <2>1. /\ UNCHANGED now
        /\ post[p].pc = "record" /\ post'[p] = IdlePost
        /\ \A q \in Posters \ {p} : post'[q] = post[q]
        /\ post[p].at \in 1..now
        /\ \/ tree' = tree
           \/ /\ \A b \in Agents \ {a} : tree'[b] = tree[b]
              /\ tree'[a] = Recorded(p)
    BY <1>4, <2>0, StoreEffect
  <2>2. CASE tree' = tree
    <3>1. \A q \in Posters : SeenTo(q)'
      BY <2>1, <2>2, SeenToKept DEF SeenTo, IdlePost
    <3>2. QED
      BY <2>2, <3>1 DEF LifeInv, Lives
  <2>3. CASE /\ \A b \in Agents \ {a} : tree'[b] = tree[b]
             /\ tree'[a] = Recorded(p)
    <3>1. /\ NewRecord(p).at = post[p].at /\ NewRecord(p).until = now + TTL
          /\ Recorded(p).until = tree[a].until
          /\ Recorded(p).records = tree[a].records \cup {NewRecord(p)}
          /\ Recorded(p).kind = "dir"
      BY <2>0, <2>1, RecordedNode
    <3>2. /\ now \in Nat /\ TTL \in Nat /\ tree[a].until \in Nat
          /\ tree[a].kind \in NodeKinds
          /\ tree[a].kind # "dir" => tree[a].until = 0
      BY <2>1, TimesAssumption DEF TypeInv, TypeOK
    <3>3. Lives(a)'
      <4>1. SeenTo(p) /\ Lives(a)
        BY <2>1 DEF LifeInv
      <4>2. tree[a].until # 0 => post[p].at + TTL <= tree[a].until
        BY <2>0, <2>1, <3>2, <4>1 DEF SeenTo
      <4>3. QED
        <5>1. /\ tree'[a].until = tree[a].until
              /\ tree'[a].records = tree[a].records \cup {NewRecord(p)}
          BY <2>3, <3>1
        <5>2. ASSUME NEW x \in tree'[a].records
              PROVE  /\ x.at + TTL <= x.until
                     /\ tree'[a].until # 0 => x.at + TTL <= tree'[a].until
          <6>1. CASE x \in tree[a].records
            BY <4>1, <5>1, <6>1 DEF Lives
          <6>2. CASE x = NewRecord(p)
            <7>1. x.at = post[p].at /\ x.until = now + TTL /\ post[p].at \in 1..now
              BY <2>1, <3>1, <6>2
            <7>2. QED
              BY <3>2, <4>2, <5>1, <7>1
          <6>3. QED
            BY <5>1, <5>2, <6>1, <6>2
        <5>3. QED
          BY <5>2 DEF Lives
    <3>4. ASSUME NEW b \in Agents PROVE Lives(b)'
      <4>1. CASE b = a
        BY <3>3, <4>1
      <4>2. CASE b # a
        BY <2>3, <4>2 DEF LifeInv, Lives
      <4>3. QED
        BY <4>1, <4>2
    <3>5. ASSUME NEW q \in Posters PROVE SeenTo(q)'
      <4>1. CASE q = p
        BY <2>1, <4>1 DEF SeenTo, IdlePost
      <4>2. CASE q # p
        <5>1. post'[q] = post[q] /\ SeenTo(q)
          BY <2>1, <4>2 DEF LifeInv
        <5>2. CASE post[q].name = a
          BY <2>3, <3>1, <3>2, <5>1, <5>2 DEF SeenTo
        <5>3. CASE post[q].name # a /\ post[q].pc # "idle"
          <6>1. tree'[post[q].name] = tree[post[q].name]
            BY <2>3, <5>3, WorkingNode
          <6>2. QED
            BY <5>1, <6>1 DEF SeenTo
        <5>4. CASE post[q].pc = "idle"
          BY <5>1, <5>4 DEF SeenTo
        <5>5. QED
          BY <5>2, <5>3, <5>4
      <4>3. QED
        BY <4>1, <4>2
    <3>6. QED
      BY <3>4, <3>5 DEF LifeInv
  <2>4. QED
    BY <2>1, <2>2, <2>3
<1>5. CASE /\ ~ \E a \in Agents : ExpireDirectory(a) \/ ExpireRecord(a)
           /\ ~ \E p \in Posters : TreeStep(p) \/ StoreRecord(p)
  <2>1. UNCHANGED tree
    BY <1>5, OtherEffect
  <2>2. ASSUME NEW q \in Posters PROVE SeenTo(q)'
    <3>1. \/ post'[q] = post[q]
          \/ post'[q].pc \in {"idle", "get", "refresh"}
          \/ GetTree(q) /\ tree[post[q].name].kind # "dir" /\ post'[q].name = post[q].name
      BY <1>5, OtherLocals
    <3>2. SeenTo(q)
      BY DEF LifeInv
    <3>3. QED
      BY <2>1, <3>1, <3>2 DEF SeenTo
  <2>3. QED
    BY <2>1, <2>2 DEF LifeInv, Lives
<1>6. QED
  BY <1>1, <1>2, <1>3, <1>4, <1>5

LEMMA LifeInitially == ASSUME Init PROVE LifeInv
<1>1. \A a \in Agents : tree[a].records = {}
  BY DEF Init, File, NoNode
<1>2. \A p \in Posters : post[p].pc = "idle"
  BY DEF Init, IdlePost
<1>3. QED
  BY <1>1, <1>2 DEF LifeInv, Lives, SeenTo

-------------------------------------------------------------------------------
(* The storage implements the forgetful store.                                *)

Held == [a \in Agents |-> {x.at : x \in tree[a].records}]

LEMMA SameHeld ==
    ASSUME \A b \in Agents : tree'[b].records = tree[b].records
    PROVE  Held' = Held
  BY DEF Held

\* Where the records of one agent change, so do the stamps held of it only.
LEMMA HeldOfOne ==
    ASSUME NEW a \in Agents, \A b \in Agents \ {a} : tree'[b].records = tree[b].records
    PROVE  Held' = [Held EXCEPT ![a] = {x.at : x \in tree'[a].records}]
<1> DEFINE H == [Held EXCEPT ![a] = {x.at : x \in tree'[a].records}]
<1>1. ASSUME NEW b \in Agents PROVE Held'[b] = H[b]
  <2>1. CASE b = a
    BY <2>1 DEF Held
  <2>2. CASE b # a
    BY <2>2 DEF Held
  <2>3. QED
    BY <2>1, <2>2
<1>2. /\ Held' = [b \in Agents |-> Held'[b]]
      /\ H = [b \in Agents |-> H[b]]
  BY DEF Held
<1>3. QED
  BY <1>1, <1>2

LEMMA LosesDirectory ==
    ASSUME TypeInv, LifeInv, NEW a \in Agents, ExpireDirectory(a)
    PROVE  FS!Lose(a, Held[a])
<1>1. /\ \A b \in Agents \ {a} : tree'[b] = tree[b]
      /\ Due(tree[a].until)
      /\ tree'[a].records = {}
      /\ UNCHANGED now
  BY ExpireDirectoryEffect
<1>2. \A stamp \in Held[a] : stamp + TTL <= now
  <2>1. SUFFICES ASSUME NEW x \in tree[a].records PROVE x.at + TTL <= now
    BY DEF Held
  <2>2. x.at \in Nat /\ TTL \in Nat /\ now \in Nat /\ tree[a].until \in Nat
    BY TimesAssumption DEF TypeInv, TypeOK, Records
  <2>3. QED
    BY <1>1, <2>2 DEF LifeInv, Lives, Due
<1>3. Held' = [Held EXCEPT ![a] = {}]
  BY <1>1, HeldOfOne
<1>4. Held' = [Held EXCEPT ![a] = @ \ Held[a]]
  BY <1>3 DEF Held
<1>5. QED
  BY <1>1, <1>2, <1>4 DEF FS!Lose, Held

LEMMA LosesRecord ==
    ASSUME TypeInv, LifeInv, NEW a \in Agents, ExpireRecord(a)
    PROVE  \E lost \in SUBSET Held[a] : FS!Lose(a, lost)
<1>1. PICK x \in tree[a].records :
         Due(x.until) /\ tree'[a].records = tree[a].records \ {x}
  BY ExpireRecordEffect
<1>2. (\A b \in Agents \ {a} : tree'[b] = tree[b]) /\ UNCHANGED now
  BY ExpireRecordEffect
<1> DEFINE left == {y.at : y \in tree'[a].records}
           gone == Held[a] \ left
<1>3. gone \subseteq {x.at} /\ left \subseteq Held[a]
  BY <1>1 DEF Held
<1>4. x.at + TTL <= now
  <2>1. x.at \in Nat /\ x.until \in Nat /\ TTL \in Nat /\ now \in Nat
    BY <1>1, TimesAssumption DEF TypeInv, TypeOK, Records
  <2>2. QED
    BY <1>1, <2>1 DEF LifeInv, Lives, Due
<1>5. Held' = [Held EXCEPT ![a] = left]
  BY <1>2, HeldOfOne
<1>6. left = Held[a] \ gone
  BY <1>3
<1>7. Held' = [Held EXCEPT ![a] = @ \ gone]
  <2> HIDE DEF left, gone
  <2>1. QED
    BY <1>5, <1>6
<1>8. gone \in SUBSET Held[a]
  OBVIOUS
<1>9. \A stamp \in gone : stamp + TTL <= now
  BY <1>3, <1>4
<1>10. PICK lost \in SUBSET Held[a] : lost = gone
  <2> HIDE DEF left, gone
  <2>1. QED
    BY <1>8
<1>11. FS!Lose(a, lost)
  <2> HIDE DEF left, gone
  <2>1. QED
    BY <1>2, <1>7, <1>9, <1>10 DEF FS!Lose, Held
<1>12. QED
  BY <1>11

LEMMA StoresReport ==
    ASSUME TypeInv, NEW p \in Posters, StoreRecord(p), tree' # tree
    PROVE  \E k \in Agents : \E stamp \in 1..now : FS!Store(k, stamp)
<1>1. PICK a \in Agents : a = post[p].name
  BY StoreEffect
<1>2. /\ UNCHANGED now /\ post[p].at \in 1..now
      /\ \A b \in Agents \ {a} : tree'[b] = tree[b]
      /\ tree'[a] = Recorded(p)
      /\ post[p].pc # "idle"
  BY <1>1, StoreEffect
<1>3. tree'[a].records = tree[a].records \cup {NewRecord(p)}
        /\ NewRecord(p).at = post[p].at
  BY <1>1, <1>2, RecordedNode
<1>4. {x.at : x \in tree'[a].records} = Held[a] \cup {post[p].at}
  BY <1>3 DEF Held
<1>5. Held' = [Held EXCEPT ![a] = @ \cup {post[p].at}]
  BY <1>2, <1>4, HeldOfOne
<1>6. PICK stamp \in 1..now : stamp = post[p].at
  BY <1>2
<1>7. FS!Store(a, stamp)
  BY <1>2, <1>5, <1>6 DEF FS!Store, Held
<1>8. QED
  BY <1>7

LEMMA Forgets ==
    ASSUME TypeInv, LifeInv, [Next]_vars
    PROVE  [FS!Next]_<<now, Held>>
<1>1. ASSUME NEW a \in Agents, ExpireDirectory(a) PROVE FS!Next
  <2>1. PICK lost \in SUBSET Held[a] : lost = Held[a]
    OBVIOUS
  <2>2. FS!Lose(a, lost)
    BY <1>1, <2>1, LosesDirectory DEF FS!Lose, Held
  <2>3. QED
    BY <2>2 DEF FS!Next, Held
<1>2. ASSUME NEW a \in Agents, ExpireRecord(a) PROVE FS!Next
  BY <1>2, LosesRecord DEF FS!Next, Held
<1>3. ASSUME NEW p \in Posters, TreeStep(p) PROVE UNCHANGED <<now, Held>>
  BY <1>3, DirectoryEffect, SameHeld
<1>4. ASSUME NEW p \in Posters, StoreRecord(p) PROVE [FS!Next]_<<now, Held>>
  <2>1. CASE tree' = tree
    BY <1>4, <2>1, StoreEffect, SameHeld
  <2>2. CASE tree' # tree
    BY <1>4, <2>2, StoresReport DEF FS!Next
  <2>3. QED
    BY <2>1, <2>2
<1>5. CASE /\ ~ \E a \in Agents : ExpireDirectory(a) \/ ExpireRecord(a)
           /\ ~ \E p \in Posters : TreeStep(p) \/ StoreRecord(p)
  <2>1. Held' = Held
    BY <1>5, OtherEffect, SameHeld
  <2>2. CASE Tick
    BY <2>1, <2>2 DEF Tick, FS!Tick, FS!Next, Held
  <2>3. ASSUME ~ Tick PROVE UNCHANGED now
    BY <1>5, <2>3, OtherClock
  <2>4. QED
    BY <2>1, <2>2, <2>3
<1>6. QED
  BY <1>1, <1>2, <1>3, <1>4, <1>5

\* The directories and records that handlers create, refresh and fill under each
\* other's hands forget no report before its time to live is over, as long as
\* the refresh of a directory does not fail.
THEOREM StorageImplementsForgetfulStore ==
    ASSUME "refresh" \notin Failing PROVE Spec => ImplementsForgetfulStore
<1>1. Init => TypeInv /\ LifeInv
  BY TypesInitially, LifeInitially
<1>2. TypeInv /\ LifeInv /\ [Next]_vars => TypeInv' /\ LifeInv'
  BY TypesKept, LifeKept
<1>3. Init => FS!Init
  <2>1. Init => \A a \in Agents : tree[a].records = {}
    BY DEF Init, File, NoNode
  <2>2. QED
    BY <2>1 DEF Init, FS!Init
<1>4. TypeInv /\ LifeInv /\ [Next]_vars => [FS!Next]_FS!vars
  BY Forgets DEF FS!vars, Held
<1>5. QED
  BY <1>1, <1>2, <1>3, <1>4, PTL DEF Spec, ImplementsForgetfulStore, FS!Spec

-------------------------------------------------------------------------------
(* What the records and the readers' locals say of the reports.               *)

\* No record is overdue, and none is from after the last one that was put.
Recent(a) == /\ known[a].put <= now
             /\ known[a].stored <= known[a].put
             /\ \A x \in tree[a].records :
                   /\ now <= x.until
                   /\ x.uptime # 0 => /\ known[a].put # 0
                                      /\ x.until <= known[a].put + TTL

\* Whom a check calls absent follows from what it has seen, and whom it has seen
\* has reported.
Honest(r) == /\ asked[r].at <= now
             /\ get[r].pc # "done" => get[r].pods = {}
             /\ get[r].absent = {a \in get[r].pods : get[r].seen[a] = 0}
             /\ get[r].pc \in {"pods", "done"} =>
                   \A a \in Agents : get[r].seen[a] # 0 =>
                      /\ known[a].put # 0
                      /\ asked[r].at <= known[a].put + TTL

HonestInv == /\ \A a \in Agents : Recent(a)
             /\ \A r \in Readers : Honest(r)

\* The latest report that is known to be stored is there for its time to live.
Stamped(a) == /\ known[a].stored # 0 => known[a].uptime # 0
              /\ known[a].stored # 0 /\ now < known[a].stored + TTL
                 => \E x \in tree[a].records : /\ x.at = known[a].stored
                                               /\ x.uptime = known[a].uptime

\* What a reader that has yet to fetch the tree asks for is there as long.
Awaited(r) ==
    \A a \in Agents : asked[r].stored[a] # 0 =>
        /\ asked[r].uptime[a] # 0
        /\ get[r].pc = "fetch" /\ now < asked[r].stored[a] + TTL
              => \E x \in tree[a].records : /\ x.at = asked[r].stored[a]
                                            /\ x.uptime = asked[r].uptime[a]

LatestInv == /\ \A a \in Agents : Stamped(a)
             /\ \A r \in Readers : Awaited(r)
             /\ DumpNotBehind

-------------------------------------------------------------------------------
(* Steps.                                                                     *)

\* What the history learns of one agent.
LEMMA LearnEffect ==
    ASSUME TypeInv, NEW p \in Posters, NEW a \in Agents, a = post[p].name,
           post[p].pc # "idle", NEW isStored \in BOOLEAN, Learn(p, isStored)
    PROVE  /\ \A b \in Agents \ {a} : known'[b] = known[b]
           /\ post[p].uptime = 0 \/ ~ isStored =>
                 /\ known'[a].stored = known[a].stored
                 /\ known'[a].uptime = known[a].uptime
                 /\ known'[a].put = known[a].put
           /\ post[p].uptime # 0 /\ isStored =>
                 /\ known'[a].stored = Later(known[a].stored, post[p].at)
                 /\ known'[a].put = now
                 /\ \/ /\ known'[a].stored = post[p].at
                       /\ known'[a].uptime = post[p].uptime
                    \/ /\ known'[a].stored = known[a].stored
                       /\ known'[a].uptime = known[a].uptime
<1> DEFINE k == known[a]
           latest == isStored /\ IsLatest(p)
           l == [stored |-> IF latest THEN post[p].at ELSE k.stored,
                 uptime |-> IF latest THEN post[p].uptime ELSE k.uptime,
                 put |-> IF isStored THEN now ELSE k.put,
                 answered |-> Later(k.answered, post[p].at)]
<1>1. /\ known \in [Agents -> Knowledge] /\ k.stored \in Nat /\ k.uptime \in Nat
      /\ post[p].at \in Nat /\ post[p].uptime \in Nat
  BY DEF TypeInv, TypeOK, Knowledge, Posts
<1>2. IF post[p].uptime = 0 THEN known' = known ELSE known' = [known EXCEPT ![a] = l]
  BY DEF Learn
<1>3. CASE post[p].uptime = 0
  BY <1>2, <1>3
<1>4. CASE post[p].uptime # 0
  <2>1. known'[a] = l /\ \A b \in Agents \ {a} : known'[b] = known[b]
    BY <1>1, <1>2, <1>4
  <2>2. /\ l.stored = IF latest THEN post[p].at ELSE k.stored
        /\ l.uptime = IF latest THEN post[p].uptime ELSE k.uptime
        /\ l.put = IF isStored THEN now ELSE k.put
    OBVIOUS
  <2>3. /\ IsLatest(p) => k.stored <= post[p].at
        /\ ~ IsLatest(p) => post[p].at <= k.stored
    BY <1>1 DEF IsLatest
  <2>4. isStored => l.stored = Later(k.stored, post[p].at)
    <3> HIDE DEF l, k
    <3>1. QED
      BY <1>1, <2>2, <2>3 DEF Later
  <2> HIDE DEF l
  <2>5. QED
    BY <1>4, <2>1, <2>2, <2>4
<1>5. QED
  BY <1>3, <1>4

\* Only the readers' steps and the end of the process change the readers.
LEMMA OtherReaders ==
    ASSUME [Next]_vars, ~ Exit, ~ \E r \in Readers : Ask(r) \/ Answer(r)
    PROVE  UNCHANGED <<get, asked>>
<1>1. CASE World
  BY <1>1 DEF World, Tick, Expire, ExpireDirectory, ExpireRecord, PodStop
<1>2. ASSUME NEW p \in Posters, NEW a \in Agents, NEW u \in Uptimes,
         ReceiveReport(p, a, u)
      PROVE  UNCHANGED <<get, asked>>
  BY <1>2 DEF ReceiveReport
<1>3. ASSUME NEW p \in Posters, Serve(p) PROVE UNCHANGED <<get, asked>>
  BY <1>3 DEF Serve, GetTree, Unlink, CreateTree, RefreshTree, StoreRecord
<1>4. CASE Start
  BY <1>4 DEF Start
<1>5. QED
  BY <1>1, <1>2, <1>3, <1>4 DEF Next, Crash, vars

\* Only the last step of a POST changes what is known.
LEMMA OtherKnown ==
    ASSUME [Next]_vars, ~ \E p \in Posters : StoreRecord(p)
    PROVE  UNCHANGED known
<1>1. CASE World
  BY <1>1 DEF World, Tick, Expire, ExpireDirectory, ExpireRecord, PodStop
<1>2. ASSUME NEW p \in Posters, NEW a \in Agents, NEW u \in Uptimes,
         ReceiveReport(p, a, u)
      PROVE  UNCHANGED known
  BY <1>2 DEF ReceiveReport
<1>3. ASSUME NEW p \in Posters, Serve(p) PROVE UNCHANGED known
  BY <1>3 DEF Serve, GetTree, Exit, Unlink, CreateTree, RefreshTree
<1>4. ASSUME NEW r \in Readers, Ask(r) \/ Answer(r) PROVE UNCHANGED known
  BY <1>4 DEF Ask, Request, Answer, Fetch, Check, Close
<1>5. CASE Start \/ Crash
  BY <1>5 DEF Start, Crash, Exit
<1>6. QED
  BY <1>1, <1>2, <1>3, <1>4, <1>5 DEF Next, vars

\* What a step of a GET handler does to its locals and to the question.
LEMMA ReaderEffect ==
    ASSUME TypeInv, NEW r \in Readers, Ask(r) \/ Answer(r)
    PROVE  /\ UNCHANGED <<now, pods, tree, post, known>>
           /\ \A q \in Readers \ {r} : get'[q] = get[q] /\ asked'[q] = asked[q]
           /\ \/ /\ get[r].pc = "idle" /\ get'[r].pc = "fetch"
                 /\ get'[r].pods = get[r].pods /\ get'[r].seen = get[r].seen
                 /\ get'[r].absent = get[r].absent
                 /\ asked'[r].at = now
                 /\ \A a \in Agents : /\ asked'[r].stored[a] = known[a].stored
                                      /\ asked'[r].uptime[a] = known[a].uptime
              \/ /\ get[r].pc = "fetch" /\ get'[r].pc \in {"pods", "done"}
                 /\ \/ get'[r].seen = [a \in Agents |-> Latest(a)]
                    \/ "fetch" \in Failing /\ get'[r].seen = NothingSeen
                 /\ get'[r].pods = get[r].pods /\ get'[r].absent = get[r].absent
                 /\ asked'[r] = asked[r]
              \/ /\ get[r].pc = "pods" /\ get'[r].pc = "done"
                 /\ get'[r].seen = get[r].seen
                 /\ \/ /\ get'[r].pods = pods
                       /\ get'[r].absent = {a \in pods : get[r].seen[a] = 0}
                    \/ /\ get'[r].pods = get[r].pods
                       /\ get'[r].absent = get[r].absent
                 /\ asked'[r] = asked[r]
              \/ get'[r] = IdleGet /\ asked'[r] = NothingAsked
<1>0. get \in [Readers -> Gets] /\ asked \in [Readers -> Questions]
  BY DEF TypeInv, TypeOK
<1>1. UNCHANGED <<now, pods, tree, post, known>>
  BY DEF Ask, Request, Answer, Fetch, Check, Close
<1>2. ASSUME NEW g, get' = [get EXCEPT ![r] = g]
      PROVE  get'[r] = g /\ \A q \in Readers \ {r} : get'[q] = get[q]
  BY <1>0, <1>2
<1>3. ASSUME NEW k \in RequestKinds, Request(r, k)
      PROVE  /\ get[r].pc = "idle" /\ get'[r].pc = "fetch"
             /\ get'[r].pods = get[r].pods /\ get'[r].seen = get[r].seen
             /\ get'[r].absent = get[r].absent
             /\ asked'[r].at = now
             /\ \A a \in Agents : /\ asked'[r].stored[a] = known[a].stored
                                  /\ asked'[r].uptime[a] = known[a].uptime
             /\ \A q \in Readers \ {r} : get'[q] = get[q] /\ asked'[q] = asked[q]
  <2>1. PICK g \in Gets : /\ get' = [get EXCEPT ![r] = g]
                          /\ g.pc = "fetch" /\ g.seen = get[r].seen
                          /\ g.pods = get[r].pods /\ g.absent = get[r].absent
    BY <1>3, RequestStep
  <2> DEFINE stored == [b \in Agents |-> known[b].stored]
             uptime == [b \in Agents |-> known[b].uptime]
             n == [at |-> now, stored |-> stored, uptime |-> uptime,
                   answered |-> [b \in Agents |-> known[b].answered]]
  <2>2. asked'[r] = n /\ \A q \in Readers \ {r} : asked'[q] = asked[q]
    BY <1>0, <1>3 DEF Request
  <2>3. n.at = now /\ n.stored = stored /\ n.uptime = uptime
    OBVIOUS
  <2>4. get[r].pc = "idle"
    BY <1>3 DEF Request
  <2> HIDE DEF n
  <2>5. QED
    BY <1>2, <2>1, <2>2, <2>3, <2>4
<1>4. ASSUME Fetch(r)
      PROVE  /\ get[r].pc = "fetch" /\ get'[r].pc \in {"pods", "done"}
             /\ \/ get'[r].seen = [a \in Agents |-> Latest(a)]
                \/ "fetch" \in Failing /\ get'[r].seen = NothingSeen
             /\ get'[r].pods = get[r].pods /\ get'[r].absent = get[r].absent
             /\ asked' = asked
             /\ \A q \in Readers \ {r} : get'[q] = get[q]
  <2>1. PICK seen \in [Agents -> Nat] :
           /\ See(r, seen)
           /\ \/ seen = [a \in Agents |-> Latest(a)]
              \/ "fetch" \in Failing /\ seen = NothingSeen
    BY <1>4, LatestTypes, IdleTypes DEF Fetch
  <2>2. PICK g \in Gets : /\ get' = [get EXCEPT ![r] = g]
                          /\ g.seen = seen /\ g.pods = get[r].pods
                          /\ g.absent = get[r].absent
                          /\ g.pc \in {"pods", "done"}
    BY <2>1, SeeStep
  <2>3. get[r].pc = "fetch" /\ asked' = asked
    BY <1>4 DEF Fetch
  <2>4. QED
    BY <1>2, <2>1, <2>2, <2>3
<1>5. ASSUME Check(r)
      PROVE  /\ get[r].pc = "pods" /\ get'[r].pc = "done"
             /\ get'[r].seen = get[r].seen
             /\ \/ /\ get'[r].pods = pods
                   /\ get'[r].absent = {a \in pods : get[r].seen[a] = 0}
                \/ /\ get'[r].pods = get[r].pods
                   /\ get'[r].absent = get[r].absent
             /\ asked' = asked
             /\ \A q \in Readers \ {r} : get'[q] = get[q]
  <2>1. PICK g \in Gets : /\ get' = [get EXCEPT ![r] = g]
                          /\ g.pc = "done" /\ g.seen = get[r].seen
                          /\ \/ /\ g.pods = pods
                                /\ g.absent = {a \in pods : get[r].seen[a] = 0}
                             \/ /\ g.pods = get[r].pods
                                /\ g.absent = get[r].absent
    BY <1>5, CheckStep
  <2>2. get[r].pc = "pods" /\ asked' = asked
    BY <1>5 DEF Check
  <2>3. QED
    BY <1>2, <2>1, <2>2
<1>6. ASSUME Close(r)
      PROVE  /\ get'[r] = IdleGet /\ asked'[r] = NothingAsked
             /\ \A q \in Readers \ {r} : get'[q] = get[q] /\ asked'[q] = asked[q]
  BY <1>0, <1>6 DEF Close
<1>7. QED
  BY <1>1, <1>3, <1>4, <1>5, <1>6 DEF Ask, Answer

-------------------------------------------------------------------------------
(* Whom a check does not list has reported, whatever fails.                   *)

\* What TypeInv says of the numbers of an agent.
LEMMA AgentNumbers ==
    ASSUME TypeInv, NEW a \in Agents
    PROVE  /\ now \in Nat /\ now > 0 /\ TTL \in Nat /\ TTL > 0
           /\ known[a].stored \in Nat /\ known[a].uptime \in Nat
           /\ known[a].put \in Nat /\ tree[a].until \in Nat
           /\ \A x \in tree[a].records : /\ x \in Records
                                         /\ x.at \in Nat /\ x.until \in Nat
                                         /\ x.uptime \in Nat
                                         /\ x.uptime \in Uptimes /\ x.at <= now
  BY TimesAssumption DEF TypeInv, TypeOK, InTime, Records, Knowledge

LEMMA ReaderNumbers ==
    ASSUME TypeInv, NEW r \in Readers
    PROVE  /\ asked[r].at \in Nat /\ asked[r].stored \in [Agents -> Nat]
           /\ asked[r].uptime \in [Agents -> Nat]
           /\ get[r].seen \in [Agents -> Nat]
           /\ get[r].pods \subseteq Agents
  BY DEF TypeInv, TypeOK, Questions, Gets

\* Without a new record, and as long as time stands still, nothing is overdue.
LEMMA RecentSame ==
    ASSUME NEW a \in Agents, Recent(a), UNCHANGED <<now, known>>,
           tree'[a].records \subseteq tree[a].records
    PROVE  Recent(a)'
  BY DEF Recent

LEMMA RecentKept ==
    ASSUME TypeInv, HonestInv, [Next]_vars, NEW a \in Agents
    PROVE  Recent(a)'
<1>0. Recent(a)
  BY DEF HonestInv
<1>1. CASE Tick
  <2>1. /\ now' = now + 1 /\ UNCHANGED <<tree, known>>
        /\ \A x \in tree[a].records : ~ Due(x.until)
    BY <1>1 DEF Tick
  <2>2. QED
    BY <1>0, <2>1, AgentNumbers DEF Recent, Due
<1>2. ASSUME NEW b \in Agents, ExpireDirectory(b) \/ ExpireRecord(b) PROVE Recent(a)'
  BY <1>0, <1>2, ExpireDirectoryEffect, ExpireRecordEffect, RecentSame
<1>3. ASSUME NEW p \in Posters, TreeStep(p) PROVE Recent(a)'
  BY <1>0, <1>3, DirectoryEffect, RecentSame
<1>4. ASSUME NEW p \in Posters, StoreRecord(p) PROVE Recent(a)'
  <2>1. PICK c \in Agents : c = post[p].name
    BY <1>4, StoreEffect
  <2>2. /\ UNCHANGED now
        /\ post[p].pc # "idle" /\ post[p].at \in 1..now
    BY <1>4, StoreEffect
  <2>3. CASE tree' = tree /\ Learn(p, FALSE)
    BY <1>0, <2>1, <2>2, <2>3, LearnEffect DEF Recent
  <2>4. CASE /\ Learn(p, TRUE)
             /\ \A b \in Agents \ {c} : tree'[b] = tree[b]
             /\ tree'[c] = Recorded(p)
    <3>1. CASE a # c
      <4>1. known'[a] = known[a] /\ tree'[a] = tree[a]
        BY <2>1, <2>2, <2>4, <3>1, LearnEffect
      <4>2. QED
        BY <1>0, <2>2, <4>1 DEF Recent
    <3>2. CASE a = c
      <4>1. /\ NewRecord(p).uptime = post[p].uptime
            /\ NewRecord(p).until = now + TTL
            /\ tree'[a].records = tree[a].records \cup {NewRecord(p)}
        BY <2>1, <2>2, <2>4, <3>2, RecordedNode
      <4>2. CASE post[p].uptime = 0
        <5>1. known'[a].stored = known[a].stored /\ known'[a].put = known[a].put
          BY <2>1, <2>2, <2>4, <3>2, <4>2, LearnEffect
        <5>2. QED
          BY <1>0, <2>2, <4>1, <4>2, <5>1, AgentNumbers DEF Recent
      <4>3. CASE post[p].uptime # 0
        <5>1. /\ known'[a].stored = Later(known[a].stored, post[p].at)
              /\ known'[a].put = now
          BY <2>1, <2>2, <2>4, <3>2, <4>3, LearnEffect
        <5>2. known'[a].stored <= now /\ known[a].put <= now
          BY <1>0, <2>2, <5>1, AgentNumbers DEF Recent, Later
        <5>3. ASSUME NEW x \in tree'[a].records
              PROVE  now <= x.until /\ (x.uptime # 0 => x.until <= now + TTL)
          <6>1. CASE x \in tree[a].records
            BY <1>0, <5>2, <6>1, AgentNumbers DEF Recent
          <6>2. CASE x = NewRecord(p)
            BY <4>1, <6>2, AgentNumbers
          <6>3. QED
            BY <4>1, <5>3, <6>1, <6>2
        <5>4. QED
          BY <2>2, <5>1, <5>2, <5>3, AgentNumbers DEF Recent
      <4>4. QED
        BY <4>2, <4>3
    <3>3. QED
      BY <3>1, <3>2
  <2>5. QED
    BY <1>4, <2>1, <2>3, <2>4, StoreEffect
<1>5. CASE /\ ~ Tick
           /\ ~ \E b \in Agents : ExpireDirectory(b) \/ ExpireRecord(b)
           /\ ~ \E p \in Posters : TreeStep(p) \/ StoreRecord(p)
  BY <1>0, <1>5, OtherEffect, OtherClock, OtherKnown, RecentSame
<1>6. QED
  BY <1>1, <1>2, <1>3, <1>4, <1>5

\* What is known of the reports grows, and so does the time.
LEMMA KnownGrows ==
    ASSUME TypeInv, HonestInv, [Next]_vars, NEW a \in Agents
    PROVE  /\ now <= now' /\ now' \in Nat
           /\ known[a].put <= known'[a].put /\ known'[a].put \in Nat
           /\ known[a].stored <= known'[a].stored /\ known'[a].stored \in Nat
<1>1. TypeInv'
  BY TypesKept
<1>2. now' \in Nat /\ known'[a].put \in Nat /\ known'[a].stored \in Nat
  BY <1>1 DEF TypeInv, TypeOK, Knowledge
<1>3. now <= now'
  <2>1. CASE Tick
    BY <2>1, AgentNumbers DEF Tick
  <2>2. CASE ~ Tick
    BY <2>2, OtherClock, AgentNumbers
  <2>3. QED
    BY <2>1, <2>2
<1>4. ASSUME NEW p \in Posters, StoreRecord(p)
      PROVE  known[a].put <= known'[a].put /\ known[a].stored <= known'[a].stored
  <2>1. PICK c \in Agents : c = post[p].name
    BY <1>4, StoreEffect
  <2>2. PICK isStored \in BOOLEAN : Learn(p, isStored)
    BY <1>4, StoreEffect
  <2>3. post[p].pc # "idle" /\ post[p].at \in 1..now
    BY <1>4, StoreEffect
  <2>4. Recent(a)
    BY DEF HonestInv
  <2>5. CASE a # c
    BY <2>1, <2>2, <2>3, <2>5, LearnEffect, AgentNumbers
  <2>6. CASE a = c
    BY <2>1, <2>2, <2>3, <2>4, <2>6, LearnEffect, AgentNumbers DEF Recent, Later
  <2>7. QED
    BY <2>5, <2>6
<1>5. CASE ~ \E p \in Posters : StoreRecord(p)
  <2>1. known'[a] = known[a]
    BY <1>5, OtherKnown
  <2>2. known[a].put \in Nat /\ known[a].stored \in Nat
    BY AgentNumbers
  <2>3. QED
    BY <1>2, <1>3, <2>1, <2>2
<1>6. QED
  BY <1>2, <1>3, <1>4, <1>5

LEMMA HonestKept ==
    ASSUME TypeInv, HonestInv, [Next]_vars, NEW r \in Readers
    PROVE  Honest(r)'
<1>0. Honest(r) /\ \A a \in Agents : Recent(a)
  BY DEF HonestInv
<1>1. now <= now' /\ now \in Nat /\ now' \in Nat /\ TTL \in Nat
  <2>1. now' \in Nat
    BY TypesKept DEF TypeInv, TypeOK
  <2>2. CASE Tick
    BY <2>1, <2>2, TimesAssumption DEF TypeInv, TypeOK, Tick
  <2>3. CASE ~ Tick
    BY <2>1, <2>3, OtherClock, TimesAssumption DEF TypeInv, TypeOK
  <2>4. QED
    BY <2>2, <2>3
<1>2. CASE get'[r] = get[r] /\ asked'[r] = asked[r]
  <2>1. asked'[r].at <= now'
    BY <1>0, <1>1, <1>2, ReaderNumbers DEF Honest
  <2>2. ASSUME NEW a \in Agents, get'[r].pc \in {"pods", "done"}, get'[r].seen[a] # 0
        PROVE  known'[a].put # 0 /\ asked'[r].at <= known'[a].put + TTL
    BY <1>0, <1>1, <1>2, <2>2, KnownGrows, AgentNumbers, ReaderNumbers DEF Honest
  <2>3. QED
    BY <1>0, <1>2, <2>1, <2>2 DEF Honest
<1>3. CASE get'[r] = IdleGet /\ asked'[r] = NothingAsked
  BY <1>1, <1>3 DEF Honest, IdleGet, NothingAsked
<1>4. CASE Exit
  BY <1>3, <1>4 DEF Exit
<1>5. ASSUME Ask(r) \/ Answer(r) PROVE Honest(r)'
  <2>1. UNCHANGED <<now, pods, tree, post, known>>
    BY <1>5, ReaderEffect
  <2>2. CASE /\ get[r].pc = "idle" /\ get'[r].pc = "fetch"
             /\ get'[r].pods = get[r].pods /\ get'[r].seen = get[r].seen
             /\ get'[r].absent = get[r].absent
             /\ asked'[r].at = now
    BY <1>0, <1>1, <2>1, <2>2 DEF Honest
  <2>3. CASE /\ get[r].pc = "fetch" /\ get'[r].pc \in {"pods", "done"}
             /\ \/ get'[r].seen = [a \in Agents |-> Latest(a)]
                \/ "fetch" \in Failing /\ get'[r].seen = NothingSeen
             /\ get'[r].pods = get[r].pods /\ get'[r].absent = get[r].absent
             /\ asked'[r] = asked[r]
    <3>1. get[r].pods = {} /\ get[r].absent = {}
      BY <1>0, <2>3 DEF Honest
    <3>2. ASSUME NEW a \in Agents, get'[r].seen[a] # 0
          PROVE  known'[a].put # 0 /\ asked'[r].at <= known'[a].put + TTL
      <4>1. Latest(a) # 0
        BY <2>3, <3>2 DEF NothingSeen
      <4>2. PICK x \in tree[a].records : x.uptime = Latest(a)
        BY <4>1, LatestIsMax, AgentNumbers
      <4>3. /\ now <= x.until /\ known[a].put # 0 /\ x.until <= known[a].put + TTL
            /\ x.until \in Nat
        BY <1>0, <4>1, <4>2, AgentNumbers DEF Recent
      <4>4. asked[r].at <= now /\ asked[r].at \in Nat
        BY <1>0, ReaderNumbers DEF Honest
      <4>5. QED
        BY <2>1, <2>3, <4>3, <4>4, AgentNumbers
    <3>3. QED
      BY <1>0, <2>1, <2>3, <3>1, <3>2 DEF Honest
  <2>4. CASE /\ get[r].pc = "pods" /\ get'[r].pc = "done"
             /\ get'[r].seen = get[r].seen
             /\ \/ /\ get'[r].pods = pods
                   /\ get'[r].absent = {a \in pods : get[r].seen[a] = 0}
                \/ /\ get'[r].pods = get[r].pods
                   /\ get'[r].absent = get[r].absent
             /\ asked'[r] = asked[r]
    <3>1. get'[r].absent = {a \in get'[r].pods : get'[r].seen[a] = 0}
      BY <1>0, <2>4 DEF Honest
    <3>2. QED
      BY <1>0, <2>1, <2>4, <3>1 DEF Honest
  <2>5. QED
    BY <1>3, <1>5, <2>2, <2>3, <2>4, ReaderEffect
<1>6. ASSUME NEW q \in Readers \ {r}, Ask(q) \/ Answer(q) PROVE Honest(r)'
  BY <1>2, <1>6, ReaderEffect
<1>7. CASE ~ Exit /\ ~ \E q \in Readers : Ask(q) \/ Answer(q)
  BY <1>2, <1>7, OtherReaders
<1>8. QED
  BY <1>4, <1>5, <1>6, <1>7

LEMMA HonestInitially == ASSUME Init PROVE HonestInv
<1>1. /\ now = 1
      /\ \A a \in Agents : known[a] = NothingKnown /\ tree[a].records = {}
      /\ \A r \in Readers : get[r] = IdleGet /\ asked[r] = NothingAsked
  BY DEF Init, File, NoNode
<1>2. \A a \in Agents : Recent(a)
  BY <1>1 DEF Recent, NothingKnown
<1>3. \A r \in Readers : Honest(r)
  BY <1>1 DEF Honest, IdleGet, NothingAsked
<1>4. QED
  BY <1>2, <1>3 DEF HonestInv

LEMMA HonestInductive == ASSUME TypeInv, HonestInv, [Next]_vars PROVE HonestInv'
  BY RecentKept, HonestKept DEF HonestInv

\* A pod that a check does not list has reported, not longer before the check
\* than its time to live: whatever fails, expires or ends in between, etcd's
\* clock and the order of the check's requests see to it.
THEOREM UnlistedReported == Spec => []UnlistedHasReported
<1>1. Init => TypeInv /\ HonestInv
  BY TypesInitially, HonestInitially
<1>2. TypeInv /\ HonestInv /\ [Next]_vars => TypeInv' /\ HonestInv'
  BY TypesKept, HonestInductive
<1>3. TypeInv /\ HonestInv => UnlistedHasReported
  <2> SUFFICES ASSUME TypeInv, HonestInv, NEW r \in Readers,
                      NEW a \in get[r].pods \ get[r].absent
               PROVE  known[a].put # 0 /\ asked[r].at <= known[a].put + TTL
    BY DEF UnlistedHasReported
  <2>1. Honest(r) /\ a \in Agents
    BY ReaderNumbers DEF HonestInv
  <2>2. get[r].pc = "done" /\ get[r].seen[a] # 0
    BY <2>1 DEF Honest
  <2>3. QED
    BY <2>1, <2>2 DEF Honest
<1>4. QED
  BY <1>1, <1>2, <1>3, PTL DEF Spec

-------------------------------------------------------------------------------
(* Nobody is called absent whose report is alive.                             *)

\* A record lives for its time to live.
LEMMA RecordKept ==
    ASSUME TypeInv, LifeInv, [Next]_vars, NEW a \in Agents,
           NEW x \in tree[a].records, now < x.at + TTL
    PROVE  x \in tree'[a].records
<1>0. /\ x.at + TTL <= x.until
      /\ tree[a].until # 0 => x.at + TTL <= tree[a].until
      /\ now \in Nat /\ TTL \in Nat /\ x.at \in Nat /\ x.until \in Nat
      /\ tree[a].until \in Nat
  BY AgentNumbers DEF LifeInv, Lives
<1>1. ~ Due(x.until) /\ ~ Due(tree[a].until)
  BY <1>0 DEF Due
<1>2. ASSUME NEW b \in Agents, ExpireDirectory(b) \/ ExpireRecord(b)
      PROVE  x \in tree'[a].records
  <2>1. CASE b # a
    BY <1>2, <2>1, ExpireDirectoryEffect, ExpireRecordEffect
  <2>2. CASE b = a
    BY <1>1, <1>2, <2>2, ExpireDirectoryEffect, ExpireRecordEffect
  <2>3. QED
    BY <2>1, <2>2
<1>3. ASSUME NEW p \in Posters, TreeStep(p) PROVE x \in tree'[a].records
  BY <1>3, DirectoryEffect
<1>4. ASSUME NEW p \in Posters, StoreRecord(p) PROVE x \in tree'[a].records
  <2>1. PICK c \in Agents : c = post[p].name
    BY <1>4, StoreEffect
  <2>2. \/ tree' = tree
        \/ /\ \A b \in Agents \ {c} : tree'[b] = tree[b]
           /\ tree'[c] = Recorded(p)
    BY <1>4, <2>1, StoreEffect
  <2>3. Recorded(p).records = tree[c].records \cup {NewRecord(p)}
    BY <1>4, <2>1, StoreEffect, RecordedNode
  <2>4. QED
    BY <2>2, <2>3
<1>5. CASE /\ ~ \E b \in Agents : ExpireDirectory(b) \/ ExpireRecord(b)
           /\ ~ \E p \in Posters : TreeStep(p) \/ StoreRecord(p)
  BY <1>5, OtherEffect
<1>6. QED
  BY <1>2, <1>3, <1>4, <1>5

\* Where another report becomes the latest, its record is put.
LEMMA LatestStep ==
    ASSUME TypeInv, [Next]_vars, NEW a \in Agents
    PROVE  \/ known'[a].stored = known[a].stored /\ known'[a].uptime = known[a].uptime
           \/ /\ known'[a].uptime # 0
              /\ \E x \in tree'[a].records : /\ x.at = known'[a].stored
                                             /\ x.uptime = known'[a].uptime
<1> DEFINE Same == /\ known'[a].stored = known[a].stored
                   /\ known'[a].uptime = known[a].uptime
           Put == /\ known'[a].uptime # 0
                  /\ \E x \in tree'[a].records : /\ x.at = known'[a].stored
                                                 /\ x.uptime = known'[a].uptime
<1>1. ASSUME NEW p \in Posters, StoreRecord(p) PROVE Same \/ Put
  <2>1. PICK c \in Agents : c = post[p].name
    BY <1>1, StoreEffect
  <2>2. post[p].pc # "idle"
    BY <1>1, StoreEffect
  <2>3. CASE Learn(p, FALSE) \/ a # c \/ post[p].uptime = 0
    <3>1. PICK isStored \in BOOLEAN : /\ Learn(p, isStored)
                                      /\ a = c /\ post[p].uptime # 0 => ~ isStored
      BY <1>1, <2>3, StoreEffect
    <3>2. CASE a = c
      BY <2>1, <2>2, <3>1, <3>2, LearnEffect
    <3>3. CASE a # c
      BY <2>1, <2>2, <3>1, <3>3, LearnEffect
    <3>4. QED
      BY <3>2, <3>3
  <2>4. CASE /\ Learn(p, TRUE) /\ a = c /\ post[p].uptime # 0
             /\ tree'[c] = Recorded(p)
    <3> DEFINE n == NewRecord(p)
    <3>1. /\ n.uptime = post[p].uptime /\ n.at = post[p].at
          /\ tree'[a].records = tree[a].records \cup {n}
      BY <2>1, <2>2, <2>4, RecordedNode
    <3> HIDE DEF n
    <3>2. \/ Same
          \/ known'[a].stored = post[p].at /\ known'[a].uptime = post[p].uptime
      BY <2>1, <2>2, <2>4, LearnEffect
    <3>3. QED
      BY <2>4, <3>1, <3>2
  <2>5. QED
    BY <1>1, <2>1, <2>3, <2>4, StoreEffect
<1>2. CASE ~ \E p \in Posters : StoreRecord(p)
  BY <1>2, OtherKnown
<1>3. QED
  BY <1>1, <1>2

LEMMA StampedKept ==
    ASSUME TypeInv, LifeInv, HonestInv, LatestInv, [Next]_vars, NEW a \in Agents
    PROVE  Stamped(a)'
<1>0. /\ Stamped(a)
      /\ now \in Nat /\ now' \in Nat /\ now <= now' /\ TTL \in Nat
      /\ known[a].stored \in Nat
  BY AgentNumbers, KnownGrows DEF LatestInv
<1>1. CASE /\ known'[a].uptime # 0
           /\ \E x \in tree'[a].records : /\ x.at = known'[a].stored
                                          /\ x.uptime = known'[a].uptime
  BY <1>1 DEF Stamped
<1>2. CASE known'[a].stored = known[a].stored /\ known'[a].uptime = known[a].uptime
  <2>1. ASSUME known[a].stored # 0, now' < known[a].stored + TTL
        PROVE  \E x \in tree'[a].records : /\ x.at = known[a].stored
                                           /\ x.uptime = known[a].uptime
    <3>1. now < known[a].stored + TTL
      BY <1>0, <2>1
    <3>2. PICK x \in tree[a].records : /\ x.at = known[a].stored
                                       /\ x.uptime = known[a].uptime
      BY <1>0, <2>1, <3>1 DEF Stamped
    <3>3. x \in tree'[a].records
      BY <3>1, <3>2, RecordKept
    <3>4. QED
      BY <3>2, <3>3
  <2>2. QED
    BY <1>0, <1>2, <2>1 DEF Stamped
<1>3. QED
  BY <1>1, <1>2, LatestStep

LEMMA AwaitedKept ==
    ASSUME TypeInv, LifeInv, HonestInv, LatestInv, [Next]_vars, NEW r \in Readers
    PROVE  Awaited(r)'
<1>0. Awaited(r) /\ now \in Nat /\ TTL \in Nat /\ asked[r].stored \in [Agents -> Nat]
  BY TimesAssumption, ReaderNumbers DEF LatestInv, TypeInv, TypeOK
<1>1. CASE /\ asked'[r] = asked[r]
           /\ get'[r].pc = "fetch" => get[r].pc = "fetch"
  <2>1. SUFFICES ASSUME NEW a \in Agents, asked[r].stored[a] # 0, get[r].pc = "fetch",
                        now' < asked[r].stored[a] + TTL
                 PROVE  \E x \in tree'[a].records : /\ x.at = asked[r].stored[a]
                                                    /\ x.uptime = asked[r].uptime[a]
    BY <1>0, <1>1 DEF Awaited
  <2>2. now <= now' /\ now' \in Nat /\ asked[r].stored[a] \in Nat
    BY <1>0, KnownGrows
  <2>3. now < asked[r].stored[a] + TTL
    BY <1>0, <2>1, <2>2
  <2>4. PICK x \in tree[a].records : /\ x.at = asked[r].stored[a]
                                     /\ x.uptime = asked[r].uptime[a]
    BY <1>0, <2>1, <2>3 DEF Awaited
  <2>5. x \in tree'[a].records
    BY <2>3, <2>4, RecordKept
  <2>6. QED
    BY <2>4, <2>5
<1>2. CASE asked'[r] = NothingAsked
  BY <1>2 DEF Awaited, NothingAsked, NothingSeen
<1>3. CASE Exit
  BY <1>2, <1>3 DEF Exit
<1>4. ASSUME Ask(r) \/ Answer(r) PROVE Awaited(r)'
  <2>1. CASE \A a \in Agents : /\ asked'[r].stored[a] = known[a].stored
                               /\ asked'[r].uptime[a] = known[a].uptime
    <3>1. UNCHANGED <<now, tree, known>>
      BY <1>4, ReaderEffect
    <3>2. QED
      BY <2>1, <3>1 DEF Awaited, LatestInv, Stamped
  <2>2. QED
    BY <1>1, <1>2, <1>4, <2>1, ReaderEffect
<1>5. ASSUME NEW q \in Readers \ {r}, Ask(q) \/ Answer(q) PROVE Awaited(r)'
  BY <1>1, <1>5, ReaderEffect
<1>6. CASE ~ Exit /\ ~ \E q \in Readers : Ask(q) \/ Answer(q)
  BY <1>1, <1>6, OtherReaders
<1>7. QED
  BY <1>3, <1>4, <1>5, <1>6

\* What a reader has seen of an agent whose report it is owed.
Vouches(r) == get[r].pc \in {"pods", "done"} =>
                 \A a \in Agents : Owed(r, a) =>
                    /\ get[r].seen[a] # 0
                    /\ get[r].seen[a] >= asked[r].uptime[a]

LEMMA VouchesKept ==
    ASSUME TypeInv, HonestInv, LatestInv, [Next]_vars, "fetch" \notin Failing,
           NEW r \in Readers
    PROVE  Vouches(r)'
<1>0. Vouches(r)
  BY DEF LatestInv, DumpNotBehind, Vouches
<1>1. /\ now \in Nat /\ TTL \in Nat
      /\ get[r].seen \in [Agents -> Nat]
      /\ asked[r].stored \in [Agents -> Nat] /\ asked[r].uptime \in [Agents -> Nat]
  BY TimesAssumption, ReaderNumbers DEF TypeInv, TypeOK
<1>2. CASE /\ get'[r].seen = get[r].seen /\ asked'[r] = asked[r]
           /\ get'[r].pc \in {"pods", "done"} => get[r].pc \in {"pods", "done"}
  <2>1. SUFFICES ASSUME NEW a \in Agents, get'[r].pc \in {"pods", "done"}, Owed(r, a)'
                 PROVE  /\ get'[r].seen[a] # 0
                        /\ get'[r].seen[a] >= asked'[r].uptime[a]
    BY DEF Vouches
  <2>2. now <= now' /\ now' \in Nat
    BY KnownGrows
  <2>3. Owed(r, a)
    BY <1>1, <1>2, <2>1, <2>2 DEF Owed
  <2>4. QED
    BY <1>0, <1>2, <2>1, <2>3 DEF Vouches
<1>3. CASE get'[r].pc \in {"idle", "fetch"}
  BY <1>3 DEF Vouches
<1>4. CASE Exit
  BY <1>3, <1>4 DEF Exit, IdleGet
<1>5. ASSUME Ask(r) \/ Answer(r) PROVE Vouches(r)'
  <2>1. CASE /\ get[r].pc = "fetch"
             /\ get'[r].seen = [a \in Agents |-> Latest(a)]
             /\ asked'[r] = asked[r]
    <3>1. SUFFICES ASSUME NEW a \in Agents, Owed(r, a)'
                   PROVE  /\ get'[r].seen[a] # 0
                          /\ get'[r].seen[a] >= asked'[r].uptime[a]
      BY DEF Vouches
    <3>2. UNCHANGED now
      BY <1>5, ReaderEffect
    <3>3. /\ asked[r].stored[a] # 0 /\ now < asked[r].stored[a] + TTL
      BY <2>1, <3>1, <3>2 DEF Owed
    <3>4. PICK x \in tree[a].records : x.uptime = asked[r].uptime[a]
      BY <2>1, <3>3 DEF LatestInv, Awaited
    <3>5. asked[r].uptime[a] # 0 /\ asked[r].uptime[a] \in Nat
      BY <1>1, <3>3 DEF LatestInv, Awaited
    <3>6. Latest(a) \in Nat /\ x.uptime <= Latest(a)
      BY AgentNumbers, LatestIsMax
    <3>7. get'[r].seen[a] = Latest(a)
      BY <2>1
    <3>8. QED
      BY <2>1, <3>4, <3>5, <3>6, <3>7
  <2>2. QED
    BY <1>2, <1>3, <1>5, <2>1, ReaderEffect DEF IdleGet
<1>6. ASSUME NEW q \in Readers \ {r}, Ask(q) \/ Answer(q) PROVE Vouches(r)'
  BY <1>2, <1>6, ReaderEffect
<1>7. CASE ~ Exit /\ ~ \E q \in Readers : Ask(q) \/ Answer(q)
  BY <1>2, <1>7, OtherReaders
<1>8. QED
  BY <1>4, <1>5, <1>6, <1>7

LEMMA LatestInitially == ASSUME Init PROVE LatestInv
<1>1. /\ \A a \in Agents : known[a] = NothingKnown
      /\ \A r \in Readers : get[r] = IdleGet /\ asked[r] = NothingAsked
  BY DEF Init
<1>2. \A a \in Agents : Stamped(a)
  BY <1>1 DEF Stamped, NothingKnown
<1>3. \A r \in Readers : Awaited(r)
  BY <1>1 DEF Awaited, NothingAsked, NothingSeen
<1>4. DumpNotBehind
  BY <1>1 DEF DumpNotBehind, IdleGet
<1>5. QED
  BY <1>2, <1>3, <1>4 DEF LatestInv

AllInv == TypeInv /\ LifeInv /\ HonestInv /\ LatestInv

LEMMA AllInductive ==
    ASSUME AllInv, [Next]_vars, "refresh" \notin Failing, "fetch" \notin Failing
    PROVE  AllInv'
<1>1. TypeInv' /\ LifeInv' /\ HonestInv'
  BY TypesKept, LifeKept, HonestInductive DEF AllInv
<1>2. /\ \A a \in Agents : Stamped(a)'
      /\ \A r \in Readers : Awaited(r)'
  BY StampedKept, AwaitedKept DEF AllInv
<1>3. \A r \in Readers : Vouches(r)'
  BY VouchesKept DEF AllInv
<1>4. DumpNotBehind'
  BY <1>3 DEF DumpNotBehind, Vouches
<1>5. QED
  BY <1>1, <1>2, <1>4 DEF AllInv, LatestInv

\* What a dump, the data of an agent or a check goes by is a record whose uptime
\* is not below that of the latest report that was stored when it was asked for,
\* whichever requests of handlers fall between the answers of etcd, as long as
\* the tree can be fetched and the directories can be refreshed.  Of a record
\* with a greater uptime it says no more: after a restart of the agent that may
\* be an older one.
THEOREM DumpsAreNotBehind ==
    ASSUME "refresh" \notin Failing, "fetch" \notin Failing
    PROVE  Spec => []DumpNotBehind
<1>1. Init => AllInv
  BY TypesInitially, LifeInitially, HonestInitially, LatestInitially DEF AllInv
<1>2. AllInv /\ [Next]_vars => AllInv'
  BY AllInductive
<1>3. AllInv => DumpNotBehind
  BY DEF AllInv, LatestInv
<1>4. QED
  BY <1>1, <1>2, <1>3, PTL DEF Spec

\* No check calls a pod absent before the last of its reports that were stored
\* when the check was asked for has lived its time.
THEOREM AbsentAreSilent ==
    ASSUME "refresh" \notin Failing, "fetch" \notin Failing
    PROVE  Spec => []AbsentMeansSilent
<1>1. Init => AllInv
  BY TypesInitially, LifeInitially, HonestInitially, LatestInitially DEF AllInv
<1>2. AllInv /\ [Next]_vars => AllInv'
  BY AllInductive
<1>3. AllInv => AbsentMeansSilent
  <2> SUFFICES ASSUME AllInv, NEW r \in Readers, NEW a \in get[r].absent
               PROVE  ~ Owed(r, a)
    BY DEF AbsentMeansSilent
  <2>1. /\ get[r].pc = "done" /\ get[r].seen[a] = 0 /\ a \in Agents
    BY ReaderNumbers DEF AllInv, HonestInv, Honest
  <2>2. QED
    BY <2>1 DEF AllInv, LatestInv, DumpNotBehind
<1>4. QED
  BY <1>1, <1>2, <1>3, PTL DEF Spec

===============================================================================
