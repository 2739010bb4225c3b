----------------------------- MODULE EtcdRecords -----------------------------
(***************************************************************************)
(* EtcdAgentStorage.getAgents (pkg/utils/storer_etcd.go): how the records  *)
(* that one fetch of the tree yields become the dump of all agents, and    *)
(* with it what connectivity checks and the collector go by.               *)
(*                                                                         *)
(* Every record is decoded into the same variable, and the dump holds      *)
(* copies of it.  A copied struct shares its maps and the arrays of its    *)
(* slices with the original, and encoding/json decodes into the maps and   *)
(* arrays that it finds there.  The maps and the arrays are therefore      *)
(* objects with a place in a heap.  The tree does not change meanwhile: it *)
(* is a single answer of etcd, in no certain order.                        *)
(***************************************************************************)
EXTENDS Integers, Sequences, FiniteSetsExt

CONSTANTS Agents,     \* names of the agents' directories
          NoAgent,    \* no directory is being iterated
          Payloads,   \* the data of a record: its hosts and its probe results
          NoMap,      \* the hosts of a report that gives none: null
          Garbled,    \* a value that is not JSON
          Uptimes,    \* names of records
          MaxRecords  \* bound on the records of an agent

ASSUME AgentsAssumption == NoAgent \notin Agents
ASSUME PayloadsAssumption == /\ IsFiniteSet(Payloads)
                            /\ \A d \in Payloads : d.probes \in Nat
ASSUME UptimesAssumption == Uptimes \subseteq Nat /\ MaxRecords \in Nat

VARIABLES tree,     \* the answer of etcd: tree[a], the records under a
          nodes,    \* the directories that are still to be iterated
          node,     \* the directory that is being iterated
          left,     \* its records that are still to be decoded
          last,     \* last_AgentSpec
          max,      \* max_AgentSpec
          maps,     \* the maps there are; LookupHost and IPs go alike
          arrays,   \* the arrays of probe results there are
          dump      \* agentsData

vars == <<tree, nodes, node, left, last, max, maps, arrays, dump>>

-----------------------------------------------------------------------------
(* Data.                                                                   *)

MaxProbes == Max({d.probes : d \in Payloads} \cup {0})

Records == [uptime : Uptimes, data : Payloads \cup {Garbled}]

\* The name of a record is its uptime: no two in a directory are alike.
Directories == {S \in UNION {kSubset(n, Records) : n \in 0..MaxRecords} :
                    \A r, s \in S : r.uptime = s.uptime => r = s}

\* What stands in the plain fields of an AgentSpec is told by the record that
\* they came from, of which hosts and results are parts; 0 is for nil.
EmptySpec == [of |-> <<>>, uptime |-> 0, hosts |-> 0, probes |-> 0, len |-> 0]

-----------------------------------------------------------------------------
(* json.Unmarshal into last_AgentSpec.                                     *)

HostsOf(r) == [h \in r.data.hosts |-> <<node, r.uptime>>]

\* Variant to be rejected: a map that is there is emptied before.
FilledAfresh(r) == HostsOf(r)

\* The entries are put into the map that is there, or into a new one.
Filled(r) ==
    LET old == IF last.hosts = 0 THEN <<>> ELSE maps[last.hosts]
        new == HostsOf(r)
    IN  [h \in DOMAIN old \cup DOMAIN new |->
            IF h \in DOMAIN new THEN new[h] ELSE old[h]]

\* Null makes the map nil.
DecodeHosts(r) ==
    CASE r.data.hosts = NoMap -> [ref |-> 0, maps |-> maps]
      [] r.data.hosts # NoMap /\ last.hosts = 0 ->
            [ref |-> Len(maps) + 1, maps |-> Append(maps, Filled(r))]
      [] r.data.hosts # NoMap /\ last.hosts # 0 ->
            [ref |-> last.hosts, maps |-> [maps EXCEPT ![last.hosts] = Filled(r)]]

\* Is there an array, and has it room for n items.
Fits(n) == last.probes # 0 /\ n <= Len(arrays[last.probes])

\* The items that are met are written over, the others stay.
Overwrite(array, n, id) == [i \in DOMAIN array |-> IF i <= n THEN id ELSE array[i]]

\* Null and an empty list leave no array.  Items are put into the array that is
\* there; when it is full, they are moved to one of a larger capacity.
DecodeProbes(r, capacity) ==
    LET n    == r.data.probes
        id   == <<node, r.uptime>>
        over == IF last.probes = 0 THEN arrays
                ELSE [arrays EXCEPT ![last.probes] = Overwrite(@, n, id)]
        new  == Overwrite([i \in 1..capacity |-> <<>>], n, id)
    IN  CASE n = 0 -> [ref |-> 0, arrays |-> arrays]
          [] n > 0 /\ Fits(n) -> [ref |-> last.probes, arrays |-> over]
          [] n > 0 /\ ~Fits(n) ->
                [ref |-> Len(arrays) + 1, arrays |-> Append(over, new)]

-----------------------------------------------------------------------------
(* The loops.                                                              *)

\* The maximum is forgotten, the rest of max_AgentSpec stays.
NextNode(a) ==
    /\ node = NoAgent
    /\ a \in nodes
    /\ nodes' = nodes \ {a}
    /\ node' = a
    /\ left' = tree[a]
    /\ max' = [max EXCEPT !.uptime = 0]
    /\ UNCHANGED <<tree, last, maps, arrays, dump>>

\* Variant to be rejected: the record that comes last is kept.
KeepLast(spec) == spec

\* Uptimes are compared as numbers, and the struct is copied.
KeepMax(spec) == IF spec.uptime > max.uptime THEN spec ELSE max

Decode(r) ==
    /\ r \in left
    /\ r.data # Garbled
    /\ left' = left \ {r}
    /\ \E capacity \in r.data.probes..MaxProbes :
          LET hosts  == DecodeHosts(r)
              probes == DecodeProbes(r, capacity)
          IN  /\ last' = [of |-> <<node, r.uptime>>, uptime |-> r.uptime,
                          hosts |-> hosts.ref, probes |-> probes.ref,
                          len |-> r.data.probes]
              /\ maps' = hosts.maps
              /\ arrays' = probes.arrays
              /\ max' = KeepMax(last')
    /\ UNCHANGED <<tree, nodes, node, dump>>

\* An error of json.Unmarshal is logged.
Skip(r) ==
    /\ r \in left
    /\ r.data = Garbled
    /\ left' = left \ {r}
    /\ UNCHANGED <<tree, nodes, node, last, max, maps, arrays, dump>>

\* Only an agent with a positive uptime gets into the dump.
EndNode ==
    /\ node # NoAgent
    /\ left = {}
    /\ node' = NoAgent
    /\ dump' = IF max.uptime > 0
               THEN [a \in DOMAIN dump \cup {node} |->
                        IF a = node THEN max ELSE dump[a]]
               ELSE dump
    /\ UNCHANGED <<tree, nodes, left, last, max, maps, arrays>>

Init == /\ tree \in [Agents -> Directories]
        /\ nodes = Agents
        /\ node = NoAgent
        /\ left = {}
        /\ last = EmptySpec
        /\ max = EmptySpec
        /\ maps = <<>>
        /\ arrays = <<>>
        /\ dump = [a \in {} |-> EmptySpec]

Next == \/ \E a \in Agents : NextNode(a)
        \/ \E r \in left : Decode(r) \/ Skip(r)
        \/ EndNode

Spec == Init /\ [][Next]_vars

-----------------------------------------------------------------------------
(* Properties.                                                             *)

\* What the dump shows in the end, where the objects have come to rest.
Done == node = NoAgent /\ nodes = {}

Hosts(spec) == IF spec.hosts = 0 THEN <<>> ELSE maps[spec.hosts]

Probes(spec) == IF spec.probes = 0 THEN <<>> ELSE SubSeq(arrays[spec.probes], 1, spec.len)

\* The records of a that can be decoded, and the one that is to be shown.
Good(a) == {r \in tree[a] : r.data # Garbled}

Greatest(a) == Max({r.uptime : r \in Good(a)} \cup {0})

Wanted(a) == CHOOSE r \in Good(a) : r.uptime = Greatest(a)

\* In whatever order etcd lists them, exactly the agents with a positive uptime
\* are in the dump, and the plain fields shown for each are those of its record
\* with the greatest uptime: what connectivity checks and the collector go by
\* is sound, and so is EtcdAgentStorage's Latest.
LatestIsShown ==
    Done => /\ DOMAIN dump = {a \in Agents : Greatest(a) > 0}
            /\ \A a \in DOMAIN dump : /\ dump[a].uptime = Greatest(a)
                                      /\ dump[a].of = <<a, Greatest(a)>>

\* Although the agents share maps and arrays, nothing gets lost: each has an
\* entry for every host of the record shown, and as many probe results.
DumpCoversRecord ==
    Done => \A a \in DOMAIN dump :
                /\ Wanted(a).data.hosts # NoMap =>
                      Wanted(a).data.hosts \subseteq DOMAIN Hosts(dump[a])
                /\ Len(Probes(dump[a])) = Wanted(a).data.probes

-----------------------------------------------------------------------------
(* A statement of the repository that the code does not keep.              *)

\* "get ... agent's data record", "get the whole agent data dump" (README): what
\* is shown of an agent is what it has reported, not what others have.
DumpIsRecord ==
    Done => \A a \in DOMAIN dump :
                /\ \A h \in DOMAIN Hosts(dump[a]) : Hosts(dump[a])[h] = dump[a].of
                /\ \A i \in DOMAIN Probes(dump[a]) : Probes(dump[a])[i] = dump[a].of

===============================================================================
