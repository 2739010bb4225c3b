-------------------------- MODULE EtcdRecordsProofs --------------------------
(* Theorems about how the records of one fetch become the dump, for any      *)
(* agents, uptimes, payloads and orders of the records.                      *)
EXTENDS EtcdRecords, OperatorProofs

------------------------------------------------------------------------------
(* Lemmas on the data.                                                       *)

\* No payload has more than MaxProbes results.
LEMMA MaxProbesType == MaxProbes \in Nat /\ \A d \in Payloads : d.probes <= MaxProbes
<1> DEFINE S == {d.probes : d \in Payloads} \cup {0}
<1>1. S \subseteq Nat /\ 0 \in S
  BY PayloadsAssumption
<1>2. PICK n \in Nat : ExistsSurjection(1..n, Payloads)
  <2>1. IsFiniteSet(Payloads)
    BY PayloadsAssumption
  <2>2. QED
    BY <2>1, FS_NatSurjection
<1>3. PICK f \in [1..n -> Payloads] : \A d \in Payloads : \E i \in 1..n : f[i] = d
  BY <1>2 DEF ExistsSurjection, Surjection
<1> DEFINE Bounded(k) == \E m \in S : \A i \in 1..n : k < i => f[i].probes <= m
           T == {k \in Nat : k <= n /\ Bounded(k)}
<1>4. n \in T
  BY <1>1
<1>5. PICK k \in T : \A j \in Nat : j < k => j \notin T
  <2> HIDE DEF T
  <2>1. T \in SUBSET Nat /\ T # {}
    BY <1>4 DEF T
  <2>2. QED
    BY <2>1, LeastNumber
<1>6. k = 0
  <2>1. SUFFICES ASSUME k # 0 PROVE FALSE
    OBVIOUS
  <2>2. k \in Nat /\ k \in 1..n /\ k - 1 \in Nat /\ k - 1 <= n
    BY <2>1
  <2>3. PICK m \in S : \A i \in 1..n : k < i => f[i].probes <= m
    OBVIOUS
  <2>4. f[k].probes \in S /\ f[k].probes \in Nat /\ m \in Nat
    BY <1>1, <2>2
  <2>5. CASE f[k].probes <= m
    <3>1. \A i \in 1..n : k - 1 < i => f[i].probes <= m
      BY <2>2, <2>3, <2>5
    <3>2. k - 1 \in T
      BY <2>2, <3>1
    <3>3. QED
      <4>1. k - 1 < k /\ k - 1 \in Nat
        BY <2>2
      <4> HIDE DEF T
      <4>2. QED
        BY <1>5, <3>2, <4>1
  <2>6. CASE m < f[k].probes
    <3>1. ASSUME NEW i \in 1..n, k - 1 < i PROVE f[i].probes <= f[k].probes
      <4>1. f[i].probes \in Nat
        BY <1>1
      <4>2. QED
        BY <2>2, <2>3, <2>4, <2>6, <3>1, <4>1
    <3>2. k - 1 \in T
      BY <2>2, <2>4, <3>1
    <3>3. QED
      <4>1. k - 1 < k /\ k - 1 \in Nat
        BY <2>2
      <4> HIDE DEF T
      <4>2. QED
        BY <1>5, <3>2, <4>1
  <2>7. QED
    BY <2>4, <2>5, <2>6
<1>7. PICK m \in S : \A i \in 1..n : f[i].probes <= m
  <2>1. PICK m \in S : \A i \in 1..n : 0 < i => f[i].probes <= m
    BY <1>6
  <2>2. \A i \in 1..n : 0 < i
    OBVIOUS
  <2>3. QED
    BY <2>1, <2>2
<1>8. \A s \in S : s <= m
  BY <1>1, <1>3, <1>7
<1>9. Max(S) = m
  <2> HIDE DEF S
  <2>1. QED
    BY <1>1, <1>8, MaxIs
<1>10. QED
  BY <1>1, <1>8, <1>9 DEF MaxProbes

\* What is in a directory.
LEMMA DirectoryIs ==
    ASSUME NEW S \in Directories
    PROVE  /\ S \subseteq Records
           /\ \A r, s \in S : r.uptime = s.uptime => r = s
  BY DEF Directories, kSubset

\* A record that can be decoded.
LEMMA DecodableIs ==
    ASSUME NEW r \in Records, r.data # Garbled
    PROVE  r.uptime \in Nat /\ r.uptime \in Uptimes /\ r.data \in Payloads
             /\ r.data.probes \in Nat
  BY PayloadsAssumption, UptimesAssumption DEF Records

------------------------------------------------------------------------------
(* The heap.  Decoding may write over what other specs share, but it takes   *)
(* no host out of a map and never shortens an array.                         *)

\* Where a value comes from: the record of an agent, by its uptime.
Ids == Agents \X Uptimes

Specs == [of : Ids \cup {<<>>}, uptime : Nat, hosts : Nat, probes : Nat, len : Nat]

Maps == UNION {[D -> Ids] : D \in SUBSET UNION {d.hosts : d \in Payloads}}

Cells == Ids \cup {<<>>}

HeapOK == maps \in Seq(Maps) /\ arrays \in Seq(Seq(Cells))

Grown == /\ Len(maps) <= Len(maps')
         /\ Len(arrays) <= Len(arrays')
         /\ \A i \in 1..Len(maps) : DOMAIN maps[i] \subseteq DOMAIN maps'[i]
         /\ \A i \in 1..Len(arrays) : Len(arrays'[i]) = Len(arrays[i])

\* The spec has an entry for every host of r, and as many results.
Carries(spec, r) ==
    /\ r.data.hosts # NoMap =>
          spec.hosts # 0 /\ r.data.hosts \subseteq DOMAIN maps[spec.hosts]
    /\ spec.len = r.data.probes

LEMMA HeapLengths ==
    ASSUME HeapOK
    PROVE  Len(maps) \in Nat /\ Len(arrays) \in Nat
             /\ \A i \in 1..Len(arrays) : arrays[i] \in Seq(Cells) /\ Len(arrays[i]) \in Nat
  BY LenProperties, ElementOfSeq DEF HeapOK

\* Every reference is to an object, and a slice is not longer than its array.
WellFormed(spec) == /\ spec \in Specs
                    /\ spec.hosts <= Len(maps)
                    /\ spec.probes <= Len(arrays)
                    /\ spec.len <= Len(IF spec.probes = 0 THEN <<>>
                                       ELSE arrays[spec.probes])

\* What a spec refers to survives the growing of the heap.
LEMMA GrownKeeps ==
    ASSUME HeapOK, HeapOK', Grown, NEW spec, WellFormed(spec)
    PROVE  /\ WellFormed(spec)'
           /\ \A r : Carries(spec, r) => Carries(spec, r)'
<1>1. spec.hosts \in Nat /\ spec.probes \in Nat /\ spec.len \in Nat /\ spec \in Specs
  BY DEF WellFormed, Specs
<1>2. /\ Len(maps) \in Nat /\ Len(arrays) \in Nat
      /\ Len(maps') \in Nat /\ Len(arrays') \in Nat
  BY HeapLengths, LenProperties DEF HeapOK
<1>3. WellFormed(spec)'
  BY <1>1, <1>2 DEF WellFormed, Grown
<1>4. ASSUME NEW r, Carries(spec, r) PROVE Carries(spec, r)'
  <2>1. CASE r.data.hosts = NoMap
    BY <1>4, <2>1 DEF Carries
  <2>2. CASE r.data.hosts # NoMap
    <3>1. spec.hosts # 0 /\ r.data.hosts \subseteq DOMAIN maps[spec.hosts]
      BY <1>4, <2>2 DEF Carries
    <3>2. spec.hosts \in 1..Len(maps)
      BY <1>1, <1>2, <3>1 DEF WellFormed
    <3>3. DOMAIN maps[spec.hosts] \subseteq DOMAIN maps'[spec.hosts]
      BY <3>2 DEF Grown
    <3>4. QED
      BY <1>4, <3>1, <3>3 DEF Carries
  <2>3. QED
    BY <2>1, <2>2
<1>5. QED
  BY <1>3, <1>4

\* The map into which the hosts are put.
LEMMA FilledIs ==
    ASSUME HeapOK, WellFormed(last), node \in Agents,
           NEW r \in Records, r.data # Garbled
    PROVE  /\ Filled(r) \in Maps
           /\ r.data.hosts \subseteq DOMAIN Filled(r)
           /\ last.hosts # 0 => DOMAIN maps[last.hosts] \subseteq DOMAIN Filled(r)
<1> DEFINE old == IF last.hosts = 0 THEN <<>> ELSE maps[last.hosts]
           new == HostsOf(r)
           AllHosts == UNION {d.hosts : d \in Payloads}
<1>1. <<node, r.uptime>> \in Ids /\ r.data.hosts \subseteq AllHosts
  BY DecodableIs DEF Ids
<1>2. DOMAIN new = r.data.hosts /\ \A h \in DOMAIN new : new[h] \in Ids
  BY <1>1 DEF HostsOf
<1>3. DOMAIN old \subseteq AllHosts /\ \A h \in DOMAIN old : old[h] \in Ids
  <2>1. CASE last.hosts = 0
    <3>1. DOMAIN <<>> = {}
      OBVIOUS
    <3>2. QED
      BY <2>1, <3>1
  <2>2. CASE last.hosts # 0
    <3>1. last.hosts \in 1..Len(maps)
      BY <2>2, HeapLengths DEF WellFormed, Specs
    <3>2. maps[last.hosts] \in Maps
      BY <3>1, ElementOfSeq DEF HeapOK
    <3>3. QED
      BY <2>2, <3>2 DEF Maps
  <2>3. QED
    BY <2>1, <2>2
<1> DEFINE f == [h \in DOMAIN old \cup DOMAIN new |->
                    IF h \in DOMAIN new THEN new[h] ELSE old[h]]
<1>4. Filled(r) = f
  BY DEF Filled
<1> HIDE DEF old, new, AllHosts
<1>5. DOMAIN old \cup DOMAIN new \in SUBSET AllHosts
  BY <1>1, <1>2, <1>3
<1>6. f \in [DOMAIN old \cup DOMAIN new -> Ids]
  BY <1>2, <1>3
<1>7. f \in Maps
  BY <1>5, <1>6 DEF Maps, AllHosts
<1>8. DOMAIN f = DOMAIN old \cup DOMAIN new
  OBVIOUS
<1> HIDE DEF f
<1>9. last.hosts # 0 => old = maps[last.hosts]
  BY DEF old
<1>10. QED
  BY <1>2, <1>4, <1>7, <1>8, <1>9

\* The hosts of a record, put into a map that was there or a new one.
LEMMA HostsDecoded ==
    ASSUME HeapOK, WellFormed(last), node \in Agents,
           NEW r \in Records, r.data # Garbled, NEW h, h = DecodeHosts(r)
    PROVE  /\ h.maps \in Seq(Maps)
           /\ h.ref \in Nat /\ h.ref <= Len(h.maps)
           /\ Len(maps) <= Len(h.maps)
           /\ \A i \in 1..Len(maps) : DOMAIN maps[i] \subseteq DOMAIN h.maps[i]
           /\ r.data.hosts # NoMap =>
                 h.ref # 0 /\ r.data.hosts \subseteq DOMAIN h.maps[h.ref]
<1>1. /\ maps \in Seq(Maps) /\ Len(maps) \in Nat
      /\ last.hosts \in Nat /\ last.hosts <= Len(maps)
  BY HeapLengths DEF HeapOK, WellFormed, Specs
<1>2. /\ Filled(r) \in Maps
      /\ r.data.hosts \subseteq DOMAIN Filled(r)
      /\ last.hosts # 0 => DOMAIN maps[last.hosts] \subseteq DOMAIN Filled(r)
  BY FilledIs
<1>3. CASE r.data.hosts = NoMap
  <2>1. h = [ref |-> 0, maps |-> maps]
    BY <1>3 DEF DecodeHosts
  <2>2. QED
    BY <1>1, <1>3, <2>1
<1>4. CASE r.data.hosts # NoMap /\ last.hosts = 0
  <2>1. h = [ref |-> Len(maps) + 1, maps |-> Append(maps, Filled(r))]
    BY <1>4 DEF DecodeHosts
  <2>2. h.ref = Len(maps) + 1 /\ h.maps = Append(maps, Filled(r))
    BY <2>1
  <2>3. /\ h.maps \in Seq(Maps) /\ Len(h.maps) = Len(maps) + 1
        /\ \A i \in 1..Len(maps) : h.maps[i] = maps[i]
        /\ h.maps[Len(maps) + 1] = Filled(r)
    BY <1>1, <1>2, <2>2, AppendProperties
  <2>4. QED
    BY <1>1, <1>2, <2>2, <2>3
<1>5. CASE r.data.hosts # NoMap /\ last.hosts # 0
  <2>1. h = [ref |-> last.hosts, maps |-> [maps EXCEPT ![last.hosts] = Filled(r)]]
    BY <1>5 DEF DecodeHosts
  <2>2. h.ref = last.hosts /\ h.maps = [maps EXCEPT ![last.hosts] = Filled(r)]
    BY <2>1
  <2>3. last.hosts \in 1..Len(maps)
    BY <1>1, <1>5
  <2>4. /\ h.maps \in Seq(Maps) /\ Len(h.maps) = Len(maps)
        /\ \A i \in 1..Len(maps) :
              h.maps[i] = IF i = last.hosts THEN Filled(r) ELSE maps[i]
    BY <1>1, <1>2, <2>2, <2>3, ExceptSeq
  <2>5. QED
    BY <1>1, <1>2, <1>5, <2>2, <2>3, <2>4
<1>6. QED
  BY <1>3, <1>4, <1>5

\* Items are written over in place.
LEMMA OverwriteIs ==
    ASSUME NEW array \in Seq(Cells), NEW n \in Nat, NEW id \in Ids
    PROVE  Overwrite(array, n, id) \in Seq(Cells)
             /\ Len(Overwrite(array, n, id)) = Len(array)
<1>1. /\ Len(array) \in Nat /\ DOMAIN array = 1..Len(array)
      /\ array \in [1..Len(array) -> Cells]
  BY LenProperties
<1>2. id \in Cells
  BY DEF Cells
<1>3. Overwrite(array, n, id) \in [1..Len(array) -> Cells]
  BY <1>1, <1>2 DEF Overwrite
<1>4. QED
  BY <1>1, <1>3, SequenceIs

\* The results of a record, put into an array that was there or a new one.
LEMMA ProbesDecoded ==
    ASSUME HeapOK, WellFormed(last), node \in Agents,
           NEW r \in Records, r.data # Garbled,
           NEW capacity \in r.data.probes..MaxProbes,
           NEW p, p = DecodeProbes(r, capacity)
    PROVE  /\ p.arrays \in Seq(Seq(Cells))
           /\ p.ref \in Nat /\ p.ref <= Len(p.arrays)
           /\ Len(arrays) <= Len(p.arrays)
           /\ \A i \in 1..Len(arrays) : Len(p.arrays[i]) = Len(arrays[i])
           /\ p.ref = 0 => r.data.probes = 0
           /\ p.ref # 0 => r.data.probes <= Len(p.arrays[p.ref])
<1> DEFINE n == r.data.probes
           id == <<node, r.uptime>>
           over == IF last.probes = 0 THEN arrays
                   ELSE [arrays EXCEPT ![last.probes] = Overwrite(@, n, id)]
           blank == [i \in 1..capacity |-> <<>>]
           new == Overwrite(blank, n, id)
<1>1. n \in Nat /\ id \in Ids /\ capacity \in Nat /\ n <= capacity
  BY DecodableIs, MaxProbesType DEF Ids
<1>2. /\ arrays \in Seq(Seq(Cells)) /\ Len(arrays) \in Nat
      /\ \A i \in 1..Len(arrays) : arrays[i] \in Seq(Cells) /\ Len(arrays[i]) \in Nat
      /\ last.probes \in Nat /\ last.probes <= Len(arrays)
  BY HeapLengths DEF HeapOK, WellFormed, Specs
<1>3. /\ over \in Seq(Seq(Cells)) /\ Len(over) = Len(arrays)
      /\ \A i \in 1..Len(arrays) : Len(over[i]) = Len(arrays[i])
  <2>1. CASE last.probes = 0
    BY <1>2, <2>1
  <2>2. CASE last.probes # 0
    <3> DEFINE o == Overwrite(arrays[last.probes], n, id)
    <3>1. last.probes \in 1..Len(arrays)
      BY <1>2, <2>2
    <3>2. o \in Seq(Cells) /\ Len(o) = Len(arrays[last.probes])
      BY <1>1, <1>2, <3>1, OverwriteIs
    <3>3. over = [arrays EXCEPT ![last.probes] = o]
      BY <2>2
    <3> HIDE DEF o, over
    <3>4. /\ over \in Seq(Seq(Cells)) /\ Len(over) = Len(arrays)
          /\ \A i \in 1..Len(arrays) : over[i] = IF i = last.probes THEN o ELSE arrays[i]
      BY <1>2, <3>1, <3>2, <3>3, ExceptSeq
    <3>5. QED
      BY <3>2, <3>4
  <2>3. QED
    BY <2>1, <2>2
<1>4. new \in Seq(Cells) /\ Len(new) = capacity
  <2>1. blank \in [1..capacity -> Cells]
    BY DEF Cells
  <2>2. blank \in Seq(Cells) /\ Len(blank) = capacity
    BY <1>1, <2>1, SequenceIs
  <2> HIDE DEF blank
  <2>3. QED
    BY <1>1, <2>2, OverwriteIs
<1>5. p = CASE n = 0 -> [ref |-> 0, arrays |-> arrays]
            [] n > 0 /\ Fits(n) -> [ref |-> last.probes, arrays |-> over]
            [] n > 0 /\ ~ Fits(n) ->
                  [ref |-> Len(arrays) + 1, arrays |-> Append(over, new)]
  BY DEF DecodeProbes
<1> HIDE DEF over, new, blank, id
<1>6. CASE n = 0
  <2>1. p = [ref |-> 0, arrays |-> arrays]
    BY <1>5, <1>6
  <2>2. QED
    BY <1>2, <1>6, <2>1
<1>7. CASE n > 0 /\ Fits(n)
  <2>1. p = [ref |-> last.probes, arrays |-> over]
    BY <1>1, <1>5, <1>7
  <2>2. last.probes \in 1..Len(arrays) /\ n <= Len(arrays[last.probes])
    BY <1>2, <1>7 DEF Fits
  <2>3. QED
    BY <1>2, <1>3, <2>1, <2>2
<1>8. CASE n > 0 /\ ~ Fits(n)
  <2>1. p = [ref |-> Len(arrays) + 1, arrays |-> Append(over, new)]
    BY <1>1, <1>5, <1>8
  <2>2. p.ref = Len(arrays) + 1 /\ p.arrays = Append(over, new)
    BY <2>1
  <2>3. /\ p.arrays \in Seq(Seq(Cells)) /\ Len(p.arrays) = Len(arrays) + 1
        /\ \A i \in 1..Len(arrays) : p.arrays[i] = over[i]
        /\ p.arrays[Len(arrays) + 1] = new
    BY <1>3, <1>4, <2>2, AppendProperties
  <2>4. QED
    BY <1>1, <1>2, <1>3, <1>4, <2>2, <2>3
<1>9. QED
  BY <1>1, <1>6, <1>7, <1>8

------------------------------------------------------------------------------
(* The loops.  While a directory is iterated max_AgentSpec is its record of   *)
(* the greatest uptime so far, whatever it held before; the dump holds the    *)
(* same of the directories that are done with.                                *)

\* The spec is that of the record of the greatest uptime in R, which are records
\* of a; nothing is said if this is 0.
Shows(spec, a, R) ==
    /\ \A r \in R : r.uptime <= spec.uptime
    /\ spec.uptime # 0 =>
          /\ spec.of = <<a, spec.uptime>>
          /\ \E r \in R : r.uptime = spec.uptime /\ Carries(spec, r)

LoopInv == /\ tree \in [Agents -> Directories]
           /\ nodes \subseteq Agents
           /\ node \in Agents \cup {NoAgent}
           /\ node \notin nodes
           /\ left \subseteq (IF node = NoAgent THEN {} ELSE tree[node])

HeapInv == HeapOK /\ WellFormed(last) /\ WellFormed(max)

\* Of each agent whose directory is done with.
Shown(a) == IF a \in DOMAIN dump
            THEN /\ WellFormed(dump[a])
                 /\ dump[a].uptime # 0
                 /\ Shows(dump[a], a, Good(a))
            ELSE \A r \in Good(a) : r.uptime = 0

DumpInv == /\ DOMAIN dump \subseteq Agents \ (nodes \cup {node})
           /\ node # NoAgent => Shows(max, node, Good(node) \ left)
           /\ \A a \in Agents \ (nodes \cup {node}) : Shown(a)

Inv == LoopInv /\ HeapInv /\ DumpInv

LEMMA SpecFields ==
    ASSUME NEW s, WellFormed(s)
    PROVE  s \in Specs /\ s.uptime \in Nat
  BY DEF WellFormed, Specs

LEMMA GoodIs ==
    ASSUME LoopInv, NEW a \in Agents
    PROVE  /\ Good(a) \subseteq tree[a]
           /\ \A r \in Good(a) : r \in Records /\ r.data # Garbled /\ r.uptime \in Nat
           /\ \A r, s \in Good(a) : r.uptime = s.uptime => r = s
<1>1. tree[a] \in Directories
  BY DEF LoopInv
<1>2. tree[a] \subseteq Records /\ \A r, s \in tree[a] : r.uptime = s.uptime => r = s
  BY <1>1, DirectoryIs
<1>3. QED
  BY <1>2, DecodableIs DEF Good

\* What is shown survives the growing of the heap.
LEMMA ShowsStays ==
    ASSUME HeapOK, HeapOK', Grown, NEW spec, WellFormed(spec), NEW a, NEW R,
           Shows(spec, a, R)
    PROVE  Shows(spec, a, R)'
  BY GrownKeeps DEF Shows

\* What a turn of the inner loop does.
LEMMA DecodeEffect ==
    ASSUME HeapInv, node \in Agents, NEW r \in Records, Decode(r)
    PROVE  /\ HeapOK' /\ Grown
           /\ \E l \in Specs : /\ last' = l /\ WellFormed(l)' /\ Carries(l, r)'
                               /\ l.uptime = r.uptime /\ l.of = <<node, r.uptime>>
                               /\ max' = IF l.uptime > max.uptime THEN l ELSE max
<1>0. /\ r.data # Garbled
      /\ r.uptime \in Nat /\ r.uptime \in Uptimes /\ r.data.probes \in Nat
  BY DecodableIs DEF Decode
<1>1. PICK capacity \in r.data.probes..MaxProbes :
         /\ last' = [of |-> <<node, r.uptime>>, uptime |-> r.uptime,
                     hosts |-> DecodeHosts(r).ref,
                     probes |-> DecodeProbes(r, capacity).ref,
                     len |-> r.data.probes]
         /\ maps' = DecodeHosts(r).maps
         /\ arrays' = DecodeProbes(r, capacity).arrays
         /\ max' = KeepMax(last')
  BY DEF Decode
<1>2. PICK h : h = DecodeHosts(r)
  OBVIOUS
<1>3. PICK p : p = DecodeProbes(r, capacity)
  OBVIOUS
<1>4. /\ maps' \in Seq(Maps)
      /\ h.ref \in Nat /\ h.ref <= Len(maps')
      /\ Len(maps) <= Len(maps')
      /\ \A i \in 1..Len(maps) : DOMAIN maps[i] \subseteq DOMAIN maps'[i]
      /\ r.data.hosts # NoMap =>
            h.ref # 0 /\ r.data.hosts \subseteq DOMAIN maps'[h.ref]
  <2>1. maps' = h.maps
    BY <1>1, <1>2
  <2>2. QED
    BY <1>0, <1>2, <2>1, HostsDecoded DEF HeapInv
<1>5. /\ arrays' \in Seq(Seq(Cells))
      /\ p.ref \in Nat /\ p.ref <= Len(arrays')
      /\ Len(arrays) <= Len(arrays')
      /\ \A i \in 1..Len(arrays) : Len(arrays'[i]) = Len(arrays[i])
      /\ p.ref = 0 => r.data.probes = 0
      /\ p.ref # 0 => r.data.probes <= Len(arrays'[p.ref])
  <2>1. arrays' = p.arrays
    BY <1>1, <1>3
  <2>2. QED
    BY <1>0, <1>3, <2>1, ProbesDecoded DEF HeapInv
<1>6. HeapOK' /\ Grown
  BY <1>4, <1>5 DEF HeapOK, Grown
<1> DEFINE l == [of |-> <<node, r.uptime>>, uptime |-> r.uptime,
                 hosts |-> h.ref, probes |-> p.ref, len |-> r.data.probes]
<1>7. PICK k : k = l
  OBVIOUS
<1>8. /\ k.of = <<node, r.uptime>> /\ k.uptime = r.uptime /\ k.hosts = h.ref
      /\ k.probes = p.ref /\ k.len = r.data.probes
  BY <1>7
<1>9. k \in Specs
  <2>1. <<node, r.uptime>> \in Ids
    BY <1>0 DEF Ids
  <2>2. QED
    BY <1>0, <1>4, <1>5, <1>7, <2>1 DEF Specs
<1>10. last' = k
  BY <1>1, <1>2, <1>3, <1>7
<1>11. max' = IF k.uptime > max.uptime THEN k ELSE max
  BY <1>1, <1>10 DEF KeepMax
<1> HIDE DEF l
<1>12. WellFormed(k)'
  <2>1. k.len <= Len(IF k.probes = 0 THEN <<>> ELSE arrays'[k.probes])
    <3>1. CASE p.ref = 0
      <4>1. Len(<<>>) = 0
        OBVIOUS
      <4>2. QED
        BY <1>5, <1>8, <3>1, <4>1
    <3>2. CASE p.ref # 0
      BY <1>5, <1>8, <3>2
    <3>3. QED
      BY <3>1, <3>2
  <2>2. QED
    BY <1>4, <1>5, <1>8, <1>9, <2>1 DEF WellFormed
<1>13. Carries(k, r)'
  BY <1>4, <1>8 DEF Carries
<1>14. QED
  BY <1>6, <1>8, <1>9, <1>10, <1>11, <1>12, <1>13

\* A record that is decoded: it is the greatest one, or the one before is.
LEMMA DecodeInv ==
    ASSUME Inv, NEW r \in left, Decode(r) PROVE Inv'
<1>0. /\ node \in Agents /\ node # NoAgent /\ left \subseteq tree[node]
      /\ UNCHANGED <<tree, nodes, node, dump>> /\ left' = left \ {r}
      /\ HeapInv /\ HeapOK /\ WellFormed(max) /\ r.data # Garbled
  BY DEF Inv, LoopInv, HeapInv, Decode
<1>1. r \in Records /\ r \in Good(node) /\ r.uptime \in Nat
  <2>1. tree[node] \subseteq Records
    BY <1>0, DirectoryIs DEF Inv, LoopInv
  <2>2. QED
    BY <1>0, <2>1, DecodableIs DEF Good
<1>2. /\ HeapOK' /\ Grown
      /\ \E l \in Specs : /\ last' = l /\ WellFormed(l)' /\ Carries(l, r)'
                          /\ l.uptime = r.uptime /\ l.of = <<node, r.uptime>>
                          /\ max' = IF l.uptime > max.uptime THEN l ELSE max
  BY <1>0, <1>1, DecodeEffect
<1>3. PICK l \in Specs : /\ last' = l /\ WellFormed(l)' /\ Carries(l, r)'
                         /\ l.uptime = r.uptime /\ l.of = <<node, r.uptime>>
                         /\ max' = IF l.uptime > max.uptime THEN l ELSE max
  BY <1>2
<1>4. PICK m : m = max
  OBVIOUS
<1>5. WellFormed(m) /\ m.uptime \in Nat
  BY <1>0, <1>4, SpecFields
<1>6. WellFormed(m)' /\ Shows(m, node, Good(node) \ left)
  BY <1>0, <1>2, <1>4, <1>5, GrownKeeps DEF Inv, DumpInv
<1>7. LoopInv'
  BY <1>0 DEF Inv, LoopInv
<1>8. HeapInv'
  BY <1>2, <1>3, <1>4, <1>6 DEF HeapInv, WellFormed
<1>9. Good(node)' = Good(node) /\ (Good(node) \ left)' = (Good(node) \ left) \cup {r}
  BY <1>0, <1>1 DEF Good
<1>10. Shows(max, node, Good(node) \ left)'
  <2> DEFINE R == Good(node) \ left
  <2>0. \A x \in R : x.uptime \in Nat
    BY <1>0, GoodIs DEF Inv
  <2>1. CASE r.uptime > m.uptime
    <3>1. max' = l
      BY <1>3, <1>4, <2>1
    <3>2. \A x \in R : x.uptime <= l.uptime
      BY <1>1, <1>3, <1>5, <1>6, <2>0, <2>1 DEF Shows
    <3>3. QED
      BY <1>0, <1>1, <1>3, <1>9, <3>1, <3>2 DEF Shows, Carries
  <2>2. CASE ~ (r.uptime > m.uptime)
    <3>1. max' = m
      BY <1>3, <1>4, <2>2
    <3>2. \A x \in R \cup {r} : x.uptime <= m.uptime
      BY <1>1, <1>5, <1>6, <2>2 DEF Shows
    <3>3. m.uptime # 0 => /\ m.of = <<node, m.uptime>>
                          /\ \E x \in R : x.uptime = m.uptime /\ Carries(m, x)'
      BY <1>0, <1>2, <1>5, <1>6, GrownKeeps DEF Shows
    <3>4. QED
      BY <1>0, <1>9, <3>1, <3>2, <3>3 DEF Shows, Carries
  <2>3. QED
    BY <2>1, <2>2
<1>11. ASSUME NEW a \in Agents \ (nodes \cup {node}) PROVE Shown(a)'
  <2>1. Good(a)' = Good(a)
    BY <1>0 DEF Good
  <2>2. CASE a \notin DOMAIN dump
    BY <1>0, <1>11, <2>1, <2>2 DEF Inv, DumpInv, Shown
  <2>3. CASE a \in DOMAIN dump
    <3>1. PICK s : s = dump[a]
      OBVIOUS
    <3>2. WellFormed(s) /\ s.uptime # 0 /\ Shows(s, a, Good(a))
      BY <1>11, <2>3, <3>1 DEF Inv, DumpInv, Shown
    <3>3. WellFormed(s)' /\ \A x : Carries(s, x) => Carries(s, x)'
      BY <1>0, <1>2, <3>2, GrownKeeps
    <3>4. dump'[a] = s /\ a \in DOMAIN dump'
      BY <1>0, <2>3, <3>1
    <3>5. \A x \in Good(a) : x.uptime <= s.uptime
      BY <3>2 DEF Shows
    <3>6. s.of = <<a, s.uptime>> /\ \E x \in Good(a) : x.uptime = s.uptime /\ Carries(s, x)'
      BY <3>2, <3>3 DEF Shows
    <3>7. Shows(dump[a], a, Good(a))'
      BY <2>1, <3>4, <3>5, <3>6 DEF Shows, Carries
    <3>8. WellFormed(dump[a])'
      BY <3>3, <3>4 DEF WellFormed
    <3>9. QED
      BY <3>2, <3>4, <3>7, <3>8 DEF Shown
  <2>4. QED
    BY <2>2, <2>3
<1>12. DumpInv'
  BY <1>0, <1>10, <1>11 DEF Inv, DumpInv
<1>13. QED
  BY <1>7, <1>8, <1>12 DEF Inv

\* What is left out is none of the good records.
LEMMA SkipInv ==
    ASSUME Inv, NEW r \in left, Skip(r) PROVE Inv'
<1>0. /\ left' = left \ {r} /\ r.data = Garbled
      /\ UNCHANGED <<tree, nodes, node, last, max, maps, arrays, dump>>
  BY DEF Skip
<1>1. LoopInv' /\ HeapInv'
  BY <1>0 DEF Inv, LoopInv, HeapInv, HeapOK, WellFormed
<1>2. \A a : Good(a)' = Good(a)
  BY <1>0 DEF Good
<1>3. (Good(node) \ left)' = Good(node) \ left
  BY <1>0, <1>2 DEF Good
<1>4. DumpInv'
  BY <1>0, <1>2, <1>3 DEF Inv, DumpInv, Shown, Shows, Carries, WellFormed
<1>5. QED
  BY <1>1, <1>4 DEF Inv

\* The next directory begins with uptime 0, and with no record decoded.
LEMMA NextNodeInv ==
    ASSUME Inv, NEW a \in Agents, NextNode(a) PROVE Inv'
<1>0. /\ node = NoAgent /\ a \in nodes
      /\ nodes' = nodes \ {a} /\ node' = a /\ left' = tree[a]
      /\ max' = [max EXCEPT !.uptime = 0]
      /\ UNCHANGED <<tree, last, maps, arrays, dump>>
  BY DEF NextNode
<1>1. a # NoAgent
  BY AgentsAssumption
<1>2. LoopInv'
  BY <1>0, <1>1 DEF Inv, LoopInv
<1>3. max' \in Specs /\ max'.uptime = 0
      /\ max'.hosts = max.hosts /\ max'.probes = max.probes /\ max'.len = max.len
  BY <1>0 DEF Inv, HeapInv, WellFormed, Specs
<1>4. HeapInv'
  BY <1>0, <1>3 DEF Inv, HeapInv, HeapOK, WellFormed
<1>5. Shows(max, node, Good(node) \ left)'
  <2>1. (Good(node) \ left)' = {}
    BY <1>0 DEF Good
  <2>2. QED
    BY <1>3, <2>1 DEF Shows
<1>6. ASSUME NEW b \in Agents \ (nodes' \cup {node'}) PROVE Shown(b)'
  <2>1. Shown(b)
    BY <1>0, <1>1, <1>6, AgentsAssumption DEF Inv, DumpInv
  <2>2. QED
    BY <1>0, <2>1 DEF Shown, Shows, Carries, WellFormed, Good
<1>7. DumpInv'
  BY <1>0, <1>1, <1>5, <1>6 DEF Inv, DumpInv
<1>8. QED
  BY <1>2, <1>4, <1>7 DEF Inv

\* When all its records are done with, an agent that has been up gets an entry.
LEMMA EndNodeInv ==
    ASSUME Inv, EndNode PROVE Inv'
<1>0. /\ node # NoAgent /\ node \in Agents /\ left = {} /\ node' = NoAgent
      /\ max.uptime = 0 => dump' = dump
      /\ max.uptime # 0 => dump' = [b \in DOMAIN dump \cup {node} |->
                                        IF b = node THEN max ELSE dump[b]]
      /\ UNCHANGED <<tree, nodes, left, last, max, maps, arrays>>
  <2>1. max.uptime > 0 <=> max.uptime # 0
    BY DEF Inv, HeapInv, WellFormed, Specs
  <2>2. QED
    BY <2>1 DEF EndNode, Inv, LoopInv
<1>1. LoopInv' /\ HeapInv'
  <2>1. NoAgent \notin nodes
    BY AgentsAssumption DEF Inv, LoopInv
  <2>2. QED
    BY <1>0, <2>1 DEF Inv, LoopInv, HeapInv, HeapOK, WellFormed
<1>2. Shows(max, node, Good(node)) /\ WellFormed(max)
  <2>1. Good(node) \ left = Good(node)
    BY <1>0
  <2>2. QED
    BY <1>0, <2>1 DEF Inv, DumpInv, HeapInv
<1>3. node \notin DOMAIN dump /\ node \notin nodes
  BY <1>0 DEF Inv, DumpInv, LoopInv
<1>4. ASSUME NEW b \in Agents \ nodes, b # node PROVE Shown(b)'
  <2>1. Shown(b)
    BY <1>4 DEF Inv, DumpInv
  <2>2. (b \in DOMAIN dump' <=> b \in DOMAIN dump) /\ (b \in DOMAIN dump => dump'[b] = dump[b])
    <3>1. CASE b \in DOMAIN dump
      BY <1>0, <1>4, <3>1
    <3>2. CASE b \notin DOMAIN dump
      BY <1>0, <1>4, <3>2
    <3>3. QED
      BY <3>1, <3>2
  <2>3. QED
    BY <1>0, <2>1, <2>2 DEF Shown, Shows, Carries, WellFormed, Good
<1>5. ASSUME NEW b \in Agents, b = node PROVE Shown(b)'
  <2>1. CASE max.uptime = 0
    <3>1. b \notin DOMAIN dump' /\ \A r \in Good(b) : r.uptime = 0
      BY <1>0, <1>2, <1>3, <1>5, <2>1, GoodIs DEF Shows, Inv
    <3>2. QED
      BY <1>0, <3>1 DEF Shown, Good
  <2>2. CASE max.uptime # 0
    <3>1. b \in DOMAIN dump' /\ dump'[b] = max
      BY <1>0, <1>5, <2>2
    <3>2. QED
      BY <1>0, <1>2, <1>5, <2>2, <3>1 DEF Shown, Shows, Carries, WellFormed, Good
  <2>3. QED
    BY <2>1, <2>2
<1>6. DOMAIN dump' \subseteq Agents \ (nodes' \cup {node'})
  <2>1. DOMAIN dump' \subseteq DOMAIN dump \cup {node}
    BY <1>0
  <2>2. QED
    BY <1>0, <1>3, <2>1, AgentsAssumption DEF Inv, DumpInv
<1>7. DumpInv'
  BY <1>0, <1>4, <1>5, <1>6 DEF DumpInv
<1>8. QED
  BY <1>1, <1>7 DEF Inv

LEMMA InvInitially == ASSUME Init PROVE Inv
<1>1. /\ tree \in [Agents -> Directories] /\ nodes = Agents /\ node = NoAgent
      /\ left = {} /\ last = EmptySpec /\ max = EmptySpec
      /\ maps = <<>> /\ arrays = <<>> /\ DOMAIN dump = {}
  BY DEF Init
<1>2. LoopInv
  BY <1>1, AgentsAssumption DEF LoopInv
<1>3. WellFormed(EmptySpec)
  <2>1. Len(<<>>) = 0
    OBVIOUS
  <2>2. EmptySpec \in Specs
    BY DEF EmptySpec, Specs
  <2>3. EmptySpec.hosts = 0 /\ EmptySpec.probes = 0 /\ EmptySpec.len = 0
    BY DEF EmptySpec
  <2>4. QED
    BY <1>1, <2>1, <2>2, <2>3 DEF WellFormed
<1>4. HeapInv
  BY <1>1, <1>3, EmptySeq DEF HeapInv, HeapOK
<1>5. DumpInv
  BY <1>1 DEF DumpInv
<1>6. QED
  BY <1>2, <1>4, <1>5 DEF Inv

LEMMA InvKept == ASSUME Inv, [Next]_vars PROVE Inv'
<1>1. CASE UNCHANGED vars
  BY <1>1 DEF vars, Inv, LoopInv, HeapInv, HeapOK, DumpInv, Shown, Shows, Carries,
              WellFormed, Good
<1>2. CASE Next
  BY <1>2, NextNodeInv, DecodeInv, SkipInv, EndNodeInv DEF Next
<1>3. QED
  BY <1>1, <1>2

\* What the dump shows of an agent, once all directories are done with.
LEMMA ShownIs ==
    ASSUME Inv, Done, NEW a \in Agents
    PROVE  /\ a \in DOMAIN dump <=> Greatest(a) > 0
           /\ a \in DOMAIN dump =>
                 /\ WellFormed(dump[a])
                 /\ dump[a].uptime = Greatest(a)
                 /\ dump[a].of = <<a, Greatest(a)>>
                 /\ Carries(dump[a], Wanted(a))
<1> DEFINE S == {r.uptime : r \in Good(a)} \cup {0}
<1>1. Shown(a)
  BY AgentsAssumption DEF Inv, DumpInv, Done
<1>2. /\ \A r \in Good(a) : r.uptime \in Nat
      /\ \A r, s \in Good(a) : r.uptime = s.uptime => r = s
  BY GoodIs DEF Inv
<1>3. S \in SUBSET Nat
  BY <1>2
<1>4. CASE a \in DOMAIN dump
  <2>1. WellFormed(dump[a]) /\ dump[a].uptime \in Nat /\ dump[a].uptime # 0
          /\ Shows(dump[a], a, Good(a))
    BY <1>1, <1>4, SpecFields DEF Shown
  <2>2. PICK r \in Good(a) : r.uptime = dump[a].uptime /\ Carries(dump[a], r)
    BY <2>1 DEF Shows
  <2>3. r.uptime \in S /\ \A s \in S : s <= r.uptime
    BY <2>1, <2>2 DEF Shows
  <2>4. Greatest(a) = r.uptime
    <3> HIDE DEF S
    <3>1. Max(S) = r.uptime
      BY <1>3, <2>3, MaxIs
    <3>2. QED
      BY <3>1 DEF Greatest, S
  <2>5. Wanted(a) = r
    BY <1>2, <2>4 DEF Wanted
  <2>6. QED
    BY <1>4, <2>1, <2>2, <2>4, <2>5 DEF Shows
<1>5. CASE a \notin DOMAIN dump
  <2>1. \A s \in S : s <= 0
    BY <1>1, <1>5 DEF Shown
  <2>2. Max(S) = 0
    <3>1. 0 \in S
      OBVIOUS
    <3> HIDE DEF S
    <3>2. QED
      BY <1>3, <2>1, <3>1, MaxIs
  <2>3. QED
    BY <1>5, <2>2 DEF Greatest
<1>6. QED
  BY <1>4, <1>5

\* In whatever order etcd lists directories and records, exactly the agents with
\* a positive uptime are in the dump, each with the plain fields of its record
\* of the greatest uptime.
THEOREM LatestShown == Spec => []LatestIsShown
<1>1. Inv => LatestIsShown
  <2> SUFFICES ASSUME Inv, Done
               PROVE  /\ DOMAIN dump = {a \in Agents : Greatest(a) > 0}
                      /\ \A a \in DOMAIN dump : /\ dump[a].uptime = Greatest(a)
                                                /\ dump[a].of = <<a, Greatest(a)>>
    BY DEF LatestIsShown
  <2>1. DOMAIN dump \subseteq Agents
    BY DEF Inv, DumpInv
  <2>2. QED
    BY <2>1, ShownIs
<1>2. QED
  BY <1>1, InvInitially, InvKept, PTL DEF Spec

\* However the agents' entries share maps and arrays, none loses a host or the
\* number of its probe results.
THEOREM DumpCovers == Spec => []DumpCoversRecord
<1>1. Inv => DumpCoversRecord
  <2> SUFFICES ASSUME Inv, Done, NEW a \in DOMAIN dump
               PROVE  /\ Wanted(a).data.hosts # NoMap =>
                            Wanted(a).data.hosts \subseteq DOMAIN Hosts(dump[a])
                      /\ Len(Probes(dump[a])) = Wanted(a).data.probes
    BY DEF DumpCoversRecord
  <2>1. a \in Agents
    BY DEF Inv, DumpInv
  <2>2. PICK s : s = dump[a]
    OBVIOUS
  <2>3. WellFormed(s) /\ Carries(s, Wanted(a))
    BY <2>1, <2>2, ShownIs
  <2>4. Wanted(a).data.hosts # NoMap =>
           Wanted(a).data.hosts \subseteq DOMAIN Hosts(s)
    BY <2>3 DEF Carries, Hosts
  <2>5. Len(Probes(s)) = s.len
    <3>1. /\ s.len \in Nat /\ s.probes \in Nat /\ s.probes <= Len(arrays)
          /\ s.len <= Len(IF s.probes = 0 THEN <<>> ELSE arrays[s.probes])
          /\ Len(<<>>) = 0
      BY <2>3 DEF WellFormed, Specs
    <3>2. CASE s.probes = 0
      BY <3>1, <3>2 DEF Probes
    <3>3. CASE s.probes # 0
      <4>1. /\ arrays[s.probes] \in Seq(Cells)
            /\ Len(arrays[s.probes]) \in Nat
        BY <3>1, <3>3, HeapLengths DEF Inv, HeapInv
      <4>2. \A i \in 1..s.len : arrays[s.probes][i] \in Cells
        BY <3>1, <3>3, <4>1, ElementOfSeq
      <4>3. Len(SubSeq(arrays[s.probes], 1, s.len)) = s.len
        BY <3>1, <4>2, SubSeqProperties
      <4>4. QED
        BY <3>3, <4>3 DEF Probes
    <3>4. QED
      BY <3>2, <3>3
  <2>6. QED
    BY <2>2, <2>3, <2>4, <2>5 DEF Carries
<1>2. QED
  BY <1>1, InvInitially, InvKept, PTL DEF Spec

===============================================================================
