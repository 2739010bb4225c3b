---------------------------- MODULE ForgetfulStore ----------------------------
(***************************************************************************)
(* What the etcd storage is to promise of its time to live: a key holds a  *)
(* set of entries, each stamped with the time at which it came in, and     *)
(* loses none of them before its time to live is over.                     *)
(*                                                                         *)
(* Nothing is said of directories, records or requests, nor when an entry  *)
(* that is due is really lost.                                             *)
(***************************************************************************)
EXTENDS Naturals

CONSTANTS Keys,   \* the keys
          TTL     \* the time to live of an entry

VARIABLES now,    \* the clock
          held    \* held[k]: the stamps of the entries of k

vars == <<now, held>>

Tick == /\ now' = now + 1
        /\ UNCHANGED held

\* An entry may come in late, never early.
Store(k, stamp) ==
    /\ stamp \in 1..now
    /\ held' = [held EXCEPT ![k] = @ \cup {stamp}]
    /\ UNCHANGED now

Lose(k, lost) ==
    /\ lost \subseteq held[k]
    /\ \A stamp \in lost : stamp + TTL <= now
    /\ held' = [held EXCEPT ![k] = @ \ lost]
    /\ UNCHANGED now

Init == /\ now = 1
        /\ held = [k \in Keys |-> {}]

Next == \/ Tick
        \/ \E k \in Keys : \E stamp \in 1..now : Store(k, stamp)
        \/ \E k \in Keys : \E lost \in SUBSET held[k] : Lose(k, lost)

Spec == Init /\ [][Next]_vars

===============================================================================
