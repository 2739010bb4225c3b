--------------------------- MODULE ConditionalStore ---------------------------
(***************************************************************************)
(* What the Kubernetes storage of the server promises about the persisted  *)
(* reports, with no resource versions in sight: a writer must first take a *)
(* reservation on the key, and its write is carried out only while the     *)
(* reservation still stands.  A write carried out by anyone ends every     *)
(* reservation on that key, so no report that reached the store is ever    *)
(* replaced by a writer that had not looked at the store since.            *)
(***************************************************************************)

CONSTANTS Clients,    \* who writes
          Keys,       \* what is written
          Values,     \* what a key may hold once it was written
          NoValue     \* what a key holds before

VARIABLES value,      \* value[k]: what the store holds under k
          holders     \* holders[k]: the clients with a standing reservation

vars == <<value, holders>>

TypeOK == /\ value \in [Keys -> Values \cup {NoValue}]
          /\ holders \in [Keys -> SUBSET Clients]

Init == /\ value = [k \in Keys |-> NoValue]
        /\ holders = [k \in Keys |-> {}]

\* c looks the key up and may write it from now on.
Reserve(c, k) == /\ holders' = [holders EXCEPT ![k] = @ \cup {c}]
                 /\ UNCHANGED value

\* The write of a client that still holds the key.
Commit(c, k, v) == /\ c \in holders[k]
                   /\ value' = [value EXCEPT ![k] = v]
                   /\ holders' = [holders EXCEPT ![k] = {}]

\* Clients give up, or are refused, or die: reservations end, nothing else.
Release == /\ holders' \in [Keys -> SUBSET Clients]
           /\ \A k \in Keys : holders'[k] \subseteq holders[k]
           /\ UNCHANGED value

Next == \/ \E c \in Clients, k \in Keys : Reserve(c, k)
        \/ \E c \in Clients, k \in Keys, v \in Values : Commit(c, k, v)
        \/ Release

Spec == Init /\ [][Next]_vars

===============================================================================
