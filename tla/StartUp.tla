------------------------------- MODULE StartUp -------------------------------
(***************************************************************************)
(* How a server comes up: cmd/server.go main, NewHandler, NewK8sStorer and *)
(* NewEtcdStorer, and how it gets up again.  No step is tried twice by the *)
(* process itself: a failed one ends it, and Kubernetes starts the pod's   *)
(* container anew.  During an upgrade the servers of two pods come up side *)
(* by side; they share what the API server keeps.                          *)
(*                                                                         *)
(* EtcdAgentStorage and K8sAgentStorage begin where this module ends: what *)
(* is one step there (Start, Crash) is taken apart here.                   *)
(***************************************************************************)
EXTENDS Naturals

CONSTANTS Servers,     \* the server's pods
          MaxTrouble   \* bound on failures and ends of processes together

ASSUME MaxTroubleAssumption == MaxTrouble \in Nat

VARIABLES useKubeClient,  \* -kubeproxyinit, the same for all servers
          pc,             \* pc[s]: how far the process of s has come
          crd,            \* is there the CustomResourceDefinition of agents
          trouble         \* how many failures and ends there have been

vars == <<useKubeClient, pc, crd, trouble>>

-----------------------------------------------------------------------------
(* The steps of main.                                                      *)

Goto(s, label) == pc' = [pc EXCEPT ![s] = label]

\* The process is gone, by panic, by glog.Fatalf, or killed.
Exit(s) == Goto(s, "down")

Fail(s) == /\ trouble < MaxTrouble
           /\ trouble' = trouble + 1
           /\ Exit(s)

Succeed(s, label) == Goto(s, label) /\ UNCHANGED trouble

\* Flags are read, and NewHandler goes for the storage that they select.
Main(s) == /\ pc[s] = "down"
           /\ Succeed(s, IF useKubeClient THEN "connect" ELSE "keys")
           /\ UNCHANGED <<useKubeClient, crd>>

\* NewEtcdStorer: the key pair, if there is to be one, and the etcd client.
LoadKeys(s) == /\ pc[s] = "keys"
               /\ Succeed(s, "ping") \/ Fail(s)
               /\ UNCHANGED <<useKubeClient, crd>>

\* PingETCD: an error, and likewise no answer within -ping-timeout, ends main.
PingETCD(s) == /\ pc[s] = "ping"
               /\ Succeed(s, "connect") \/ Fail(s)
               /\ UNCHANGED <<useKubeClient, crd>>

\* connect2k8s: the configuration of the cluster and the client sets.
Connect(s) == /\ pc[s] = "connect"
              /\ \/ Succeed(s, IF useKubeClient THEN "create" ELSE "listen")
                 \/ Fail(s)
              /\ UNCHANGED <<useKubeClient, crd>>

\* Variant to be rejected: that the definition exists is an error as any other.
CreateOnce(s) ==
    /\ pc[s] = "create"
    /\ \/ ~crd /\ crd' = TRUE /\ (Succeed(s, "wrap") \/ Fail(s))
       \/ crd /\ Exit(s) /\ UNCHANGED <<crd, trouble>>
       \/ Fail(s) /\ UNCHANGED crd
    /\ UNCHANGED useKubeClient

\* Variant to be rejected: whatever the error, main goes on.
CreateOrNot(s) ==
    /\ pc[s] = "create"
    /\ crd' \in {crd, TRUE}
    /\ Succeed(s, "wrap")
    /\ UNCHANGED useKubeClient

\* CreateAgentCustomResourceDefinition.  A definition that exists is as good as
\* a new one; the answer to a creation may be lost, and the process with it.
CreateResource(s) ==
    /\ pc[s] = "create"
    /\ \/ crd' = TRUE /\ (Succeed(s, "wrap") \/ Fail(s))
       \/ UNCHANGED crd /\ Fail(s)
    /\ UNCHANGED useKubeClient

\* WrapClientsetWithExtensions: the client of the agents' resource.
WrapClientset(s) == /\ pc[s] = "wrap"
                    /\ Succeed(s, "listen") \/ Fail(s)
                    /\ UNCHANGED <<useKubeClient, crd>>

\* Router and middleware are set up, the collector's goroutine is started, and
\* http.ListenAndServe returns nothing but errors.
Listen(s) == /\ pc[s] = "listen"
             /\ Succeed(s, "up") \/ Fail(s)
             /\ UNCHANGED <<useKubeClient, crd>>

\* The process may end at any step.
Crash(s) == /\ pc[s] # "down"
            /\ Fail(s)
            /\ UNCHANGED <<useKubeClient, crd>>

-----------------------------------------------------------------------------

Init == /\ useKubeClient \in BOOLEAN
        /\ pc = [s \in Servers |-> "down"]
        /\ crd \in BOOLEAN
        /\ trouble = 0

Step(s) == \/ Main(s)
           \/ LoadKeys(s)
           \/ PingETCD(s)
           \/ Connect(s)
           \/ CreateResource(s)
           \/ WrapClientset(s)
           \/ Listen(s)

Next == \E s \in Servers : Step(s) \/ Crash(s)

Spec == Init /\ [][Next]_vars

\* A process runs, and Kubernetes starts one that has ended.
FairSpec == Spec /\ \A s \in Servers : WF_vars(Step(s))

-----------------------------------------------------------------------------
(* Properties.                                                             *)

Pcs == {"down", "keys", "ping", "connect", "create", "wrap", "listen", "up"}

\* Every variable holds what its comment says.
TypeOK == /\ useKubeClient \in BOOLEAN
          /\ pc \in [Servers -> Pcs]
          /\ crd \in BOOLEAN
          /\ trouble \in 0..MaxTrouble

\* A server in Kubernetes mode answers requests only when there is a resource
\* to keep agents in, although a server goes on past an error of the creation,
\* and although it may be another server, or an earlier process, that made it.
ServesOnResource ==
    \A s \in Servers : pc[s] = "up" /\ useKubeClient => crd

\* However the start of a server has failed, half done or with its answer lost,
\* and whatever another server has done first, it gets up again in the end.
GetsUpAgain == \A s \in Servers : []<>(pc[s] = "up")

===============================================================================
