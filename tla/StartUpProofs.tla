---------------------------- MODULE StartUpProofs ----------------------------
(* Proofs of the safety properties of StartUp, for any number of servers.  *)
EXTENDS StartUp, TLAPS

\* Past the creation, in Kubernetes mode, the definition is there: that is what
\* makes ServesOnResource inductive.
Past(s) == useKubeClient /\ pc[s] \in {"wrap", "listen", "up"} => crd

\* In etcd mode no server gets to the creation.
Inv == /\ TypeOK
       /\ \A s \in Servers : Past(s)
       /\ \A s \in Servers : pc[s] \in {"create", "wrap"} => useKubeClient

\* What all servers have in common at the beginning.
LEMMA InvInit == Init => Inv
  BY MaxTroubleAssumption DEF Init, Inv, TypeOK, Past, Pcs

\* A failed step, wherever it is, only takes the server's process away.
LEMMA FailKeepsInv ==
  ASSUME Inv, NEW s \in Servers, Fail(s), crd => crd', crd' \in BOOLEAN,
         UNCHANGED useKubeClient
  PROVE  Inv'
<1>1. /\ pc' = [pc EXCEPT ![s] = "down"]
      /\ pc \in [Servers -> Pcs]
  BY DEF Fail, Exit, Goto, Inv, TypeOK
<1>2. trouble' \in 0..MaxTrouble
  BY MaxTroubleAssumption DEF Inv, TypeOK, Fail
<1>3. \A t \in Servers : pc'[t] = "down" \/ pc'[t] = pc[t]
  BY <1>1
<1>4. pc' \in [Servers -> Pcs]
  BY <1>1 DEF Pcs
<1>5. TypeOK'
  BY <1>2, <1>4 DEF Inv, TypeOK
<1>6. \A t \in Servers : Past(t)'
  BY <1>3 DEF Inv, Past
<1>7. \A t \in Servers : pc'[t] \in {"create", "wrap"} => useKubeClient'
  BY <1>3 DEF Inv
<1>8. QED
  BY <1>5, <1>6, <1>7 DEF Inv

\* A step that succeeds takes one server to the next label, which must be one
\* at which Inv allows it to be.
LEMMA SuccessKeepsInv ==
  ASSUME Inv, NEW s \in Servers, NEW label \in Pcs, Succeed(s, label),
         crd => crd', crd' \in BOOLEAN, UNCHANGED useKubeClient,
         useKubeClient /\ label \in {"wrap", "listen", "up"} => crd',
         label \in {"create", "wrap"} => useKubeClient
  PROVE  Inv'
<1>1. /\ pc' = [pc EXCEPT ![s] = label]
      /\ pc \in [Servers -> Pcs]
      /\ UNCHANGED trouble
  BY DEF Succeed, Goto, Inv, TypeOK
<1>2. \A t \in Servers : pc'[t] = IF t = s THEN label ELSE pc[t]
  BY <1>1
<1>3. TypeOK'
  BY <1>1 DEF Inv, TypeOK
<1>4. \A t \in Servers : Past(t)'
  BY <1>2 DEF Inv, Past
<1>5. \A t \in Servers : pc'[t] \in {"create", "wrap"} => useKubeClient'
  BY <1>2 DEF Inv
<1>6. QED
  BY <1>3, <1>4, <1>5 DEF Inv

\* Every step of a server keeps Inv: it fails, or it succeeds with a label that
\* Inv allows.
LEMMA StepKeepsInv == ASSUME Inv, NEW s \in Servers, Step(s) PROVE Inv'
<1> USE DEF Pcs
<1>1. CASE Main(s)
  BY <1>1, SuccessKeepsInv DEF Main, Inv, TypeOK
<1>2. CASE LoadKeys(s)
  BY <1>2, SuccessKeepsInv, FailKeepsInv DEF LoadKeys, Inv, TypeOK
<1>3. CASE PingETCD(s)
  BY <1>3, SuccessKeepsInv, FailKeepsInv DEF PingETCD, Inv, TypeOK
<1>4. CASE Connect(s)
  BY <1>4, SuccessKeepsInv, FailKeepsInv DEF Connect, Inv, TypeOK
<1>5. CASE CreateResource(s)
  <2>1. CASE crd' = TRUE /\ Succeed(s, "wrap")
    BY <1>5, <2>1, SuccessKeepsInv DEF CreateResource, Inv
  <2>2. CASE crd' = TRUE /\ Fail(s)
    BY <1>5, <2>2, FailKeepsInv DEF CreateResource
  <2>3. CASE UNCHANGED crd /\ Fail(s)
    BY <1>5, <2>3, FailKeepsInv DEF CreateResource, Inv, TypeOK
  <2>4. QED
    BY <1>5, <2>1, <2>2, <2>3 DEF CreateResource
<1>6. CASE WrapClientset(s)
  <2>1. useKubeClient /\ crd
    BY <1>6 DEF WrapClientset, Inv, Past
  <2>2. QED
    BY <1>6, <2>1, SuccessKeepsInv, FailKeepsInv DEF WrapClientset, Inv, TypeOK
<1>7. CASE Listen(s)
  <2>1. useKubeClient => crd
    BY <1>7 DEF Listen, Inv, Past
  <2>2. QED
    BY <1>7, <2>1, SuccessKeepsInv, FailKeepsInv DEF Listen, Inv, TypeOK
<1>8. QED
  BY <1>1, <1>2, <1>3, <1>4, <1>5, <1>6, <1>7 DEF Step

\* Nor does the end of a process disturb it.
LEMMA InvNext == Inv /\ [Next]_vars => Inv'
<1> SUFFICES ASSUME Inv, [Next]_vars PROVE Inv'
  OBVIOUS
<1>1. CASE UNCHANGED vars
  BY <1>1 DEF vars, Inv, TypeOK, Past
<1>2. ASSUME NEW s \in Servers, Crash(s) PROVE Inv'
  BY <1>2, FailKeepsInv DEF Crash, Inv, TypeOK
<1>3. QED
  BY <1>1, <1>2, StepKeepsInv DEF Next

\* For any number of servers and of failures, in either mode: a server in
\* Kubernetes mode that has come up (ListenAndServe in main) has the resource
\* that connect2k8s was to create, whoever created it.
THEOREM UpMeansResource == Spec => []ServesOnResource
<1>1. Inv => ServesOnResource
  BY DEF Inv, Past, ServesOnResource
<1>2. QED
  BY InvInit, InvNext, <1>1, PTL DEF Spec

===============================================================================
