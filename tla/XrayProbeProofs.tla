-------------------------- MODULE XrayProbeProofs --------------------------
(* The cleanup of probes, and the verdict of a probe that has its port to   *)
(* itself, for any number of slots, routes and ports.                       *)
EXTENDS XrayProbe, TLAPS

\* A call has no process before StartXray and after Kill; what listens is the
\* live process of a call on the port of that call.
ProcessInv ==
  /\ \A p \in Probers : pc[p] \in {"idle", "start"} => xray[p] = "none"
  /\ \A n \in Ports : listener[n] # Nobody =>
       port[listener[n]] = n /\ xray[listener[n]] = "listening"

ProbeInv == TypeOK /\ ProcessInv

LEMMA ProbeInit == Init => ProbeInv
  BY DEF Init, ProbeInv, TypeOK, ProcessInv

LEMMA ProbeTypes == TypeOK /\ [Next]_vars => TypeOK'
<1> SUFFICES ASSUME TypeOK, [Next]_vars PROVE TypeOK'
  OBVIOUS
<1> USE DEF TypeOK
<1>1. ASSUME NEW p \in Probers, PickPort(p) PROVE TypeOK'
  BY <1>1 DEF PickPort
<1>2. ASSUME NEW p \in Probers, XrayBinds(p) PROVE TypeOK'
  BY <1>2 DEF XrayBinds
<1>3. ASSUME NEW p \in Probers, XrayExits(p) PROVE TypeOK'
  BY <1>3 DEF XrayExits, Released
<1>4. ASSUME NEW p \in Probers, Expire(p) PROVE TypeOK'
  BY <1>4 DEF Expire, Released
<1>5. ASSUME NEW p \in Probers, StartXray(p) PROVE TypeOK'
  BY <1>5 DEF StartXray
<1>6. ASSUME NEW p \in Probers, Connect(p) PROVE TypeOK'
  BY <1>6 DEF Connect
<1>7. ASSUME NEW p \in Probers, RequestYouTube(p) PROVE TypeOK'
  BY <1>7 DEF RequestYouTube
<1>8. ASSUME NEW p \in Probers, ReturnError(p) PROVE TypeOK'
  BY <1>8 DEF ReturnError
<1>9. ASSUME NEW p \in Probers, Kill(p) PROVE TypeOK'
  BY <1>9 DEF Kill, Released
<1>10. CASE UNCHANGED vars
  BY <1>10 DEF vars
<1> QED BY <1>1, <1>2, <1>3, <1>4, <1>5, <1>6, <1>7, <1>8, <1>9, <1>10
        DEF Next, ProbeStep

LEMMA ProbeProcesses == ProbeInv /\ [Next]_vars => ProcessInv'
<1> SUFFICES ASSUME TypeOK, ProcessInv, [Next]_vars PROVE ProcessInv'
  BY DEF ProbeInv
<1> USE ProbeAssumption DEF TypeOK, ProcessInv
\* The process of an idle call is gone, so nothing listens for the call whose
\* port changes.
<1>1. ASSUME NEW p \in Probers, PickPort(p) PROVE ProcessInv'
  BY <1>1 DEF PickPort
<1>2. ASSUME NEW p \in Probers, XrayBinds(p) PROVE ProcessInv'
  BY <1>2 DEF XrayBinds
<1>3. ASSUME NEW p \in Probers, XrayExits(p) PROVE ProcessInv'
  BY <1>3 DEF XrayExits, Released
<1>4. ASSUME NEW p \in Probers, Expire(p) PROVE ProcessInv'
  BY <1>4 DEF Expire, Released
<1>5. ASSUME NEW p \in Probers, StartXray(p) PROVE ProcessInv'
  BY <1>5 DEF StartXray
<1>6. ASSUME NEW p \in Probers, Connect(p) PROVE ProcessInv'
  BY <1>6 DEF Connect
<1>7. ASSUME NEW p \in Probers, RequestYouTube(p) PROVE ProcessInv'
  BY <1>7 DEF RequestYouTube
<1>8. ASSUME NEW p \in Probers, ReturnError(p) PROVE ProcessInv'
  BY <1>8 DEF ReturnError
<1>9. ASSUME NEW p \in Probers, Kill(p) PROVE ProcessInv'
  BY <1>9 DEF Kill, Released
<1>10. CASE UNCHANGED vars
  BY <1>10 DEF vars
<1> QED BY <1>1, <1>2, <1>3, <1>4, <1>5, <1>6, <1>7, <1>8, <1>9, <1>10
        DEF Next, ProbeStep

\* ProcessInv with the type invariant is kept by every step of every probe.
THEOREM ProbeInvHolds == Spec => []ProbeInv
<1>1. ProbeInv /\ [Next]_vars => ProbeInv'
  BY ProbeTypes, ProbeProcesses DEF ProbeInv
<1> QED BY ProbeInit, <1>1, PTL DEF Spec

\* A call of Probe keeps its types, whatever the Xray processes beside it do.
THEOREM ProbeTypeCorrect == Spec => []TypeOK
<1>1. ProbeInv => TypeOK
  BY DEF ProbeInv
<1> QED BY ProbeInvHolds, <1>1, PTL

\* No Xray outlives the call of Probe that started it, nor keeps a port.
THEOREM NoXrayIsLeftOver == Spec => []NoLeftoverXray
<1>1. ProbeInv => NoLeftoverXray
  BY DEF ProbeInv, ProcessInv, NoLeftoverXray
<1> QED BY ProbeInvHolds, <1>1, PTL

\* A call of Probe whose port no other call has at the time passes only if
\* YouTube answers through its own route.  What listens on the port belongs to
\* a call in progress with that port, which is then this one.
THEOREM AloneJudgesItself == Spec => AloneIsOwnVerdict
<1> DEFINE Own(p) == Passes(p) /\ Alone(p) => route[p] \in Working
<1>1. ProbeInv /\ [Next]_vars => [\A p \in Probers : Own(p)]_vars
  <2> SUFFICES ASSUME ProbeInv, Next, NEW p \in Probers, Passes(p), Alone(p)
               PROVE  route[p] \in Working
    OBVIOUS
  <2> USE DEF ProbeInv, TypeOK
  <2>1. RequestYouTube(p)
    <3>1. PICK q \in Probers :
            PickPort(q) \/ XrayBinds(q) \/ XrayExits(q) \/ Expire(q) \/ ProbeStep(q)
      BY DEF Next
    <3>2. CASE RequestYouTube(q)
      BY <3>2 DEF RequestYouTube, Passes
    <3>3. CASE PickPort(q) \/ ReturnError(q)
      BY <3>3 DEF PickPort, ReturnError, Passes
    <3>4. CASE \/ XrayBinds(q) \/ XrayExits(q) \/ Expire(q)
               \/ StartXray(q) \/ Connect(q) \/ Kill(q)
      BY <3>4 DEF XrayBinds, XrayExits, Expire, StartXray, Connect, Kill, Passes
    <3> QED BY <3>1, <3>2, <3>3, <3>4 DEF ProbeStep
  <2>2. Answers(port[p])
    BY <2>1 DEF RequestYouTube, Passes
  <2> DEFINE owner == listener[port[p]]
  <2>3. owner \in Probers /\ route[owner] \in Working
    BY <2>2 DEF Answers
  <2>4. port[owner] = port[p] /\ pc[owner] # "idle"
    BY <2>2, <2>3 DEF Answers, ProcessInv
  <2>5. owner = p
    BY <2>3, <2>4 DEF Alone
  <2> QED BY <2>3, <2>5
<1> QED BY ProbeInvHolds, <1>1, PTL DEF AloneIsOwnVerdict, Spec
=============================================================================
