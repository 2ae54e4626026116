----------------------------- MODULE XrayProbe -----------------------------
(***************************************************************************)
(* XrayChecker.Probe of internal/verify/xray.go, as the slots of           *)
(* Runner.check call it side by side: each slot probes one route after     *)
(* another, with an Xray process of its own behind a SOCKS port of the     *)
(* loopback interface, which all slots share.                              *)
(***************************************************************************)
EXTENDS Naturals, FiniteSets

CONSTANTS
  Probers,   \* the slots
  Routes,    \* the routes they probe
  Working,   \* the routes through which YouTube answers
  Ports,     \* free ports of the loopback interface
  Nobody     \* a port nothing listens on

ASSUME ProbeAssumption ==
  /\ Working \subseteq Routes
  /\ Nobody \notin Probers

VARIABLES
  pc,       \* where Probe is, for each slot
  route,    \* the server of the call
  port,     \* what freePort returned
  xray,     \* the Xray process of the call
  listener, \* whose Xray listens on each port
  expired,  \* the contexts that are done
  verdict   \* how the last call of each slot ended

vars == <<pc, route, port, xray, listener, expired, verdict>>

Init ==
  /\ pc = [p \in Probers |-> "idle"]
  /\ route \in [Probers -> Routes]
  /\ port \in [Probers -> Ports]
  /\ xray = [p \in Probers |-> "none"]
  /\ listener = [n \in Ports |-> Nobody]
  /\ expired = [p \in Probers |-> FALSE]
  /\ verdict = [p \in Probers |-> "none"]

-----------------------------------------------------------------------------
\* Mutant of PickPort: the port 0 of the address asked for is returned.
PickPortZero(p) ==
  /\ pc[p] = "idle"
  /\ \E r \in Routes : route' = [route EXCEPT ![p] = r]
  /\ port' = [port EXCEPT ![p] = 0]
  /\ pc' = [pc EXCEPT ![p] = "start"]
  /\ verdict' = [verdict EXCEPT ![p] = "none"]
  /\ UNCHANGED <<xray, listener, expired>>

\* A call begins; freePort binds a port nobody listens on and closes it again,
\* so that nothing holds it until Xray binds it.
PickPort(p) ==
  /\ pc[p] = "idle"
  /\ \E r \in Routes : route' = [route EXCEPT ![p] = r]
  /\ \E n \in Ports : listener[n] = Nobody /\ port' = [port EXCEPT ![p] = n]
  /\ pc' = [pc EXCEPT ![p] = "start"]
  /\ verdict' = [verdict EXCEPT ![p] = "none"]
  /\ UNCHANGED <<xray, listener, expired>>

StartXray(p) ==
  /\ pc[p] = "start"
  /\ ~expired[p]
  /\ pc' = [pc EXCEPT ![p] = "wait"]
  /\ xray' = [xray EXCEPT ![p] = "starting"]
  /\ UNCHANGED <<route, port, listener, expired, verdict>>

\* The process binds its port, or exits because another one has it.
XrayBinds(p) ==
  /\ xray[p] = "starting"
  /\ IF listener[port[p]] = Nobody
       THEN /\ listener' = [listener EXCEPT ![port[p]] = p]
            /\ xray' = [xray EXCEPT ![p] = "listening"]
       ELSE /\ xray' = [xray EXCEPT ![p] = "exited"]
            /\ UNCHANGED listener
  /\ UNCHANGED <<pc, route, port, expired, verdict>>

\* waitForSocks: whoever listens accepts the connection.
Connect(p) ==
  /\ pc[p] = "wait"
  /\ ~expired[p]
  /\ listener[port[p]] # Nobody
  /\ pc' = [pc EXCEPT ![p] = "youtube"]
  /\ UNCHANGED <<route, port, xray, listener, expired, verdict>>

Released(p) ==
  [n \in Ports |-> IF listener[n] = p THEN Nobody ELSE listener[n]]

\* An Xray that fails by itself, before or after it opened its port.
XrayExits(p) ==
  /\ xray[p] \in {"starting", "listening"}
  /\ xray' = [xray EXCEPT ![p] = "exited"]
  /\ listener' = Released(p)
  /\ UNCHANGED <<pc, route, port, expired, verdict>>

\* requireYouTube204, through the tunnel behind the port: it may fail even where
\* the tunnel works.  The trace of the exit country that follows goes the same
\* way and decides nothing here.
Answers(n) == listener[n] # Nobody /\ route[listener[n]] \in Working

RequestYouTube(p) ==
  /\ pc[p] = "youtube"
  /\ \E v \in {"passed", "failed"} :
       /\ v = "passed" => Answers(port[p]) /\ ~expired[p]
       /\ verdict' = [verdict EXCEPT ![p] = v]
  /\ pc' = [pc EXCEPT ![p] = "kill"]
  /\ UNCHANGED <<route, port, xray, listener, expired>>

\* Mutant of ReturnError: the wait for the port does not look at the context.
ReturnEarlyError(p) ==
  /\ pc[p] = "start"
  /\ verdict' = [verdict EXCEPT ![p] = "failed"]
  /\ pc' = [pc EXCEPT ![p] = "kill"]
  /\ UNCHANGED <<route, port, xray, listener, expired>>

\* An early return: an error before Xray runs, or a context that is done while
\* Probe waits for the port.
ReturnError(p) ==
  /\ pc[p] = "start" \/ (pc[p] = "wait" /\ expired[p])
  /\ verdict' = [verdict EXCEPT ![p] = "failed"]
  /\ pc' = [pc EXCEPT ![p] = "kill"]
  /\ UNCHANGED <<route, port, xray, listener, expired>>

\* Mutant of Kill: the process is left alone.
KillNothing(p) ==
  /\ pc[p] = "kill"
  /\ expired' = [expired EXCEPT ![p] = FALSE]
  /\ pc' = [pc EXCEPT ![p] = "idle"]
  /\ UNCHANGED <<route, port, xray, listener, verdict>>

\* The deferred Kill and Wait, and cancel of the context.
Kill(p) ==
  /\ pc[p] = "kill"
  /\ xray' = [xray EXCEPT ![p] = "none"]
  /\ listener' = Released(p)
  /\ expired' = [expired EXCEPT ![p] = FALSE]
  /\ pc' = [pc EXCEPT ![p] = "idle"]
  /\ UNCHANGED <<route, port, verdict>>

\* The ten seconds of the attempt or the deadline of the refresh; the process
\* of exec.CommandContext is killed with its context.
Expire(p) ==
  /\ pc[p] # "idle"
  /\ ~expired[p]
  /\ expired' = [expired EXCEPT ![p] = TRUE]
  /\ xray' = [xray EXCEPT ![p] = IF @ = "none" THEN @ ELSE "exited"]
  /\ listener' = Released(p)
  /\ UNCHANGED <<pc, route, port, verdict>>

ProbeStep(p) ==
  \/ StartXray(p) \/ Connect(p) \/ RequestYouTube(p) \/ ReturnError(p) \/ Kill(p)

Next ==
  \E p \in Probers :
    PickPort(p) \/ XrayBinds(p) \/ XrayExits(p) \/ Expire(p) \/ ProbeStep(p)

Spec == Init /\ [][Next]_vars

\* The goroutine of a call runs, and its context has a timeout.  Xray need not
\* ever bind the port.
FairSpec ==
  Spec /\ \A p \in Probers : WF_vars(ProbeStep(p)) /\ WF_vars(Expire(p))

-----------------------------------------------------------------------------
(* Properties.                                                             *)

TypeOK ==
  /\ pc \in [Probers -> {"idle", "start", "wait", "youtube", "kill"}]
  /\ route \in [Probers -> Routes]
  /\ port \in [Probers -> Ports]
  /\ xray \in [Probers -> {"none", "starting", "listening", "exited"}]
  /\ listener \in [Ports -> Probers \cup {Nobody}]
  /\ expired \in [Probers -> BOOLEAN]
  /\ verdict \in [Probers -> {"none", "passed", "failed"}]

\* No Xray outlives the call that started it, nor keeps its port: what listens
\* is the live process of a call in progress.
NoLeftoverXray ==
  /\ \A p \in Probers : pc[p] = "idle" => xray[p] = "none"
  /\ \A n \in Ports : listener[n] # Nobody =>
       port[listener[n]] = n /\ xray[listener[n]] = "listening"

\* A call that shares its port with no other reports its own route: it passes
\* only if YouTube answers through that route.
Alone(p) == \A q \in Probers \ {p} : pc[q] = "idle" \/ port[q] # port[p]
Passes(p) == verdict[p] # "passed" /\ verdict'[p] = "passed"

AloneIsOwnVerdict ==
  [][\A p \in Probers : Passes(p) /\ Alone(p) => route[p] \in Working]_vars

\* Every call returns, even if its Xray never opens the port.
ProbesEnd == \A p \in Probers : pc[p] # "idle" ~> pc[p] = "idle"

\* A route passes only after a YouTube request crossed its own tunnel (the
\* comment before requireYouTube204 in Probe).
PassedThroughOwnTunnel ==
  \A p \in Probers : verdict[p] = "passed" => route[p] \in Working
=============================================================================
