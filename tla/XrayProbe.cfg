\* Two slots and two ports, so that ports are shared and reused; Xray may never
\* open its port.
CONSTANTS
  Probers = {p1, p2}
  Routes = {dead, alive}
  Working = {alive}
  Ports = {n1, n2}
  Nobody = Nobody
SPECIFICATION FairSpec
INVARIANTS TypeOK NoLeftoverXray
PROPERTIES AloneIsOwnVerdict ProbesEnd
