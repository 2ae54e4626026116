\* Two slots that were given the same port.
CONSTANTS
  Probers = {p1, p2}
  Routes = {dead, alive}
  Working = {alive}
  Ports = {n1, n2}
  Nobody = Nobody
SPECIFICATION Spec
INVARIANTS PassedThroughOwnTunnel
