---------------------------- MODULE MCConfigSync ----------------------------
(* A password, one with a %, a CA, and three client credentials, two of which *)
(* share a certificate but not its key; a setting that concerns the network   *)
(* and one that does not may differ from the initial ones.                    *)
EXTENDS ConfigSync

CONSTANTS n1, n2, i1, i2, pw, px, ca1, c1, c2, k1, k2, k3, p1, p2, p3, s1, s2

MCNets == {n1, n2}
MCPlains == {i1, i2}
MCSettings == {[net |-> n1, plain |-> i1], [net |-> n2, plain |-> i1], [net |-> n1, plain |-> i2]}
MCPasswords == {pw, px}
MCUnstorable == {px}
MCCAs == {ca1}
MCCerts == {c1, c2}
MCKeys == {k1, k2, k3}
MCPhrases == {p1, p2, p3}
MCClients == {[cert |-> c1, key |-> k1, pass |-> p1], [cert |-> c1, key |-> k2, pass |-> p2],
              [cert |-> c2, key |-> k3, pass |-> p3]}
MCServerCerts == {s1, s2}
=============================================================================
