--------------------------- MODULE MCConfigSync ---------------------------
(***************************************************************************)
(* Small instances of ConfigSync.  The owner o signs versions 1 and 2; the *)
(* user u, listed in version 1 only, signs a version 3 of its own; mf is   *)
(* a version 3 with a signature that does not verify.  A second owner r    *)
(* signs a version 3.                                                      *)
(***************************************************************************)
EXTENDS ConfigSync

CONSTANTS n1, n2, o, u, r, m1, m2, mu, mf, mr

\* The configuration that each message carries.
Conf(v, rs, us) == [version |-> v, robots |-> rs, users |-> us]

MCSigner == [m \in Message |-> CASE m = mu -> u [] m = mr -> r [] OTHER -> o]
MCVerified == Message \ {mf}
MCContent == [m \in Message |->
  CASE m = m1 -> Conf(1, {}, {u})
    [] m = m2 -> Conf(2, {}, {})
    [] m = mu -> Conf(3, {}, {u})
    [] m \in {mf, mr} -> Conf(3, {}, {})]

\* n1 accepts rpc clients; a config.json, where there is one, lists the robot r.
MCRpcNode == {n1}
MCConfigJson == [n \in Node |-> {r}]
NoConfigJson == [n \in Node |-> {}]

\* The owners that agents are started for.
AlwaysO == [n \in Node |-> {o}]
OOrR == [n \in Node |-> {o, r}]
=============================================================================
