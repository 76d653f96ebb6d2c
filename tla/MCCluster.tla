----------------------------- MODULE MCCluster -----------------------------
(* Instances of Cluster for TLC, and the operators of Routing on small jars. *)
EXTENDS Cluster

NoFigure == -1

-----------------------------------------------------------------------------
R == INSTANCE Routing WITH AUTH_VALID_SECS <- 2, sessmgr_port <- 8888, Here <- "127.0.0.1"

\* Cookies signed as they are, or as something else.
Auths == {[u |-> u, t |-> t, x |-> x] : u \in {"ann"}, t \in {0, 5}, x \in {<<"ann", 0>>, <<"ann", 5>>}}
Sesss == {[c |-> "c", i |-> i, t |-> t, x |-> x] :
            i \in {"a", "b"}, t \in {0, 5}, x \in {<<"c", "a", 0>>, <<"c", "a", 5>>, <<"c", "b", 5>>}}
Signs == {<<a, s>> : a \in {<<>>, <<"ann", 0>>, <<"ann", 5>>}, s \in {<<"c", "a", 0>>, <<"c", "a", 5>>}}
PortCookies(n) == {{}} \cup {{[name |-> n, p |-> 1, x |-> <<g[1], g[2], n, 1>>]} : g \in Signs}
Jars ==
  [auth : {{}} \cup {{a} : a \in Auths}, sess : {{}} \cup {{s} : s \in Sesss}, iid : {{}, {"a"}},
   loading : {{}}, ports : {k \cup l : k \in PortCookies("nb"), l \in PortCookies("file")}]

\* On every such jar the two sides agree.
ASSUME RoutingAgrees == \A jar \in Jars : R!PortsAgree(jar, 6) /\ R!RouterAccepts(jar, 6)

\* A login makes the ports of the jar useless, and its page leads to its session.
ASSUME RoutingReaches == \A jar \in Jars :
  /\ R!OldPortsRefused(jar, "ann", 5) /\ R!OldPortsRefused(jar, "bob", 5)
  /\ \A i, inst \in {"a", "b"} :
       R!ReachesSession(jar, "ann", "c", i, 5, [n \in {"nb", "file"} |-> IF n = "nb" THEN 1 ELSE 2], "file", inst, 443)

\* Whatever port a user opens under whatever name.
ASSUME OpenedPortsApart == \A jar \in Jars, name \in {"nb", "file", "mine"}, wellformed \in BOOLEAN, port \in {8000, 8050} :
  \A own \in {"nb", "file"} : R!OwnPortsStay(jar, name, wellformed, port, 7, own)
=============================================================================
