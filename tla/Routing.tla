------------------------------ MODULE Routing -------------------------------
(***************************************************************************)
(* Cookies and routing.  JBox (handlers/handler_base.py) sets signed       *)
(* cookies: who the user is, which session on which instance is theirs,    *)
(* and the ports of the session.  The router of each instance (router.lua) *)
(* checks them again, in another language, and forwards the request.       *)
(*                                                                         *)
(* A cookie jar is a record of sets with at most one cookie in them (for   *)
(* ports, one of each name).  A signature is the tuple that was signed;    *)
(* base64, JSON and encryption are read back as they were written.         *)
(***************************************************************************)
EXTENDS Integers

CONSTANTS
  AUTH_VALID_SECS,
  sessmgr_port,
  Here             \* the address of an instance to itself: 127.0.0.1

Empty == [auth |-> {}, sess |-> {}, iid |-> {}, loading |-> {}, ports |-> {}]

AuthCookie(u, t)        == [u |-> u, t |-> t, x |-> <<u, t>>]
SessCookie(c, i, t)     == [c |-> c, i |-> i, t |-> t, x |-> <<c, i, t>>]
PortCookie(a, s, n, p)  == [name |-> n, p |-> p, x |-> <<a.x, s.x, n, p>>]

-----------------------------------------------------------------------------
(* JBox: what a response does to the cookies of the browser.               *)

set_authenticated(jar, u, t) == [jar EXCEPT !.auth = {AuthCookie(u, t)}]

set_container_initialized(jar, i, c, t) ==
  [auth |-> jar.auth, sess |-> {SessCookie(c, i, t)}, iid |-> {i}, loading |-> {1}, ports |-> {}]

given_ports(jar, number) ==
  {PortCookie(a, s, n, number[n]) : a \in jar.auth, s \in jar.sess, n \in DOMAIN number}

\* number: the port numbers by name.  An exception, here the jar as it was,
\* when there is no one to give the ports to.
set_container_ports(jar, number) ==
  IF jar.auth = {} \/ jar.sess = {} THEN jar
  ELSE [jar EXCEPT !.ports = {k \in @ : k.name \notin DOMAIN number} \cup given_ports(jar, number)]

clear_loading(jar)   == [jar EXCEPT !.loading = {}]
clear_container(jar) == [jar EXCEPT !.sess = {}, !.ports = {}]

\* Cookies carried over to another host name: all but the loading state.
pack(jar)           == clear_loading(jar)
unpack(jar, packed) == [packed EXCEPT !.loading = {}]

\* The cookies after a login whose session starts on instance i.
post_auth_launch_container(jar, u, c, i, t) ==
  set_container_initialized(set_authenticated(jar, u, t), i, c, t)

\* The page of a session that has started.
do_monitor_loading(jar, number) == clear_loading(set_container_ports(jar, number))

\* A user opens a port of the session by a name (handlers/admin.py).  wellformed:
\* the name is alphanumeric and not too long; hostport: the port on the host.
Reserved == {"shell", "nb", "file"}

handle_if_open_port(jar, portname, wellformed, port, hostport) ==
  IF wellformed /\ portname \notin Reserved /\ port \in 8050..8052
  THEN set_container_ports(jar, [n \in {portname} |-> hostport])
  ELSE jar

-----------------------------------------------------------------------------
(* JBox: what it accepts.                                                  *)

Recent(cookie, now) == now - cookie.t <= AUTH_VALID_SECS

get_user_id(jar, now) == {a.u : a \in {b \in jar.auth : b.x = <<b.u, b.t>> /\ Recent(b, now)}}

\* The session cookie, if it is signed and recent.
get_container(jar, now) == {s \in jar.sess : s.x = <<s.c, s.i, s.t>> /\ Recent(s, now)}

get_session_id(jar, now)  == {s.c : s \in get_container(jar, now)}
get_instance_id(jar, now) == {s.i : s \in get_container(jar, now)}

\* Ports whose signature does not fit are left out; auth is not itself looked at.
get_ports(jar, now) ==
  {k \in jar.ports : \E a \in jar.auth, s \in get_container(jar, now) : k.x = <<a.x, s.x, k.name, k.p>>}

-----------------------------------------------------------------------------
(* The router.                                                             *)

is_valid_auth(jar)    == {a \in jar.auth : a.x = <<a.u, a.t>>}
is_valid_session(jar) == {s \in jar.sess : s.x = <<s.c, s.i, s.t>>}

get_authsig(jar) == IF is_valid_auth(jar) = {} THEN {<<>>} ELSE {a.x : a \in is_valid_auth(jar)}

get_validated_port(jar, s, name) ==
  {k.p : k \in {j \in jar.ports : j.name = name /\ \E sig \in get_authsig(jar) : j.x = <<sig, s.x, name, j.p>>}}

Forbidden == [host |-> "none", port |-> "none", local |-> FALSE]

\* On instance inst: to itself if the cookie names it, or there is none; else
\* to the router of the instance that the cookie names.
set_forward_addr(jar, inst, incoming, desired_port) ==
  IF jar.iid \subseteq {inst, Here}
  THEN [host |-> Here, port |-> desired_port, local |-> TRUE]
  ELSE [host |-> CHOOSE i \in jar.iid : TRUE, port |-> incoming, local |-> FALSE]

\* Requests for the session manager go to that of the other instance directly.
set_forward_sessmgr(jar, inst) ==
  [set_forward_addr(jar, inst, sessmgr_port, sessmgr_port) EXCEPT !.local = TRUE]

\* An instance that does not answer is replaced by this one.
check_forward_addr(addr, accessible) ==
  IF addr.host \in accessible THEN addr ELSE [addr EXCEPT !.host = Here]

\* kind: "root" for / and /jboxauth/, "cors", "jbox" for the other pages of the
\* session manager, "port" for /jci_name/ and /jws_name/; all else is for the notebook.
jbox_route(jar, inst, incoming, kind, portname, accessible) ==
  LET valid == is_valid_session(jar)
      name  == IF kind = "port" THEN portname ELSE "nb"
      port  == UNION {get_validated_port(jar, s, name) : s \in valid}
  IN  CASE kind = "root" -> check_forward_addr(set_forward_sessmgr(jar, inst), accessible)
        [] kind = "cors" -> set_forward_sessmgr(jar, inst)
        [] kind = "jbox" -> IF valid = {} THEN Forbidden ELSE set_forward_sessmgr(jar, inst)
        [] OTHER -> IF port = {} THEN Forbidden
                    ELSE set_forward_addr(jar, inst, incoming, CHOOSE p \in port : TRUE)

-----------------------------------------------------------------------------
(* What the two sides promise each other.                                  *)

\* Any jar: at most one cookie of a kind.
WellFormed(jar) ==
  /\ jar = [auth |-> jar.auth, sess |-> jar.sess, iid |-> jar.iid, loading |-> jar.loading, ports |-> jar.ports]
  /\ \A a, b \in jar.auth : a = b
  /\ \A s, r \in jar.sess : s = r
  /\ \A i, j \in jar.iid : i = j
  /\ \A k, l \in jar.ports : k.name = l.name => k = l

\* The two checks of a port agree on every jar with a signed user and a session
\* that JBox accepts: a request is let through exactly for the ports that JBox
\* believes the browser has.
PortsAgree(jar, now) ==
  is_valid_auth(jar) # {} =>
    \A s \in get_container(jar, now), k \in jar.ports :
      k \in get_ports(jar, now) <=> k.p \in get_validated_port(jar, s, k.name)

\* The router accepts every session that JBox accepts (and does so for longer,
\* since it does not look at the time).
RouterAccepts(jar, now) == get_container(jar, now) \subseteq is_valid_session(jar)

\* After another login, of whatever user, the router refuses all ports it let
\* through before, though the session cookie is the old one.
OldPortsRefused(jar, u, t) ==
  LET new == set_authenticated(jar, u, t) IN
  (\A a \in jar.auth : a.x # <<u, t>>) =>
    \A s \in jar.sess, k \in jar.ports :
      get_validated_port(jar, s, k.name) # {} => get_validated_port(new, s, k.name) = {}

\* The page of a session leads to its container: from the router of any
\* instance, at once or by way of the router of the session's instance.
ReachesSession(jar, u, c, i, t, number, n, inst, incoming) ==
  LET page  == do_monitor_loading(post_auth_launch_container(jar, u, c, i, t), number)
      first == jbox_route(page, inst, incoming, "port", n, {})
      there == jbox_route(page, i, incoming, "port", n, {})
  IN  /\ there = [host |-> Here, port |-> number[n], local |-> TRUE]
      /\ first = IF i \in {inst, Here} THEN there ELSE [host |-> i, port |-> incoming, local |-> FALSE]

\* The ports that a user opens never replace those of the session itself: the
\* router leads the notebook, the shell and the files where it did before.
OwnPortsStay(jar, portname, wellformed, port, hostport, name) ==
  LET new == handle_if_open_port(jar, portname, wellformed, port, hostport)
  IN  name \in Reserved =>
        \A s \in jar.sess : get_validated_port(new, s, name) = get_validated_port(jar, s, name)
=============================================================================
