---------------------------- MODULE LanListener ----------------------------
(***************************************************************************)
(* The second socket of the web interface: a monitor thread keeps it bound *)
(* to the address wlan0 has at the moment, which appears long after the    *)
(* service has started, and changes; server_close ends monitor and socket. *)
(* serve's own first reconcile runs before there is a monitor, and is its  *)
(* first pass here.                                                        *)
(***************************************************************************)
EXTENDS Naturals

CONSTANTS Addresses,   \* what wlan0 may be given
          MaxChanges,  \* bound: changes of the address
          MaxRefusals  \* bound: binds the kernel refuses

VARIABLES wlan,      \* the address the kernel would send from, "" without one
          bound,     \* the listener's address and socket, "" without one
          monitor,   \* [at, desired]: "rest", "closing", "binding" or "over"
          service,   \* "serving", "joining", "closing" or "closed"
          changes, refusals

lanVars == <<wlan, bound, monitor, service, changes, refusals>>

LanInit ==
    /\ wlan = ""
    /\ bound = ""
    /\ monitor = [at |-> "rest", desired |-> ""]
    /\ service = "serving"
    /\ changes = 0 /\ refusals = 0

\* S41wlan, the DHCP client or a lost network.
WlanChanges ==
    /\ changes < MaxChanges
    /\ \E a \in (Addresses \cup {""}) \ {wlan} : wlan' = a
    /\ changes' = changes + 1
    /\ UNCHANGED <<bound, monitor, service, refusals>>

\* A refusal leaves the address unset, a success sets it with the server.
KeptIf(d) == bound # ""
Kept(d) == d = bound

\* The monitor's loop, once a second; reconcile holds the lock while it is not "rest".
Looks ==
    /\ monitor.at = "rest"
    /\ monitor' = CASE service # "serving"            -> [at |-> "over", desired |-> ""]
                    [] service = "serving" /\ Kept(wlan) -> [at |-> "rest", desired |-> ""]
                    [] OTHER                          -> [at |-> "closing", desired |-> wlan]
    /\ UNCHANGED <<wlan, bound, service, changes, refusals>>

ClosesOld ==
    /\ monitor.at = "closing"
    /\ bound' = ""
    /\ monitor' = [monitor EXCEPT !.at = IF monitor.desired = "" THEN "rest" ELSE "binding"]
    /\ UNCHANGED <<wlan, service, changes, refusals>>

\* An address that has gone meanwhile cannot be bound.
Binds ==
    /\ monitor.at = "binding"
    /\ monitor' = [at |-> "rest", desired |-> ""]
    /\ \/ wlan = monitor.desired /\ bound' = wlan /\ UNCHANGED refusals
       \/ /\ wlan = monitor.desired => refusals < MaxRefusals
          /\ refusals' = IF wlan = monitor.desired THEN refusals + 1 ELSE refusals
          /\ UNCHANGED bound
    /\ UNCHANGED <<wlan, service, changes>>

\* server_close: stop.set(), a join with a timeout, then the listener's lock.
ServerCloses ==
    /\ service = "serving"
    /\ service' = "joining"
    /\ UNCHANGED <<wlan, bound, monitor, changes, refusals>>

Joined ==
    /\ service = "joining"
    /\ monitor.at # "rest"    \* ended, or held up inside reconcile
    /\ service' = "closing"
    /\ UNCHANGED <<wlan, bound, monitor, changes, refusals>>

ListenerCloses ==
    /\ service = "closing"
    /\ monitor.at \in {"rest", "over"}
    /\ bound' = ""
    /\ service' = "closed"
    /\ UNCHANGED <<wlan, monitor, changes, refusals>>

Monitor == Looks \/ ClosesOld \/ Binds

LanNext ==
    \/ WlanChanges
    \/ Monitor
    \/ ServerCloses \/ Joined \/ ListenerCloses

\* The thread runs; nothing else need happen.
LanSpec == LanInit /\ [][LanNext]_lanVars /\ WF_lanVars(Monitor)

\* Once the service has closed no pass of the monitor that was under way opens
\* the listener again (_Server.server_close, _LanListener.close).
StaysClosed == service = "closed" => bound = ""

\* The interface is reachable where the radio is: as long as the service runs, the
\* listener comes to the address wlan0 keeps, whatever addresses it had before and
\* however often a bind was refused, and it is given up with the address
\* (_LanListener.reconcile, _monitor_lan); and a closed service stays closed.
ListenerFollows ==
    /\ \A a \in Addresses \cup {""} :
        <>[](wlan = a /\ service = "serving") => <>[](bound = a)
    /\ []StaysClosed
=============================================================================
