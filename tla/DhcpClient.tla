----------------------------- MODULE DhcpClient -----------------------------
(***************************************************************************)
(* The DHCPv4 client: main_dhcpv4_client adds handler as the callback of   *)
(* the interface's address events and starts the client.  The DHCP client  *)
(* proper and the event thread of the network stack are its environment.   *)
(***************************************************************************)
EXTENDS Naturals, Sequences

CONSTANTS
  Slot,        \* the unicast addresses of an interface
  MaxChanges   \* bound: changes of an address

VARIABLES
  dhcp,      \* calls main_dhcpv4_client has made
  started,   \* the DHCP client runs
  callback,  \* handler is added
  unicast,   \* type of each address of the interface
  events,    \* events the stack has not dispatched yet
  changes,   \* changes of an address so far
  logged     \* history: the addresses logged since they were bound

vars == <<dhcp, started, callback, unicast, events, changes, logged>>

Init ==
  /\ dhcp = 0 /\ started = FALSE /\ callback = FALSE
  /\ \E S \in SUBSET Slot :
       unicast = [i \in Slot |-> IF i \in S THEN "manual" ELSE "none"]
  /\ events = <<>> /\ changes = 0 /\ logged = {}

-----------------------------------------------------------------------------

\* The calls of main_dhcpv4_client, in their order.
Calls_StartFirst == <<"net_dhcpv4_start", "net_mgmt_add_event_callback">>
Calls == <<"net_mgmt_add_event_callback", "net_dhcpv4_start">>

Call(name) == dhcp < 2 /\ Calls[dhcp + 1] = name /\ dhcp' = dhcp + 1

net_mgmt_add_event_callback ==
  /\ Call("net_mgmt_add_event_callback")
  /\ callback' = TRUE
  /\ UNCHANGED <<started, unicast, events, changes, logged>>

net_dhcpv4_start ==
  /\ Call("net_dhcpv4_start")
  /\ started' = TRUE
  /\ UNCHANGED <<callback, unicast, events, changes, logged>>

\* Every address that came from DHCP is logged, for an added address only.
handler(event) ==
  logged' = IF event = "add" THEN {i \in Slot : unicast[i] = "dhcp"} \cup logged
                             ELSE logged

-----------------------------------------------------------------------------
(* The network stack.                                                      *)

\* A lease: the address takes a free slot.
Bind ==
  /\ started
  /\ changes < MaxChanges
  /\ \A i \in Slot : unicast[i] # "dhcp"
  /\ \E i \in Slot :
       /\ unicast[i] = "none"
       /\ unicast' = [unicast EXCEPT ![i] = "dhcp"]
       /\ logged' = logged \ {i}
  /\ events' = Append(events, "add")
  /\ changes' = changes + 1
  /\ UNCHANGED <<dhcp, started, callback>>

\* The lease ends.
Expire ==
  /\ changes < MaxChanges
  /\ \E i \in Slot :
       /\ unicast[i] = "dhcp"
       /\ unicast' = [unicast EXCEPT ![i] = "none"]
  /\ events' = Append(events, "del")
  /\ changes' = changes + 1
  /\ UNCHANGED <<dhcp, started, callback, logged>>

\* The event thread calls what is added for the oldest event.
Dispatch ==
  /\ events # <<>>
  /\ events' = Tail(events)
  /\ IF callback THEN handler(Head(events)) ELSE UNCHANGED logged
  /\ UNCHANGED <<dhcp, started, callback, unicast, changes>>

Next ==
  \/ net_mgmt_add_event_callback
  \/ net_dhcpv4_start
  \/ Bind
  \/ Expire
  \/ Dispatch

-----------------------------------------------------------------------------

\* Every variable has its type.
TypeOK ==
  /\ dhcp \in 0..2 /\ started \in BOOLEAN /\ callback \in BOOLEAN
  /\ unicast \in [Slot -> {"none", "manual", "dhcp"}]
  /\ events \in Seq({"add", "del"})
  /\ changes \in 0..MaxChanges
  /\ logged \in SUBSET Slot

\* While an address that came from DHCP is not logged, the event that will have
\* handler log it is still to come, and handler is there to be called: the event
\* of an address is never dispatched too early, and never mistaken for another.
ReportPending ==
  \A i \in Slot : unicast[i] = "dhcp" /\ i \notin logged =>
    callback /\ \E n \in 1..Len(events) : events[n] = "add"

\* handler reads the addresses when the event is dispatched, not when it was
\* raised: still, an address the DHCP client binds is logged, unless the lease
\* ended before the event was dispatched.
AddressReported ==
  \A i \in Slot : unicast[i] = "dhcp" ~> i \in logged \/ unicast[i] # "dhcp"
=============================================================================
