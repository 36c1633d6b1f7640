---------------------------- MODULE NetSnapshot ----------------------------
(***************************************************************************)
(* The network snapshot (daemon/src/netinfo.rs): interfaces, addresses and *)
(* default routes come from three netlink dumps, one after the other,      *)
(* while the network changes; every 30 seconds a new snapshot replaces the *)
(* last.  What is read from files and from NetworkManager is in Readers.   *)
(***************************************************************************)
EXTENDS Naturals, Sequences, SequencesExt, Collections

CONSTANTS Indexes,      \* interface indexes; the kernel does not use one twice
          NameOf,       \* index -> name; a device that is plugged in again keeps it
          NoIndex, NoName,
          MaxNetChanges \* bound: changes of the network

\* What an interface was given: nothing, an address (IFA_LOCAL and IFA_ADDRESS
\* are the same), an address and a peer, or IFA_ADDRESS alone.
Given == {"none", "address", "peer", "bare"}

\* A default route of the main table; without a device it has several next hops.
Route == [v : {4, 6}, gw : BOOLEAN, dev : Indexes \cup {NoIndex}]

ASSUME NoIndexIsNone == NoIndex \notin Indexes

VARIABLES given,    \* interfaces that exist -> what they were given
          routes,   \* the default routes in the order of the dump, IPv4 first
          issued,   \* indexes handed out
          stage,    \* what the snapshot does next
          ifaces,   \* answer so far: index -> addresses
          asked,    \* the routes of the dump
          looked,   \* how many of them it has looked at
          chosen,   \* answer so far: position of the route taken, and its interface
          quiet,    \* ghost: nothing has changed since the snapshot began
          netChanges

netWorld == <<given, routes, issued, netChanges>>
answer == <<stage, ifaces, asked, looked, chosen>>
netVars == <<netWorld, answer, quiet>>

Nothing == [i \in {} |-> {}]
NoGateway == 0
NoChoice == [gw |-> NoGateway, name |-> NoName]

NetInit ==
  /\ \E here \in SUBSET Indexes : given \in [here -> Given] /\ issued = here
  /\ routes = <<>> /\ netChanges = 0
  /\ stage = "links" /\ ifaces = Nothing /\ asked = <<>> /\ looked = 0 /\ chosen = NoChoice
  /\ quiet = TRUE

-----------------------------------------------------------------------------
(* The network *)

NetChange ==
  /\ netChanges < MaxNetChanges /\ netChanges' = netChanges + 1
  /\ quiet' = FALSE /\ UNCHANGED answer

PlugIn ==
  /\ \E i \in Indexes \ issued, g \in Given :
       given' = [j \in DOMAIN given \cup {i} |-> IF j = i THEN g ELSE given[j]] /\ issued' = issued \cup {i}
  /\ UNCHANGED routes /\ NetChange

\* With an interface go its addresses and its routes.
Unplug ==
  /\ \E i \in DOMAIN given :
       /\ given' = [j \in DOMAIN given \ {i} |-> given[j]]
       /\ routes' = Retain(routes, {r \in ToSet(routes) : r.dev # i})
  /\ UNCHANGED issued /\ NetChange

Readdress ==
  /\ \E i \in DOMAIN given, g \in Given : given' = [given EXCEPT ![i] = g]
  /\ UNCHANGED <<routes, issued>> /\ NetChange

Reroute ==
  /\ \E r \in Route : /\ r.dev \in DOMAIN given \cup {NoIndex}
                      /\ \E n \in 0..Len(routes) :
                           /\ routes' = InsertAt(routes, n + 1, r)
                           /\ \A i, j \in DOMAIN routes' : i < j => routes'[i].v <= routes'[j].v
  /\ UNCHANGED <<given, issued>> /\ NetChange

-----------------------------------------------------------------------------
(* The snapshot *)

DumpLinks ==
  /\ stage = "links" /\ stage' = "addresses"
  /\ ifaces' = [i \in DOMAIN given |-> {}]
  /\ UNCHANGED <<netWorld, asked, looked, chosen, quiet>>

\* IFA_LOCAL, and IFA_ADDRESS when it is another one.
Listed(g) == CASE g = "none" -> {} [] g = "peer" -> {"own", "peer"} [] OTHER -> {"own"}

DumpAddresses ==
  /\ stage = "addresses" /\ stage' = "routes"
  /\ ifaces' = [i \in DOMAIN ifaces |-> IF i \in DOMAIN given THEN Listed(given[i]) ELSE {}]
  /\ UNCHANGED <<netWorld, asked, looked, chosen, quiet>>

DumpRoutes ==
  /\ stage = "routes" /\ stage' = "choosing"
  /\ asked' = routes
  /\ UNCHANGED <<netWorld, ifaces, looked, chosen, quiet>>

InterfaceOf(r) == IF r.dev \in DOMAIN ifaces THEN NameOf[r.dev] ELSE NoName
Taken(n) == [gw |-> IF asked[n].gw THEN n ELSE NoGateway, name |-> InterfaceOf(asked[n])]

\* Faulty variant of Consider: the interface of the first route is kept.
Consider_FirstName(c, n) ==
  IF c.gw = NoGateway
  THEN [Taken(n) EXCEPT !.name = IF c.name = NoName THEN @ ELSE c.name]
  ELSE c

\* A route replaces one without a gateway; one to an IPv4 gateway replaces any.
Consider(c, n) ==
  IF c.gw = NoGateway \/ (asked[n].gw /\ asked[n].v = 4) THEN Taken(n) ELSE c

\* An IPv4 gateway ends the search.
Enough == looked = Len(asked) \/ (chosen.gw # NoGateway /\ asked[chosen.gw].v = 4)

NextRoute ==
  /\ stage = "choosing" /\ ~Enough
  /\ looked' = looked + 1 /\ chosen' = Consider(chosen, looked')
  /\ UNCHANGED <<netWorld, stage, ifaces, asked, quiet>>

Answer ==
  /\ stage = "choosing" /\ Enough /\ stage' = "shown"
  /\ UNCHANGED <<netWorld, ifaces, asked, looked, chosen, quiet>>

NoAnswer == ifaces' = Nothing /\ asked' = <<>> /\ looked' = 0 /\ chosen' = NoChoice

\* A dump that fails leaves an answer without interfaces and routes.
DumpFails ==
  /\ stage \in {"links", "addresses", "routes", "choosing"} /\ stage' = "shown"
  /\ NoAnswer /\ quiet' = FALSE
  /\ UNCHANGED netWorld

Refresh30s ==
  /\ stage = "shown" /\ stage' = "links"
  /\ NoAnswer /\ quiet' = TRUE
  /\ UNCHANGED netWorld

NetNext == PlugIn \/ Unplug \/ Readdress \/ Reroute
           \/ DumpLinks \/ DumpAddresses \/ DumpRoutes \/ NextRoute \/ Answer
           \/ DumpFails \/ Refresh30s

NetSpec == NetInit /\ [][NetNext]_netVars

-----------------------------------------------------------------------------
(* Properties *)

FirstGateway(rs) == {n \in DOMAIN rs : rs[n].gw /\ \A m \in 1..(n - 1) : ~rs[m].gw}

\* Whatever changes between the dumps, gateway and primary interface are those of
\* one default route, that interface is in the list, and an IPv4 gateway comes
\* before an IPv6 one.  Of routes of which none has a gateway the last one counts,
\* not "whatever appears first" (netinfo.rs:128).  When nothing changed, the routes
\* are those that there are, and every interface is listed with its own address
\* and, also next to it, its peer's, which the code means to keep "if no Local"
\* (netinfo.rs:95), and with no other (netinfo.rs:49-140).
SnapshotHangsTogether ==
  stage = "shown" =>
    /\ chosen.name # NoName => \E i \in DOMAIN ifaces : NameOf[i] = chosen.name
    /\ chosen.gw # NoGateway =>
         /\ chosen.name = InterfaceOf(asked[chosen.gw])
         /\ chosen.gw \in FirstGateway(asked)
    /\ chosen.gw = NoGateway =>
         /\ \A n \in DOMAIN asked : ~asked[n].gw
         /\ chosen.name = IF asked = <<>> THEN NoName ELSE InterfaceOf(asked[Len(asked)])
    /\ quiet =>
         /\ asked = routes /\ DOMAIN ifaces = DOMAIN given
         /\ \A i \in DOMAIN given : /\ ("own" \in ifaces[i]) = (given[i] # "none")
                                    /\ ("peer" \in ifaces[i]) = (given[i] = "peer")
=============================================================================
