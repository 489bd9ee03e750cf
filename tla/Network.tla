------------------------------ MODULE Network ------------------------------
(***************************************************************************)
(* The network collector (internal/collect/network.go): CollectTraffic and *)
(* CollectIP run in goroutines of their own, with intervals of their own.  *)
(* They share the collector's current interface and traffic baseline under *)
(* a mutex, and the snapshot under the store's, and hold neither while     *)
(* they read /sys or ask for an address.                                   *)
(*                                                                         *)
(* An address is known by the interface it is an address of.  A traffic    *)
(* rate is known by the two interfaces whose counters were subtracted; a   *)
(* rate of one interface is a pair of equals.                              *)
(***************************************************************************)
EXTENDS Naturals

CONSTANTS
  Ifaces,
  None,       \* no interface, no address, no baseline: "" in the code
  Preferred,  \* NAS_INTERFACE, or None
  MaxChanges  \* bound: changes of the machine's interfaces

ASSUME ConstAssumption ==
  /\ None \notin Ifaces /\ Preferred \in Ifaces \cup {None}
  /\ MaxChanges \in Nat

VARIABLES
  exists,   \* the interfaces in /sys/class/net
  route,    \* the interface of the default route
  addressed,\* those that have an IPv4 address
  changes,
  iface,    \* NetworkCollector.iface
  base,     \* whose counters prevRX and prevTX are; None: prevAt is zero
  pc,       \* where each collector's run is
  cur,      \* its local iface
  changed,  \* its local changed
  got,      \* its local ip, or its local rate
  net,      \* the snapshot's Interface, IP and rate (None: not NetReady)
  crossed,  \* history: the other collector switched during this one's run
  doubt     \* history: what comes from a run that was crossed

machine == <<exists, route, addressed, changes>>
shared == <<iface, base>>
locals == <<cur, changed, got>>
history == <<crossed, doubt>>
vars == <<machine, shared, pc, locals, net, history>>

Procs == {"traffic", "ip"}
Opt == Ifaces \cup {None}
Cleared == [iface |-> None, ip |-> None, rate |-> None]

TypeOK ==
  /\ exists \subseteq Ifaces /\ addressed \subseteq Ifaces
  /\ route \in Opt /\ changes \in Nat
  /\ iface \in Opt /\ base \in Opt
  /\ pc \in [Procs -> {"idle", "read", "baseline", "store", "check",
                       "addr", "put", "invalidate", "clear"}]
  /\ cur \in [Procs -> Opt] /\ changed \in [Procs -> BOOLEAN]
  /\ got \in [Procs -> Opt \cup (Ifaces \X Ifaces)]
  /\ net \in [iface : Opt, ip : Opt, rate : {None} \cup (Ifaces \X Ifaces)]
  /\ crossed \in [Procs -> BOOLEAN]
  /\ doubt \subseteq {"base", "got", "rate", "ip"}

\* Faulty variant: without the preferred interface there is none.
ChooseNoRoute(current) ==
  IF Preferred \in exists THEN Preferred
  ELSE IF current \in exists THEN current ELSE None

\* chooseNetworkInterface: preferred, else current, else the default route.
Choose(current) ==
  IF Preferred \in exists THEN Preferred
  ELSE IF current \in exists THEN current
  ELSE IF route \in exists THEN route
  ELSE None

\* NewNetworkCollector, and NewStore's empty network fields.
Init ==
  /\ exists \in SUBSET Ifaces /\ addressed \in SUBSET Ifaces
  /\ route \in Opt /\ changes = 0
  /\ iface = Choose(None) /\ base = None
  /\ pc = [p \in Procs |-> "idle"]
  /\ cur = [p \in Procs |-> None]
  /\ changed = [p \in Procs |-> FALSE]
  /\ got = [p \in Procs |-> None]
  /\ net = Cleared
  /\ crossed = [p \in Procs |-> FALSE] /\ doubt = {}

Goto(p, label) == pc' = [pc EXCEPT ![p] = label]

----------------------------------------------------------------------------
(* The two collectors. *)

\* Faulty variant: an interface switch keeps the old baseline.
SwitchKeepsBase(new) == iface' = new /\ base' = base

\* setInterfaceLocked: another interface starts without a baseline.
SetInterface(new) ==
  /\ iface' = new
  /\ base' = IF new = iface THEN base ELSE None

\* History: a switch by p crosses the run the other collector is in.  The old
\* baseline goes with the interface.
Crosses(p, new) ==
  /\ crossed' = [q \in Procs |->
                   q # p /\ pc[q] # "idle" /\ (crossed[q] \/ new # iface)]
  /\ doubt' = IF new = iface THEN doubt ELSE doubt \ {"base"}

\* History: what p writes is in doubt if its run was crossed by now.
Marked(what, if) == (doubt \ {what}) \cup (IF if THEN {what} ELSE {})

\* A run begins: resolveInterface, under the collector's mutex.  Only
\* CollectTraffic remembers whether the interface changed.
Resolve(p) ==
  /\ pc[p] = "idle"
  /\ LET next == Choose(iface) IN
       /\ SetInterface(next)
       /\ Crosses(p, next)
       /\ cur' = [cur EXCEPT ![p] = next]
       /\ changed' = [changed EXCEPT ![p] = next # iface]
       /\ Goto(p, IF next = None THEN "clear"
                  ELSE IF p = "traffic" THEN "read" ELSE "addr")
  /\ UNCHANGED <<machine, got, net>>

\* The rx_bytes and tx_bytes files, which go away with their interface.
ReadCounters(p) ==
  /\ pc[p] = "read"
  /\ Goto(p, IF cur[p] \in exists THEN "baseline" ELSE "invalidate")
  /\ UNCHANGED <<machine, shared, locals, net, history>>

\* The second critical section: the rate against the baseline there is, and
\* the counters just read as the next baseline.
Baseline(p) ==
  /\ pc[p] = "baseline"
  /\ got' = [got EXCEPT ![p] = IF base = None THEN None ELSE <<base, cur[p]>>]
  /\ base' = cur[p]
  /\ Goto(p, "store")
  /\ doubt' = (doubt \ {"base", "got"})
                \cup (IF crossed[p] THEN {"base"} ELSE {})
                \cup (IF "base" \in doubt THEN {"got"} ELSE {})
  /\ UNCHANGED <<machine, iface, cur, changed, net, crossed>>

StoreTraffic(p) ==
  /\ pc[p] = "store"
  /\ net' = [net EXCEPT !.iface = cur[p], !.rate = got[p]]
  /\ Goto(p, "check")
  /\ doubt' = Marked("rate", "got" \in doubt)
  /\ UNCHANGED <<machine, shared, locals, crossed>>

\* The refresh of the address after a switch, or while there is none.
Check(p) ==
  /\ pc[p] = "check"
  /\ Goto(p, IF changed[p] \/ net.ip = None THEN "addr" ELSE "idle")
  /\ UNCHANGED <<machine, shared, locals, net, history>>

\* ipv4ForInterface: an interface without an IPv4 address has the address "".
Address(p) ==
  /\ pc[p] = "addr"
  /\ IF cur[p] \in exists
       THEN /\ got' = [got EXCEPT ![p] =
                         IF cur[p] \in addressed THEN cur[p] ELSE None]
            /\ Goto(p, "put")
       ELSE /\ got' = got
            /\ Goto(p, "invalidate")
  /\ UNCHANGED <<machine, shared, cur, changed, net, history>>

PutAddress(p) ==
  /\ pc[p] = "put"
  /\ net' = [net EXCEPT !.iface = cur[p], !.ip = got[p]]
  /\ Goto(p, "idle")
  /\ doubt' = Marked("ip", crossed[p])
  /\ UNCHANGED <<machine, shared, locals, crossed>>

\* invalidateInterface: not if the collector has moved on meanwhile.
Invalidate(p) ==
  /\ pc[p] = "invalidate"
  /\ IF iface = cur[p]
       THEN SetInterface(None) /\ Crosses(p, None)
       ELSE UNCHANGED <<shared, history>>
  /\ Goto(p, "clear")
  /\ UNCHANGED <<machine, locals, net>>

\* clearNetworkState
Clear(p) ==
  /\ pc[p] = "clear"
  /\ net' = Cleared
  /\ Goto(p, "idle")
  /\ doubt' = doubt \ {"rate", "ip"}
  /\ UNCHANGED <<machine, shared, locals, crossed>>

Run(p) ==
  \/ Resolve(p) \/ ReadCounters(p) \/ Baseline(p) \/ StoreTraffic(p)
  \/ Check(p) \/ Address(p) \/ PutAddress(p) \/ Invalidate(p) \/ Clear(p)

----------------------------------------------------------------------------
\* The machine: interfaces come and go, the default route moves, addresses
\* are leased and lost.
Change ==
  /\ changes < MaxChanges
  /\ changes' = changes + 1
  /\ \/ /\ \E i \in Ifaces : exists' \in {exists \cup {i}, exists \ {i}}
        /\ UNCHANGED <<route, addressed>>
     \/ route' \in Opt /\ UNCHANGED <<exists, addressed>>
     \/ /\ \E i \in Ifaces : addressed' \in {addressed \cup {i}, addressed \ {i}}
        /\ UNCHANGED <<exists, route>>
  /\ UNCHANGED <<shared, pc, locals, net, history>>

Next == (\E p \in Procs : Run(p)) \/ Change

Spec == Init /\ [][Next]_vars

\* Both goroutines are driven by tickers for as long as the daemon runs, and
\* reads of /sys and of addresses return.
FairSpec == Spec /\ \A p \in Procs : SF_vars(Run(p))

----------------------------------------------------------------------------
(* Properties. *)

Idle == \A p \in Procs : pc[p] = "idle"

\* network_test.go:55 "interface switch did not reset baseline": a rate is the
\* difference of two interfaces' counters only if CollectIP switched while the
\* traffic run before the one that shows it was on its way to its baseline; so
\* runs that overlap otherwise are right, and a wrong rate does not stay.
RateOfOneInterface ==
  net.rate # None /\ net.rate[1] # net.rate[2] => "rate" \in doubt

\* network.go:191 "Once traffic collection discovers or switches to an
\* interface, refresh IP immediately instead of waiting for the slower IP
\* interval": between runs, if the snapshot shows the interface the collector
\* is on, it does not show another one's address, which only the next
\* CollectIP would replace, unless the collector was switched between the
\* start of the run that stored the address and its storing it.
AddressOfInterface ==
  Idle /\ net.iface = iface /\ net.ip \notin {None, net.iface} => "ip" \in doubt

\* Neither a rate nor an address is another interface's, but in those windows.
OfOneInterface == RateOfOneInterface /\ AddressOfInterface

\* Whatever happened before, once the machine stops changing the snapshot
\* comes to show the interface it should, that interface's address and a rate
\* of it, and stays so; without any interface it shows none.
Right ==
  /\ Preferred \in exists => net.iface = Preferred
  /\ net.iface = None => route \notin exists
  /\ net.iface # None =>
       /\ net.iface \in exists
       /\ net.ip = IF net.iface \in addressed THEN net.iface ELSE None
       /\ net.rate = <<net.iface, net.iface>>
  /\ net.iface = None => net = Cleared

EventuallyRight == <>[]Right
=============================================================================
