--------------------------- MODULE Network_proof ---------------------------
(* Theorems about Network, for every value of its constants. *)
EXTENDS Network, TLAPS

\* chooseNetworkInterface returns an interface that exists, or none.
LEMMA ChooseExists ==
  ASSUME NEW current PROVE Choose(current) \in exists \cup {None}
BY DEF Choose

\* What a collector's locals are at each point of its run.
LocalInv ==
  \A p \in Procs :
    /\ pc[p] \notin {"idle", "clear"} => cur[p] \in Ifaces
    /\ pc[p] = "store" => got[p] \in {None} \cup (Ifaces \X Ifaces)
    /\ pc[p] = "put" => got[p] \in {None, cur[p]}
    /\ pc[p] \in {"read", "baseline", "store", "check"} => p = "traffic"

\* What Crosses makes of crossed has its type.
LEMMA CrossedType ==
  ASSUME NEW p, NEW new, Crosses(p, new) PROVE crossed' \in [Procs -> BOOLEAN]
<1>1. \A q \in Procs : (q # p /\ pc[q] # "idle" /\ (crossed[q] \/ new # iface)) \in BOOLEAN
  OBVIOUS
<1> QED
  BY <1>1, Zenon DEF Crosses

LEMMA TypeStep == TypeOK /\ LocalInv /\ [Next]_vars => TypeOK' /\ LocalInv'
<1> SUFFICES ASSUME TypeOK, LocalInv, [Next]_vars PROVE TypeOK' /\ LocalInv'
  OBVIOUS
<1> USE ConstAssumption DEF TypeOK, LocalInv, Opt, machine, shared, locals, history, Goto
<1>1. ASSUME NEW p \in Procs, Resolve(p) PROVE TypeOK' /\ LocalInv'
  <2> DEFINE next == Choose(iface)
  <2>1. next \in exists \cup {None} /\ next \in Opt
    BY ChooseExists
  <2> HIDE DEF next
  <2>2. /\ iface' = next /\ base' \in {base, None}
        /\ cur' = [cur EXCEPT ![p] = next]
        /\ changed' = [changed EXCEPT ![p] = next # iface]
        /\ pc' = [pc EXCEPT ![p] = IF next = None THEN "clear"
                                   ELSE IF p = "traffic" THEN "read" ELSE "addr"]
        /\ UNCHANGED <<machine, got, net>>
    BY <1>1 DEF Resolve, SetInterface, next
  <2>3. (next # iface) \in BOOLEAN
    OBVIOUS
  <2>4. changed' \in [Procs -> BOOLEAN]
    BY <2>2, <2>3, Zenon
  <2>5. doubt' \subseteq {"base", "got", "rate", "ip"}
    BY <1>1 DEF Resolve, Crosses
  <2>6. crossed' \in [Procs -> BOOLEAN]
    BY <1>1, CrossedType DEF Resolve
  <2> QED
    BY <2>1, <2>2, <2>4, <2>5, <2>6
<1>2. ASSUME NEW p \in Procs, ReadCounters(p) \/ Check(p) PROVE TypeOK' /\ LocalInv'
  BY <1>2 DEF ReadCounters, Check
<1>3. ASSUME NEW p \in Procs, Baseline(p) PROVE TypeOK' /\ LocalInv'
  BY <1>3 DEF Baseline
<1>4. ASSUME NEW p \in Procs, StoreTraffic(p) PROVE TypeOK' /\ LocalInv'
  BY <1>4 DEF StoreTraffic, Marked
<1>5. ASSUME NEW p \in Procs, Address(p) PROVE TypeOK' /\ LocalInv'
  BY <1>5 DEF Address
<1>6. ASSUME NEW p \in Procs, PutAddress(p) PROVE TypeOK' /\ LocalInv'
  BY <1>6 DEF PutAddress, Marked
<1>7. ASSUME NEW p \in Procs, Invalidate(p) PROVE TypeOK' /\ LocalInv'
  <2>1. crossed' \in [Procs -> BOOLEAN]
    BY <1>7, CrossedType DEF Invalidate
  <2>2. doubt' \subseteq doubt
    BY <1>7 DEF Invalidate, Crosses
  <2>3. iface' \in Opt /\ base' \in Opt
    BY <1>7 DEF Invalidate, SetInterface
  <2>4. UNCHANGED <<machine, locals, net>> /\ pc' = [pc EXCEPT ![p] = "clear"]
    BY <1>7 DEF Invalidate
  <2> QED
    BY <2>1, <2>2, <2>3, <2>4
<1>8. ASSUME NEW p \in Procs, Clear(p) PROVE TypeOK' /\ LocalInv'
  BY <1>8 DEF Clear, Cleared
<1>9. CASE Change
  BY <1>9 DEF Change
<1>10. CASE UNCHANGED vars
  BY <1>10 DEF vars
<1> HIDE DEF TypeOK, LocalInv, Opt, machine, shared, locals, history, Goto
<1> QED
  BY <1>1, <1>2, <1>3, <1>4, <1>5, <1>6, <1>7, <1>8, <1>9, <1>10 DEF Next, Run

LEMMA TypeCorrect == Spec => [](TypeOK /\ LocalInv)
<1>1. Init => TypeOK /\ LocalInv
  BY ConstAssumption, ChooseExists
  DEF Init, TypeOK, LocalInv, Opt, Cleared, Procs
<1> QED
  BY <1>1, TypeStep, PTL DEF Spec

\* Every variable has its type, for any number of interfaces and changes.
THEOREM Types == Spec => []TypeOK
<1> QED
  BY TypeCorrect, PTL

----------------------------------------------------------------------------
(* What runs that overlap can do to the snapshot. *)

\* Until its end a run is on the collector's interface, unless it was crossed.
CurrentInv ==
  \A p \in Procs : pc[p] \notin {"idle", "clear"} /\ ~crossed[p] => cur[p] = iface

\* The baseline is the collector's interface's, unless a crossed run took it; a
\* run that is crossed finds none; and a rate of two interfaces comes from a
\* baseline in doubt.
RateInv ==
  /\ base \in {None, iface} \/ "base" \in doubt
  /\ pc["traffic"] \in {"read", "baseline"} /\ crossed["traffic"] => base = None
  /\ pc["traffic"] = "store" =>
       \/ got["traffic"] = None
       \/ got["traffic"][1] = got["traffic"][2]
       \/ "got" \in doubt
  /\ RateOfOneInterface

\* The run of p is going to replace or to clear the address.
Pending(p) ==
  \/ pc[p] \in {"addr", "put", "invalidate", "clear"}
  \/ pc[p] \in {"read", "baseline", "store", "check"} /\ changed[p]

\* The address is the collector's interface's, or in doubt, or about to go.
AddressInv ==
  \/ net.ip \in {None, iface}
  \/ "ip" \in doubt
  \/ \E p \in Procs : Pending(p)

CrossInv == CurrentInv /\ RateInv /\ AddressInv

LEMMA CurrentStep ==
  ASSUME TypeOK, LocalInv, CurrentInv, [Next]_vars PROVE CurrentInv'
<1> USE ConstAssumption
    DEF TypeOK, LocalInv, CurrentInv, machine, shared, locals, history, Goto
<1>1. ASSUME NEW p \in Procs, Resolve(p) PROVE CurrentInv'
  BY <1>1 DEF Resolve, SetInterface, Crosses
<1>2. ASSUME NEW p \in Procs, Invalidate(p) PROVE CurrentInv'
  <2>1. UNCHANGED cur /\ pc' = [pc EXCEPT ![p] = "clear"]
    BY <1>2 DEF Invalidate
  <2>2. CASE iface' = iface /\ crossed' = crossed
    BY <2>1, <2>2
  <2>3. CASE iface = cur[p] /\ iface' = None /\ Crosses(p, None)
    BY <2>1, <2>3 DEF Crosses
  <2> QED
    BY <1>2, <2>2, <2>3 DEF Invalidate, SetInterface
<1>3. ASSUME NEW p \in Procs,
             \/ ReadCounters(p) \/ Baseline(p) \/ StoreTraffic(p) \/ Check(p)
             \/ Address(p) \/ PutAddress(p) \/ Clear(p)
      PROVE CurrentInv'
  BY <1>3 DEF ReadCounters, Baseline, StoreTraffic, Check, Address, PutAddress, Clear
<1>4. CASE Change
  BY <1>4 DEF Change
<1>5. CASE UNCHANGED vars
  BY <1>5 DEF vars
<1> HIDE DEF TypeOK, LocalInv, CurrentInv, machine, shared, locals, history, Goto
<1> QED
  BY <1>1, <1>2, <1>3, <1>4, <1>5 DEF Next, Run

LEMMA RateStep ==
  ASSUME TypeOK, LocalInv, CurrentInv, RateInv, [Next]_vars PROVE RateInv'
<1> USE ConstAssumption
    DEF TypeOK, LocalInv, RateInv, RateOfOneInterface, Procs,
        machine, shared, locals, history, Goto
<1>1. ASSUME NEW p \in Procs, Resolve(p) PROVE RateInv'
  BY <1>1 DEF Resolve, SetInterface, Crosses
<1>2. ASSUME NEW p \in Procs, Invalidate(p) PROVE RateInv'
  BY <1>2 DEF Invalidate, SetInterface, Crosses
<1>3. ASSUME NEW p \in Procs, Baseline(p) PROVE RateInv'
  BY <1>3 DEF Baseline, CurrentInv
<1>4. ASSUME NEW p \in Procs, StoreTraffic(p) PROVE RateInv'
  BY <1>4 DEF StoreTraffic, Marked
<1>5. ASSUME NEW p \in Procs, PutAddress(p) PROVE RateInv'
  BY <1>5 DEF PutAddress, Marked
<1>6. ASSUME NEW p \in Procs, ReadCounters(p) \/ Check(p) \/ Address(p) PROVE RateInv'
  BY <1>6 DEF ReadCounters, Check, Address
<1>7. ASSUME NEW p \in Procs, Clear(p) PROVE RateInv'
  BY <1>7 DEF Clear, Cleared
<1>8. CASE Change
  BY <1>8 DEF Change
<1>9. CASE UNCHANGED vars
  BY <1>9 DEF vars
<1> HIDE DEF TypeOK, LocalInv, RateInv, RateOfOneInterface, Procs, machine, shared,
             locals, history, Goto
<1> QED
  BY <1>1, <1>2, <1>3, <1>4, <1>5, <1>6, <1>7, <1>8, <1>9 DEF Next, Run

LEMMA AddressStep ==
  ASSUME TypeOK, LocalInv, CurrentInv, AddressInv, [Next]_vars PROVE AddressInv'
<1> USE ConstAssumption
    DEF TypeOK, LocalInv, AddressInv, Pending, machine, shared, locals, history, Goto
<1>1. ASSUME NEW p \in Procs, Resolve(p) PROVE AddressInv'
  <2> DEFINE next == Choose(iface)
  <2>1. /\ iface' = next /\ net' = net /\ pc[p] = "idle"
        /\ changed' = [changed EXCEPT ![p] = next # iface]
        /\ pc' = [pc EXCEPT ![p] = IF next = None THEN "clear"
                                   ELSE IF p = "traffic" THEN "read" ELSE "addr"]
        /\ doubt' \in {doubt, doubt \ {"base"}}
    BY <1>1 DEF Resolve, SetInterface, Crosses
  <2> HIDE DEF next
  <2>2. CASE next # iface
    <3>1. pc'[p] = "clear" \/ (changed'[p] /\ pc'[p] = "read") \/ pc'[p] = "addr"
      BY <2>1, <2>2
    <3> QED
      BY <3>1
  <2>3. CASE next = iface
    <3>1. UNCHANGED <<iface, net>> /\ ("ip" \in doubt => "ip" \in doubt')
      BY <2>1, <2>3
    <3>2. ASSUME NEW q \in Procs, Pending(q) PROVE Pending(q)'
      BY <2>1, <3>2
    <3> QED
      BY <3>1, <3>2
  <2> QED
    BY <2>2, <2>3
<1>2. ASSUME NEW p \in Procs, Invalidate(p) PROVE AddressInv'
  BY <1>2 DEF Invalidate
<1>3. ASSUME NEW p \in Procs, PutAddress(p) PROVE AddressInv'
  BY <1>3 DEF PutAddress, Marked, CurrentInv
<1>4. ASSUME NEW p \in Procs, Clear(p) PROVE AddressInv'
  BY <1>4 DEF Clear, Cleared
<1>5. ASSUME NEW p \in Procs, ReadCounters(p) \/ Check(p) \/ Address(p)
      PROVE AddressInv'
  BY <1>5 DEF ReadCounters, Check, Address
<1>6. ASSUME NEW p \in Procs, Baseline(p) \/ StoreTraffic(p) PROVE AddressInv'
  <2>1. /\ changed' = changed /\ iface' = iface /\ net'.ip = net.ip
        /\ "ip" \in doubt => "ip" \in doubt'
    BY <1>6 DEF Baseline, StoreTraffic, Marked
  <2>2. \E label \in {"store", "check"} :
          pc[p] \in {"baseline", "store"} /\ pc' = [pc EXCEPT ![p] = label]
    BY <1>6 DEF Baseline, StoreTraffic
  <2>3. ASSUME NEW q \in Procs, Pending(q) PROVE Pending(q)'
    BY <2>1, <2>2, <2>3
  <2> QED
    BY <2>1, <2>3
<1>7. CASE Change
  BY <1>7 DEF Change
<1>8. CASE UNCHANGED vars
  BY <1>8 DEF vars
<1> HIDE DEF TypeOK, LocalInv, AddressInv, Pending, machine, shared, locals, history, Goto
<1> QED
  BY <1>1, <1>2, <1>3, <1>4, <1>5, <1>6, <1>7, <1>8 DEF Next, Run

LEMMA CrossCorrect == Spec => []CrossInv
<1>1. Init => CrossInv
  BY DEF Init, CrossInv, CurrentInv, RateInv, RateOfOneInterface, AddressInv, Cleared, Procs
<1>2. TypeOK /\ LocalInv /\ CrossInv /\ [Next]_vars => CrossInv'
  BY CurrentStep, RateStep, AddressStep DEF CrossInv
<1> QED
  BY <1>1, <1>2, TypeCorrect, PTL DEF Spec

\* However the runs of the two collectors overlap, a rate mixes the counters of
\* two interfaces only if the traffic run before it was crossed by a switch on
\* its way to the baseline, and runs that are over leave the address of one
\* beside another's name only if the run that stored it was crossed, for any
\* number of interfaces and changes.
THEOREM OnlyCrossedRunsMix == Spec => []OfOneInterface
<1>1. CrossInv => OfOneInterface
  BY DEF CrossInv, RateInv, AddressInv, Pending, OfOneInterface, RateOfOneInterface,
         AddressOfInterface, Idle
<1> QED
  BY <1>1, CrossCorrect, PTL
=============================================================================
