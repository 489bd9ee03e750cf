----------------------------- MODULE DiskHealth -----------------------------
(***************************************************************************)
(* The entries of Snapshot.DiskHealth and the four goroutines that write   *)
(* them: the layout collector (CollectUsage, then CollectDiskIdentities),  *)
(* CollectDiskPowerState, CollectDiskTemps and CollectSMART.  Each of them *)
(* takes a list of devices, asks every device, which takes as long as its  *)
(* commands take, and then replaces the entries in one Store.Update.       *)
(*                                                                         *)
(* What a command reports of a disk is the disk's age at that moment, so a *)
(* larger reading is a newer one.  A device is a number: its place in the  *)
(* order of names, in which CollectUsage sorts the lists.                  *)
(***************************************************************************)
EXTENDS Naturals

CONSTANTS
    Device,       \* the block devices
    SmartCapable, \* those that are not mmcblk*
    Rotational,   \* those with queue/rotational # 0
    Pluggable,    \* those whose mounts come and go
    QuietWindow,  \* whether DISK_QUIET_WINDOW is above zero
    MaxAge,       \* bound: the largest age
    MaxChange,    \* bound: changes of mounts, ages and power states
    MaxFailure    \* bound: polls that fail, fall short or are not made

ASSUME ConstAssumption ==
    /\ Device \subseteq Nat
    /\ SmartCapable \subseteq Device
    /\ Rotational \subseteq Device
    /\ Pluggable \subseteq Device
    /\ QuietWindow \in BOOLEAN
    /\ MaxAge \in Nat /\ MaxChange \in Nat /\ MaxFailure \in Nat

VARIABLES
    mounted,       \* the machine: devices with a mounted file system
    asleep,        \* the machine: disks in standby
    age,           \* the machine: how old each disk's condition is
    changes,       \* changes of the machine so far
    failures,      \* polls that have failed, fallen short or not been made
    healthDevices, \* DiskCollector.healthDevices
    shown,         \* the devices with an entry in Snapshot.DiskHealth
    health,        \* their entries
    run            \* the run each collector is in

machine == <<mounted, asleep, age, changes>>
snapshot == <<shown, health>>
vars == <<machine, failures, healthDevices, snapshot, run>>

\* Readings: "", then the "N/A" of a report that has no such line, then the
\* "N/A" or "PENDING" of a disk that was asleep, then what was read.
Blank == 0
NoValue == 1
Placeholder == 2
First == 3

\* The fields of model.DiskHealth by owner: identity, power state,
\* temperature, SMART health and counters.
Entry == [id : BOOLEAN, sleeping : BOOLEAN, temp : Nat, smart : Nat, counts : Nat]

\* The zero value of model.DiskHealth.
BlankEntry == [id |-> FALSE, sleeping |-> FALSE,
               temp |-> Blank, smart |-> Blank, counts |-> Blank]

Collector == {"layout", "power", "temp", "smart"}

\* A collector between two runs.
Idle == [pc |-> "idle", devs |-> {}, left |-> {}, answered |-> {},
         updates |-> [d \in Device |-> BlankEntry]]

Run == [pc : {"idle", "store", "identify", "snapshot", "probe"},
        devs : SUBSET Device, left : SUBSET Device, answered : SUBSET Device,
        updates : [Device -> Entry]]

\* DiskCollector.smartDevices, stored together with healthDevices.
SmartDevices == healthDevices \cap SmartCapable

\* The list a collector asks for when its run begins.
ListFor(p) == IF p = "power" THEN healthDevices ELSE SmartDevices

\* Bootstrap has run CollectUsage and CollectDiskIdentities.
Init ==
    /\ mounted \in {Device \ gone : gone \in SUBSET Pluggable}
    /\ asleep \in SUBSET Rotational
    /\ age = [d \in Device |-> First]
    /\ changes = 0
    /\ failures = 0
    /\ healthDevices = mounted
    /\ shown = mounted
    /\ health = [d \in Device |-> IF d \in mounted
                                  THEN [BlankEntry EXCEPT !.id = TRUE]
                                  ELSE BlankEntry]
    /\ run = [p \in Collector |-> Idle]

-----------------------------------------------------------------------------
(* The machine *)

Mount(d) ==
    /\ d \in Pluggable
    /\ changes < MaxChange
    /\ changes' = changes + 1
    /\ mounted' = IF d \in mounted THEN mounted \ {d} ELSE mounted \cup {d}
    /\ UNCHANGED <<asleep, age, failures, healthDevices, snapshot, run>>

SpinDownOrUp(d) ==
    /\ d \in Rotational
    /\ changes < MaxChange
    /\ changes' = changes + 1
    /\ asleep' = IF d \in asleep THEN asleep \ {d} ELSE asleep \cup {d}
    /\ UNCHANGED <<mounted, age, failures, healthDevices, snapshot, run>>

Age(d) ==
    /\ age[d] < MaxAge
    /\ changes < MaxChange
    /\ changes' = changes + 1
    /\ age' = [age EXCEPT ![d] = @ + 1]
    /\ UNCHANGED <<mounted, asleep, failures, healthDevices, snapshot, run>>

-----------------------------------------------------------------------------
(* The layout collector *)

\* CollectUsage reads the mounts and asks every file system for its size.
ReadMounts ==
    /\ run["layout"].pc = "idle"
    /\ run' = [run EXCEPT !["layout"].pc = "store", !["layout"].devs = mounted]
    /\ UNCHANGED <<machine, failures, healthDevices, snapshot>>

\* CollectUsage stores the lists of devices.
StoreLists ==
    /\ run["layout"].pc = "store"
    /\ healthDevices' = run["layout"].devs
    /\ run' = [run EXCEPT !["layout"].pc = "identify"]
    /\ UNCHANGED <<machine, failures, snapshot>>

\* Replaces the entries by one for each device of a list.
Replace(devs, entries) ==
    /\ shown' = devs
    /\ health' = [d \in Device |-> IF d \in devs THEN entries[d] ELSE BlankEntry]

\* CollectDiskIdentities: an entry for each device of the list, with its brand.
Identify ==
    /\ run["layout"].pc = "identify"
    /\ Replace(healthDevices, [d \in Device |-> [health[d] EXCEPT !.id = TRUE]])
    /\ run' = [run EXCEPT !["layout"] = Idle]
    /\ UNCHANGED <<machine, failures, healthDevices>>

-----------------------------------------------------------------------------
(* The collectors of power state, temperature and SMART data *)

\* The run begins with a copy of the list.  Without a device, temperatures
\* and SMART data are not collected at all.
Start(p) ==
    /\ p # "layout"
    /\ run[p].pc = "idle"
    /\ p # "power" => ListFor(p) # {}
    /\ run' = [run EXCEPT ![p].pc = IF p = "smart" THEN "snapshot" ELSE "probe",
                          ![p].devs = ListFor(p), ![p].left = ListFor(p)]
    /\ UNCHANGED <<machine, failures, healthDevices, snapshot>>

\* CollectSMART starts from the entries it finds now: h := previous[d].
TakePrevious ==
    /\ run["smart"].pc = "snapshot"
    /\ run' = [run EXCEPT !["smart"].pc = "probe", !["smart"].updates = health]
    /\ UNCHANGED <<machine, failures, healthDevices, snapshot>>

\* Whether collector p is about to ask device d.
Asks(p, d) ==
    /\ run[p].pc = "probe"
    /\ d \in run[p].left
    /\ \A e \in run[p].left : d <= e

\* Device d gives rise to update h.
Answer(p, d, h) ==
    /\ run' = [run EXCEPT ![p].left = @ \ {d}, ![p].answered = @ \cup {d},
                          ![p].updates[d] = h]
    /\ UNCHANGED <<machine, healthDevices, snapshot>>

\* A poll that falls short counts against the bound.
Counted(short) ==
    /\ short => failures < MaxFailure
    /\ failures' = IF short THEN failures + 1 ELSE failures

\* diskPowerState; a disk that does not rotate is never asleep.
AskPower(d) ==
    /\ Asks("power", d)
    /\ Answer("power", d, [BlankEntry EXCEPT !.sleeping = d \in asleep])
    /\ Counted(FALSE)

\* smartctl -n standby -A.  In a usable report, that of a smartctl killed
\* half-way included, parseTemp may find no temperature.
AskTemperature(d) ==
    /\ Asks("temp", d)
    /\ \/ /\ d \in asleep
          /\ Answer("temp", d, [BlankEntry EXCEPT !.sleeping = TRUE])
          /\ Counted(FALSE)
       \/ /\ d \notin asleep
          /\ \E t \in {age[d], NoValue} :
                /\ Answer("temp", d, [BlankEntry EXCEPT !.temp = t])
                /\ Counted(t = NoValue)

\* smartctl -n standby -H -A.  A usable report without a verdict leaves
\* "N/A" for it; counters it has no lines for keep their previous values.
AskSMART(d) ==
    /\ Asks("smart", d)
    /\ LET h == run["smart"].updates[d]
       IN  \/ /\ d \in asleep
              /\ Answer("smart", d, [h EXCEPT !.smart = IF @ = Blank THEN Placeholder ELSE @])
              /\ Counted(FALSE)
           \/ /\ d \notin asleep
              /\ \E v \in {age[d], NoValue}, c \in {age[d], h.counts} :
                    /\ Answer("smart", d, [h EXCEPT !.smart = v, !.counts = c])
                    /\ Counted(v = NoValue \/ c # age[d])

\* No update: shouldPollDisk leaves a quiet disk alone.
LeaveAlone(p, d) ==
    /\ p # "power"
    /\ Asks(p, d)
    /\ QuietWindow
    /\ d \in Rotational
    /\ Counted(TRUE)
    /\ run' = [run EXCEPT ![p].left = @ \ {d}]
    /\ UNCHANGED <<machine, healthDevices, snapshot>>

\* No update: the command fails.  Disks that do not rotate have no hdparm.
CommandFails(p, d) ==
    /\ Asks(p, d)
    /\ p = "power" => d \in Rotational
    /\ Counted(TRUE)
    /\ run' = [run EXCEPT ![p].left = @ \ {d}]
    /\ UNCHANGED <<machine, healthDevices, snapshot>>

\* Faulty variant: a disk that was asleep stays asleep.
MergePowerSticks(dst, src) == [dst EXCEPT !.sleeping = @ \/ src.sleeping]

\* mergePowerHealth
MergePower(dst, src) == [dst EXCEPT !.sleeping = src.sleeping]

\* Faulty variant: an update from a sleeping disk is an update.
MergeTemperatureAlways(dst, src) == [dst EXCEPT !.temp = src.temp]

\* mergeTemperatureHealth
MergeTemperature(dst, src) ==
    [dst EXCEPT !.temp = IF ~ src.sleeping THEN src.temp
                         ELSE IF @ = Blank THEN Placeholder ELSE @]

\* Faulty variant: the whole entry is replaced by the one of the run.
MergeSMARTWhole(dst, src) == [src EXCEPT !.sleeping = dst.sleeping]

\* Faulty variant: only the first report of a disk is kept.
MergeSMARTOnce(dst, src) ==
    [dst EXCEPT !.smart = IF @ >= First THEN @ ELSE src.smart, !.counts = src.counts]

\* mergeSMARTHealth
MergeSMART(dst, src) == [dst EXCEPT !.smart = src.smart, !.counts = src.counts]

MergeOf(p, dst, src) ==
    IF p = "power" THEN MergePower(dst, src)
    ELSE IF p = "temp" THEN MergeTemperature(dst, src)
    ELSE MergeSMART(dst, src)

\* mergeDiskHealth with the list and the updates of the run.
MergeDiskHealth(p) ==
    /\ run[p].pc = "probe"
    /\ run[p].left = {}
    /\ Replace(run[p].devs,
               [d \in Device |-> IF d \in run[p].answered
                                 THEN MergeOf(p, health[d], run[p].updates[d])
                                 ELSE health[d]])
    /\ run' = [run EXCEPT ![p] = Idle]
    /\ UNCHANGED <<machine, failures, healthDevices>>

-----------------------------------------------------------------------------

Layout == ReadMounts \/ StoreLists \/ Identify

Ask(d) == AskPower(d) \/ AskTemperature(d) \/ AskSMART(d)

\* What goroutine p does.
Goroutine(p) ==
    \/ Start(p)
    \/ MergeDiskHealth(p)
    \/ \E d \in Device : LeaveAlone(p, d) \/ CommandFails(p, d)

Power == Goroutine("power") \/ \E d \in Device : AskPower(d)
Temperature == Goroutine("temp") \/ \E d \in Device : AskTemperature(d)
SMART == Goroutine("smart") \/ TakePrevious \/ \E d \in Device : AskSMART(d)

Machine == \E d \in Device : Mount(d) \/ SpinDownOrUp(d) \/ Age(d)

Next == Machine \/ Layout \/ Power \/ Temperature \/ SMART

Spec == Init /\ [][Next]_vars

\* Between two runs a collector of temperatures or SMART data waits for a list.
Waits(p) ==
    p \in {"temp", "smart"} /\ run[p].pc = "idle" /\ ListFor(p) = {}

\* Tickers keep firing and every command ends, if only by its timeout: weak
\* fairness of each goroutine, which can always take a step but when it waits.
FairSpec ==
    Spec /\ \A p \in Collector : []<>Waits(p) \/ []<><<run'[p] # run[p]>>_vars

-----------------------------------------------------------------------------
(* Properties *)

\* The types, what a run has asked, and that a device without an entry is
\* represented by the zero value, which is what current[dev] gives.
TypeOK ==
    /\ mounted \subseteq Device
    /\ asleep \subseteq Rotational
    /\ age \in [Device -> Nat]
    /\ changes \in Nat
    /\ failures \in Nat
    /\ healthDevices \subseteq Device
    /\ shown \subseteq Device
    /\ health \in [Device -> Entry]
    /\ run \in [Collector -> Run]
    /\ \A d \in Device \ shown : health[d] = BlankEntry

\* A temperature, a SMART verdict or a counter on display is never replaced by
\* an older one, whichever collectors overlap: each writes only what it has
\* read itself, and what it merges is not older than what it finds.  A counter
\* is not replaced by nothing either, whatever a report leaves out.
ReadingsNeverGoBack ==
    [][\A d \in shown \cap shown' :
          /\ health'[d].temp >= health[d].temp \/ health'[d].temp = NoValue
          /\ health'[d].smart >= health[d].smart \/ health'[d].smart = NoValue
          /\ health'[d].counts >= health[d].counts]_vars

\* The run of p that ends with this step was told of d, awake, and its report
\* had no such reading.
Untold(p, d, reading) ==
    /\ d \in run[p].answered
    /\ reading = NoValue
    /\ run'[p] = Idle

\* README: "The last known temperature, SMART health, and R/P/U counters
\* remain visible".  What was read of a disk that stays mounted is on display
\* as long as the disk is on the list, asleep or not, whichever commands fail
\* and whatever is plugged in and out beside it; only a usable report of the
\* disk itself that has no temperature, or no verdict, takes that one away,
\* and nothing takes the counters.
LastKnownStays ==
    [][\A d \in (shown \cap healthDevices \cap healthDevices') \ Pluggable :
          /\ health[d].temp >= First =>
                /\ d \in shown'
                /\ \/ health'[d].temp >= First
                   \/ Untold("temp", d, run["temp"].updates[d].temp)
          /\ health[d].smart >= First =>
                /\ d \in shown'
                /\ \/ health'[d].smart >= First
                   \/ Untold("smart", d, run["smart"].updates[d].smart)
          /\ health[d].counts >= First => d \in shown' /\ health'[d].counts >= First]_vars

\* README: microSD and eMMC devices "remain visible for disk usage, identity,
\* and I/O", although smartctl is never asked about them.
IdentityStays ==
    [][shown \cap healthDevices \cap healthDevices' \subseteq shown']_vars

\* When the machine is quiet, the entries are again and again those of the
\* mounted devices, so that nothing a late run has dropped is gone for good; and
\* they become, and stay, those of the mounted disks that smartctl can read,
\* each with its brand and its power state.
EventuallyListed ==
    /\ []<>(shown = mounted)
    /\ <>[](shown \cap SmartCapable = mounted \cap SmartCapable)
    /\ \A d \in SmartCapable :
          <>[](d \in shown => health[d].id /\ (health[d].sleeping <=> d \in asleep))

\* And without a quiet window each comes to show the present temperature,
\* verdict and counters of its disk, if that is awake: what a poor report has
\* taken away comes back with the next good one.
EventuallyRead ==
    ~ QuietWindow =>
       \A d \in SmartCapable :
          <>[](d \in shown \ asleep => /\ health[d].temp = age[d]
                                      /\ health[d].smart = age[d]
                                      /\ health[d].counts = age[d])
=============================================================================
