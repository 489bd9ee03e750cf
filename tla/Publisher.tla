----------------------------- MODULE Publisher -----------------------------
(***************************************************************************)
(* From the collectors to the state file: collector goroutines that update *)
(* the store and ping the Updates channel (internal/app, internal/model),  *)
(* and the loop of publishUpdates that coalesces the pings and publishes   *)
(* (cmd/nasmond/main.go).                                                  *)
(*                                                                         *)
(* The content of a snapshot is its version, the number of Store.Update    *)
(* calls so far.  A publication is WriteAtomic as its caller sees it: the  *)
(* copy that Store.Snapshot made, and later success or an error.           *)
(***************************************************************************)
EXTENDS Naturals

CONSTANTS
  Collectors,  \* the goroutines of App.Start
  Immediate,   \* those that run once before their first tick
  MaxVersion,  \* bound: no run of a collector starts at this version
  MaxErrors    \* bound: failed publications

ASSUME ConstAssumption ==
  Immediate \subseteq Collectors /\ MaxVersion \in Nat /\ MaxErrors \in Nat

VARIABLES
  store,     \* the version of the snapshot in the store
  token,     \* the Updates channel of capacity 1 holds a value
  cpc,       \* where each collector goroutine is
  lpc,       \* where publishUpdates is
  dirty,     \* its local variable
  snap,      \* the version it is publishing
  pub,       \* the version last published
  cancelled, \* ctx.Done() is closed: SIGTERM or SIGINT arrived
  owed,      \* the version at the last ping before the cancellation
  errors

vars == <<store, token, cpc, lpc, dirty, snap, pub, cancelled, owed, errors>>
loopVars == <<lpc, dirty, snap, pub, errors>>

TypeOK ==
  /\ store \in Nat /\ snap \in Nat /\ pub \in Nat /\ owed \in Nat
  /\ token \in BOOLEAN /\ dirty \in BOOLEAN /\ cancelled \in BOOLEAN
  /\ cpc \in [Collectors -> {"select", "run", "more", "ping", "done"}]
  /\ lpc \in {"select", "publish", "final", "exit"}
  /\ errors \in Nat

\* main has published the snapshot that Bootstrap made, and calls Start.
Init ==
  /\ store = 0 /\ snap = 0 /\ pub = 0 /\ owed = 0
  /\ token = FALSE /\ dirty = FALSE /\ cancelled = FALSE
  /\ cpc = [c \in Collectors |-> IF c \in Immediate THEN "run" ELSE "select"]
  /\ lpc = "select"
  /\ errors = 0

----------------------------------------------------------------------------
(* A collector goroutine: periodic and the function it runs. *)

\* The ticker fires: the collector runs.  When ctx is done too, Go's select
\* picks either case.
Tick(c) ==
  /\ cpc[c] = "select"
  /\ store < MaxVersion
  /\ cpc' = [cpc EXCEPT ![c] = "run"]
  /\ UNCHANGED <<store, token, cancelled, owed, loopVars>>

Leave(c) ==
  /\ cpc[c] = "select"
  /\ cancelled
  /\ cpc' = [cpc EXCEPT ![c] = "done"]
  /\ UNCHANGED <<store, token, cancelled, owed, loopVars>>

\* Store.Update under the store's mutex.  A run makes up to two updates
\* before it pings: the several of main and thermal are not told apart
\* beyond that, and a run that finds nothing makes none.
Update(c) ==
  /\ cpc[c] \in {"run", "more"}
  /\ store' \in {store, store + 1}
  /\ \/ cpc[c] = "run" /\ cpc' = [cpc EXCEPT ![c] = "more"]
     \/ cpc' = [cpc EXCEPT ![c] = "ping"]
  /\ UNCHANGED <<token, cancelled, owed, loopVars>>

\* ping: a send that gives up when the channel is full.
Ping(c) ==
  /\ cpc[c] = "ping"
  /\ token' = TRUE
  /\ owed' = IF cancelled THEN owed ELSE store
  /\ cpc' = [cpc EXCEPT ![c] = "select"]
  /\ UNCHANGED <<store, cancelled, loopVars>>

----------------------------------------------------------------------------
(* publishUpdates. *)

\* case <-updates
TakeUpdate ==
  /\ lpc = "select" /\ token
  /\ token' = FALSE
  /\ dirty' = TRUE
  /\ UNCHANGED <<store, cpc, lpc, snap, pub, cancelled, owed, errors>>

\* case <-ticker.C: flush copies the store and starts to publish; a tick
\* when nothing is dirty does nothing.
FlushTick ==
  /\ lpc = "select" /\ dirty
  /\ snap' = store
  /\ lpc' = "publish"
  /\ UNCHANGED <<store, token, cpc, dirty, pub, cancelled, owed, errors>>

\* Faulty variant: a loop with nothing to flush does not return.
DoneOnlyDirty ==
  /\ lpc = "select" /\ cancelled /\ dirty
  /\ snap' = store
  /\ lpc' = "final"
  /\ UNCHANGED <<store, token, cpc, dirty, pub, cancelled, owed, errors>>

\* Faulty variant: the loop is left at once.
DoneNoFlush ==
  /\ lpc = "select" /\ cancelled
  /\ lpc' = "exit"
  /\ UNCHANGED <<store, token, cpc, dirty, snap, pub, cancelled, owed, errors>>

\* case <-ctx.Done(): the last flush.
Done ==
  /\ lpc = "select" /\ cancelled
  /\ IF dirty THEN snap' = store /\ lpc' = "final"
              ELSE snap' = snap /\ lpc' = "exit"
  /\ UNCHANGED <<store, token, cpc, dirty, pub, cancelled, owed, errors>>

Resume == lpc' = IF lpc = "publish" THEN "select" ELSE "exit"

\* Faulty variant: a success also empties the channel.
PublishDrains ==
  /\ lpc \in {"publish", "final"}
  /\ pub' = snap
  /\ dirty' = FALSE /\ token' = FALSE
  /\ Resume
  /\ UNCHANGED <<store, cpc, snap, cancelled, owed, errors>>

\* publish returned nil.
PublishOK ==
  /\ lpc \in {"publish", "final"}
  /\ pub' = snap
  /\ dirty' = FALSE
  /\ Resume
  /\ UNCHANGED <<store, token, cpc, snap, cancelled, owed, errors>>

\* Faulty variant: a failed publication is forgotten.
FailureForgotten ==
  /\ lpc \in {"publish", "final"}
  /\ errors < MaxErrors
  /\ errors' = errors + 1
  /\ dirty' = FALSE
  /\ Resume
  /\ UNCHANGED <<store, token, cpc, snap, pub, cancelled, owed>>

\* publish returned an error: it is reported, and dirty stays.
PublishFails ==
  /\ lpc \in {"publish", "final"}
  /\ errors < MaxErrors
  /\ errors' = errors + 1
  /\ Resume
  /\ UNCHANGED <<store, token, cpc, dirty, snap, pub, cancelled, owed>>

\* The signal handler of NotifyContext.
Cancel ==
  /\ ~cancelled /\ lpc # "exit"
  /\ cancelled' = TRUE
  /\ UNCHANGED <<store, token, cpc, owed, loopVars>>

----------------------------------------------------------------------------
Collect(c) == Tick(c) \/ Leave(c) \/ Update(c) \/ Ping(c)

Loop == TakeUpdate \/ FlushTick \/ Done \/ PublishOK \/ PublishFails

Next == (\E c \in Collectors : Collect(c)) \/ Loop \/ Cancel

Spec == Init /\ [][Next]_vars

\* Runs that were begun end; a ready case of a select that is passed over
\* is picked in the end, for Go picks among the ready ones at random; a
\* publication returns.  No fairness makes a collector run, a signal arrive
\* or a publication fail.
FairSpec ==
  /\ Spec
  /\ \A c \in Collectors : WF_vars(Update(c) \/ Ping(c))
  /\ SF_vars(TakeUpdate) /\ SF_vars(FlushTick) /\ SF_vars(Done)
  /\ WF_vars(PublishOK)

----------------------------------------------------------------------------
(* Properties. *)

\* A run that has updated the store is about to ping.
Pinging == \E c \in Collectors : cpc[c] \in {"more", "ping"}

\* No update is forgotten: while the file is behind the store, the loop is
\* dirty, or a ping is in the channel, or one is still to come; and what was
\* stored after a publication took its copy is behind a later ping.
NoLostUpdate ==
  /\ pub < store => dirty \/ token \/ Pinging
  /\ lpc \in {"publish", "final"} /\ snap < store => token \/ Pinging

\* Whatever a collector stores reaches the state file, through failed
\* publications and pings that found the channel full, unless the daemon is
\* told to stop.
EveryUpdatePublished ==
  \A n \in 1 .. MaxVersion : store >= n ~> (pub >= n \/ cancelled)

\* A daemon that is told to stop leaves its loop, however often its
\* collectors ping and its publications fail.
LoopStops == cancelled ~> lpc = "exit"

\* main_test.go:38 "publishes after shutdown flush = %d, want 2": when the
\* loop is left without an error, what was pinged before the cancellation has
\* been published, unless its ping is still in the channel, which the select
\* may leave there.
ShutdownFlushed == lpc = "exit" /\ errors = 0 /\ ~token => pub >= owed
=============================================================================
