-------------------------- MODULE Publisher_proof --------------------------
(* Theorems about Publisher, for every value of its constants. *)
EXTENDS Publisher, TLAPS

\* Every step keeps every variable in its type.
THEOREM TypeCorrect == Spec => []TypeOK
<1>1. Init => TypeOK
  <2> SUFFICES ASSUME Init PROVE TypeOK
    OBVIOUS
  <2>1. token \in BOOLEAN /\ dirty \in BOOLEAN /\ cancelled \in BOOLEAN
    BY Zenon DEF Init
  <2>2. /\ store \in Nat /\ snap \in Nat /\ pub \in Nat /\ owed \in Nat /\ errors \in Nat
        /\ cpc \in [Collectors -> {"select", "run", "more", "ping", "done"}]
        /\ lpc \in {"select", "publish", "final", "exit"}
    BY DEF Init
  <2> QED
    BY <2>1, <2>2 DEF TypeOK
<1>2. TypeOK /\ [Next]_vars => TypeOK'
  <2> SUFFICES ASSUME TypeOK, [Next]_vars PROVE TypeOK'
    OBVIOUS
  <2> USE ConstAssumption DEF TypeOK, loopVars
  <2>1. ASSUME NEW c \in Collectors, Collect(c) PROVE TypeOK'
    <3>1. token' \in BOOLEAN
      BY <2>1, Zenon DEF Collect, Tick, Leave, Update, Ping
    <3>2. /\ store' \in Nat /\ owed' \in Nat
          /\ cpc' \in [Collectors -> {"select", "run", "more", "ping", "done"}]
      BY <2>1 DEF Collect, Tick, Leave, Update, Ping
    <3>3. UNCHANGED <<lpc, dirty, snap, pub, errors, cancelled>>
      BY <2>1 DEF Collect, Tick, Leave, Update, Ping
    <3> QED
      BY <3>1, <3>2, <3>3
  <2>2. CASE TakeUpdate \/ FlushTick \/ Done
    BY <2>2 DEF TakeUpdate, FlushTick, Done
  <2>3. CASE PublishOK \/ PublishFails
    <3>1. dirty' \in BOOLEAN
      BY <2>3, Zenon DEF PublishOK, PublishFails
    <3>2. /\ pub' \in Nat /\ errors' \in Nat
          /\ lpc' \in {"select", "publish", "final", "exit"}
      BY <2>3 DEF PublishOK, PublishFails, Resume
    <3>3. UNCHANGED <<store, token, cpc, snap, cancelled, owed>>
      BY <2>3 DEF PublishOK, PublishFails
    <3> QED
      BY <3>1, <3>2, <3>3
  <2>4. CASE Cancel
    BY <2>4 DEF Cancel
  <2>5. CASE UNCHANGED vars
    BY <2>5 DEF vars
  <2> QED
    BY <2>1, <2>2, <2>3, <2>4, <2>5 DEF Next, Loop
<1> QED
  BY <1>1, <1>2, PTL DEF Spec

\* NoLostUpdate is inductive: each place an update can be on its way hands it
\* on to the next one.
LEMMA NoLostUpdateStep == TypeOK /\ NoLostUpdate /\ [Next]_vars => NoLostUpdate'
<1> SUFFICES ASSUME TypeOK, NoLostUpdate, [Next]_vars PROVE NoLostUpdate'
  OBVIOUS
<1> USE DEF TypeOK, NoLostUpdate, loopVars
<1>1. ASSUME NEW c \in Collectors, Tick(c) \/ Leave(c) PROVE NoLostUpdate'
  <2>1. UNCHANGED <<store, token, loopVars>> /\ cpc[c] = "select"
    BY <1>1 DEF Tick, Leave
  <2>2. \A e \in Collectors : cpc[e] \in {"more", "ping"} => cpc'[e] = cpc[e]
    BY <1>1 DEF Tick, Leave
  <2>3. Pinging => Pinging'
    BY <2>2 DEF Pinging
  <2> QED
    BY <2>1, <2>3
<1>2. ASSUME NEW c \in Collectors, Update(c) PROVE NoLostUpdate'
  <2>1. cpc'[c] \in {"more", "ping"}
    BY <1>2 DEF Update
  <2> QED
    BY <2>1 DEF Pinging
<1>3. ASSUME NEW c \in Collectors, Ping(c) PROVE NoLostUpdate'
  BY <1>3 DEF Ping
<1>4. ASSUME Loop \/ Cancel \/ UNCHANGED vars PROVE Pinging' <=> Pinging
  BY <1>4 DEF Loop, TakeUpdate, FlushTick, Done, PublishOK, PublishFails,
              Cancel, vars, Pinging
<1>5. CASE TakeUpdate
  BY <1>4, <1>5 DEF TakeUpdate, Loop
<1>6. CASE FlushTick \/ Done
  BY <1>4, <1>6 DEF FlushTick, Done, Loop
<1>7. CASE PublishOK
  BY <1>4, <1>7 DEF PublishOK, Resume, Loop
<1>8. CASE PublishFails
  BY <1>4, <1>8 DEF PublishFails, Resume, Loop
<1>9. CASE Cancel \/ UNCHANGED vars
  BY <1>4, <1>9 DEF Cancel, vars
<1> QED
  BY <1>1, <1>2, <1>3, <1>5, <1>6, <1>7, <1>8, <1>9 DEF Next, Collect, Loop

\* An update stays on its way to the state file until it is there: for any
\* number of collectors, updates and failed publications.
THEOREM NothingLost == Spec => []NoLostUpdate
<1>1. Init => NoLostUpdate
  BY DEF Init, NoLostUpdate
<1> QED
  BY <1>1, TypeCorrect, NoLostUpdateStep, PTL DEF Spec

\* What was pinged before the cancellation: the loop knows of it, its ping is
\* in the channel, or it is in the snapshot that is, or has been, published.
FlushInv ==
  /\ owed <= store
  /\ lpc = "select" => dirty \/ token \/ pub >= owed
  /\ lpc \in {"publish", "final"} => dirty /\ (token \/ snap >= owed)
  /\ lpc = "exit" => errors > 0 \/ token \/ pub >= owed
  /\ lpc \in {"final", "exit"} => cancelled

LEMMA FlushStep == TypeOK /\ FlushInv /\ [Next]_vars => FlushInv'
<1> SUFFICES ASSUME TypeOK, FlushInv, [Next]_vars PROVE FlushInv'
  OBVIOUS
<1> USE DEF TypeOK, FlushInv, loopVars
<1>1. ASSUME NEW c \in Collectors, Collect(c) PROVE FlushInv'
  BY <1>1 DEF Collect, Tick, Leave, Update, Ping
<1>2. CASE TakeUpdate \/ FlushTick \/ Done
  BY <1>2 DEF TakeUpdate, FlushTick, Done
<1>3. CASE PublishOK \/ PublishFails
  BY <1>3 DEF PublishOK, PublishFails, Resume
<1>4. CASE Cancel \/ UNCHANGED vars
  BY <1>4 DEF Cancel, vars
<1> QED
  BY <1>1, <1>2, <1>3, <1>4 DEF Next, Loop

\* The last flush publishes what was pinged before the signal, but for a ping
\* that is left in the channel and a publication that fails.
THEOREM LastFlush == Spec => []ShutdownFlushed
<1>1. Init => FlushInv
  BY DEF Init, FlushInv
<1>2. TypeOK /\ FlushInv => ShutdownFlushed
  BY DEF TypeOK, FlushInv, ShutdownFlushed
<1> QED
  BY <1>1, <1>2, TypeCorrect, FlushStep, PTL DEF Spec

\* The copy in hand is between what was published and what is stored.
CopyInv == pub <= store /\ (lpc \in {"publish", "final"} => pub <= snap /\ snap <= store)

\* What publishUpdates makes of the file: it follows the store forward, and
\* after the loop nothing is published.
ForwardOnly ==
  [][/\ pub <= pub' /\ pub' <= store'
     /\ lpc = "exit" => pub' = pub /\ lpc' = "exit"]_<<store, pub, lpc>>

\* Publications never take the file back to an older snapshot or past the
\* store, through failures and repetitions, and none follows the last flush.
\* StateFile's readers see publications in order (ReadsAreMonotonic): so what
\* they see of the collectors' results does not go back either.
THEOREM PublishedGoesForward == Spec => ForwardOnly
<1> DEFINE Forward == /\ pub <= pub' /\ pub' <= store'
                      /\ lpc = "exit" => pub' = pub /\ lpc' = "exit"
<1>1. Init => CopyInv
  BY DEF Init, CopyInv
<1>2. TypeOK /\ CopyInv /\ [Next]_vars => CopyInv' /\ Forward
  <2> SUFFICES ASSUME TypeOK, CopyInv, [Next]_vars PROVE CopyInv' /\ Forward
    OBVIOUS
  <2> USE DEF TypeOK, CopyInv, loopVars
  <2>1. ASSUME NEW c \in Collectors, Collect(c) PROVE CopyInv' /\ Forward
    BY <2>1 DEF Collect, Tick, Leave, Update, Ping
  <2>2. CASE TakeUpdate \/ FlushTick \/ Done
    BY <2>2 DEF TakeUpdate, FlushTick, Done
  <2>3. CASE PublishOK \/ PublishFails
    BY <2>3 DEF PublishOK, PublishFails, Resume
  <2>4. CASE Cancel \/ UNCHANGED vars
    BY <2>4 DEF Cancel, vars
  <2> QED
    BY <2>1, <2>2, <2>3, <2>4 DEF Next, Loop
<1>3. TypeOK /\ CopyInv /\ [Next]_vars => [Forward]_<<store, pub, lpc>>
  BY <1>2
<1> QED
  BY <1>1, <1>2, <1>3, TypeCorrect, PTL DEF Spec, ForwardOnly
=============================================================================
