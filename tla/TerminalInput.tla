--------------------------- MODULE TerminalInput ---------------------------
(***************************************************************************)
(* The way of a key to the screen's loop: bytes of the terminal, a         *)
(* goroutine that decodes them one at a time, a bounded channel, and a     *)
(* loop that may be slow.                                                  *)
(*                                                                         *)
(* A byte is itself or, for the digits of a mouse report, the meaning of   *)
(* them all; "x" is any byte that no sequence has.                         *)
(***************************************************************************)
EXTENDS Naturals, Sequences, FiniteSets

CONSTANTS
  EventCap,   \* capacity of the channel of events
  MaxTyped    \* bound: keys and gestures

ASSUME InputAssumption == EventCap \in Nat \ {0} /\ MaxTyped \in Nat

\* What the user does, as the terminal sends it.
Bytes ==
  [up |-> <<"esc", "[", "A">>, end |-> <<"esc", "O", "F">>,
   pageDown |-> <<"esc", "[", "6", "~">>, click |-> <<"esc", "[", "<", "press", "M">>,
   release |-> <<"esc", "[", "<", "press", "m">>, drag |-> <<"esc", "[", "<", "motion", "M">>,
   wheel |-> <<"esc", "[", "<", "wheel", "M">>, delete |-> <<"esc", "[", "3", "~">>,
   escape |-> <<"esc">>, letter |-> <<"x">>]

Gestures == DOMAIN Bytes

VARIABLES
  typed,    \* history: the gestures so far
  tty,      \* bytes sent and not yet read
  hungUp,   \* the terminal is gone: EOF follows
  reader,   \* where readInputEvents is; "send" with an event, or "closed"
  holding,  \* the event it sends, or what it has read of a sequence
  events,   \* the channel
  handled,  \* history: events the loop has received
  listening \* the loop's inputEvents is not nil

inputVars == <<typed, tty, hungUp, reader, holding, events, handled, listening>>

InputInit ==
  /\ typed = <<>> /\ tty = <<>> /\ hungUp = FALSE
  /\ reader = "start" /\ holding = "none"
  /\ events = <<>> /\ handled = <<>> /\ listening = TRUE

Type ==
  /\ ~hungUp /\ Len(typed) < MaxTyped
  /\ \E g \in Gestures : typed' = Append(typed, g) /\ tty' = tty \o Bytes[g]
  /\ UNCHANGED <<hungUp, reader, holding, events, handled, listening>>

HangUp ==
  /\ ~hungUp /\ hungUp' = TRUE
  /\ UNCHANGED <<typed, tty, reader, holding, events, handled, listening>>

\* parseSGRInput: motion is no event, the wheel is a key.
MouseEvent == [press |-> "click", wheel |-> "up", motion |-> "none"]

Report == DOMAIN MouseEvent

\* One byte of readInputEvents; whatever fits no sequence ends it.
Decode(at, arg, b) ==
  CASE at = "start" /\ b = "esc" -> <<"esc", "none">>
    [] at = "esc" /\ b = "O" -> <<"ss3", "none">>
    [] at = "esc" /\ b = "[" -> <<"csi", "none">>
    [] at = "ss3" /\ b = "F" -> <<"send", "end">>
    [] at = "csi" /\ b = "A" -> <<"send", "up">>
    [] at = "csi" /\ b = "6" -> <<"page", "pageDown">>
    [] at = "page" /\ b = "~" -> <<"send", arg>>
    [] at = "csi" /\ b = "<" -> <<"mouse", "none">>
    [] at = "mouse" /\ b \in Report -> <<"mouse", MouseEvent[b]>>
    [] at = "mouse" /\ b = "M" /\ arg # "none" -> <<"send", arg>>
    [] OTHER -> <<"start", "none">>

ReadByte ==
  /\ reader \notin {"send", "closed"} /\ tty # <<>>
  /\ tty' = Tail(tty)
  /\ LET next == Decode(reader, holding, Head(tty)) IN
       reader' = next[1] /\ holding' = next[2]
  /\ UNCHANGED <<typed, hungUp, events, handled, listening>>

\* Faulty variant: what was sent before the end is not read.
ReadEndsAtOnce ==
  /\ reader \notin {"send", "closed"} /\ hungUp
  /\ reader' = "closed" /\ holding' = "none"
  /\ UNCHANGED <<typed, tty, hungUp, events, handled, listening>>

\* A read fails: the deferred close.
ReadEnds ==
  /\ reader \notin {"send", "closed"} /\ tty = <<>> /\ hungUp
  /\ reader' = "closed" /\ holding' = "none"
  /\ UNCHANGED <<typed, tty, hungUp, events, handled, listening>>

\* Faulty variant: an event that finds the channel full is dropped.
EmitOrDrop ==
  /\ reader = "send"
  /\ events' = IF Len(events) < EventCap THEN Append(events, holding) ELSE events
  /\ reader' = "start" /\ holding' = "none"
  /\ UNCHANGED <<typed, tty, hungUp, handled, listening>>

\* emitInput waits for room.
EmitInput ==
  /\ reader = "send" /\ Len(events) < EventCap
  /\ events' = Append(events, holding)
  /\ reader' = "start" /\ holding' = "none"
  /\ UNCHANGED <<typed, tty, hungUp, handled, listening>>

\* The loop: one event, or nil for a channel that is closed and empty.
Receive ==
  /\ listening
  /\ \/ /\ events # <<>>
        /\ events' = Tail(events) /\ handled' = Append(handled, Head(events))
        /\ UNCHANGED listening
     \/ /\ events = <<>> /\ reader = "closed"
        /\ listening' = FALSE
        /\ UNCHANGED <<events, handled>>
  /\ UNCHANGED <<typed, tty, hungUp, reader, holding>>

InputNext == Type \/ HangUp \/ ReadByte \/ ReadEnds \/ EmitInput \/ Receive

InputSpec == InputInit /\ [][InputNext]_inputVars

\* Reads of bytes that are there return, and the loop comes back to its
\* select, which does not pass a ready case over forever.
FairInputSpec ==
  /\ InputSpec
  /\ WF_inputVars(ReadByte \/ ReadEnds) /\ WF_inputVars(EmitInput)
  /\ WF_inputVars(Receive)

-----------------------------------------------------------------------------
(* Properties *)

\* The types of the variables.
InputTypeOK ==
  /\ typed \in Seq(Gestures) /\ Len(typed) <= MaxTyped /\ hungUp \in BOOLEAN
  /\ reader \in {"start", "esc", "ss3", "csi", "page", "mouse", "send", "closed"}
  /\ holding \in {"none", "up", "end", "pageDown", "click"}
  /\ Len(events) <= EventCap /\ listening \in BOOLEAN

\* The event a gesture stands for.
Meaning ==
  [up |-> "up", wheel |-> "up", end |-> "end", pageDown |-> "pageDown", click |-> "click",
   release |-> "none", drag |-> "none", delete |-> "none", escape |-> "none", letter |-> "none"]

\* The Escape key alone makes the reader take the next byte with it: a gesture
\* is lost if an odd number of them comes right before it.
Swallowed(k) ==
  \E n \in 1 .. k - 1 : /\ n % 2 = 1
                        /\ \A i \in k - n .. k - 1 : typed[i] = "escape"
                        /\ k - n > 1 => typed[k - n - 1] # "escape"

Heard == {k \in DOMAIN typed : Meaning[typed[k]] # "none" /\ ~Swallowed(k)}

\* The n-th event that is due.
Due(n) == Meaning[typed[CHOOSE k \in Heard : Cardinality({i \in Heard : i <= k}) = n]]

InFlight == handled \o events \o (IF reader = "send" THEN <<holding>> ELSE <<>>)

\* terminal_linux.go:97 "Do not drop them when rendering is briefly slower than
\* input delivery": at any time the loop has received, and will receive from the
\* channel and the reader, the events of the gestures so far, in order, each
\* once, without gaps, however full the channel was; only what follows an
\* Escape is lost.
EventsInOrder ==
  /\ Len(InFlight) <= Cardinality(Heard)
  /\ \A n \in DOMAIN InFlight : InFlight[n] = Due(n)

\* The loop comes to receive as many events as are due, also those from before
\* the terminal hung up; by EventsInOrder they are the ones that are due.
AllHandled == []<>(Len(handled) = Cardinality(Heard))
=============================================================================
