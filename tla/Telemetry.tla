------------------------------ MODULE Telemetry ------------------------------
(***************************************************************************)
(* The telemetry service: an event goes to each collector in turn.  The    *)
(* collectors it is constructed with are wrapped in buffers, which are     *)
(* emptied when they are full, by a timer, on request and at shutdown;     *)
(* collectors that are added later are called directly.  A collector is    *)
(* the application's code: while it collects it may record, flush, shut    *)
(* down, add and remove, so that calls nest.  The stack is what is         *)
(* running, the innermost last: a loop over the collectors, or a delivery, *)
(* whose first event is the one the collector has in hand.                 *)
(***************************************************************************)
EXTENDS Naturals, Sequences, SequencesExt, Filters

CONSTANTS
  Given,         \* the collectors of the constructor, in a sequence
  Later,         \* collectors that may be added and removed
  MaxBuffered,   \* maxBufferSize
  MaxEvents      \* bound: how many events are recorded

(* Each given collector has a wrapper of its own.                           *)
ASSUME TelemetryAssumption ==
  /\ Given \in Seq(ToSet(Given)) /\ IsInjective(Given) /\ ToSet(Given) \cap Later = {}
  /\ MaxBuffered \in Nat \ {0} /\ MaxEvents \in Nat

VARIABLES
  collectors,    \* the array, in order
  buffered,      \* the events in the buffer of each given collector
  ticking,       \* the given collectors whose timer runs
  stack,         \* what is running
  recorded,      \* how many events were recorded
  got,           \* given collector -> the events delivered to it, in order
  owed           \* collector -> the events that had come to it at its shutdown

telemetryVars == <<collectors, buffered, ticking, stack, recorded, got, owed>>

Loop(does, event) == [does |-> does, event |-> event, at |-> 0]
Delivery(c, events) == [does |-> "deliver", to |-> c, events |-> events]

TelemetryInit ==
  /\ collectors = Given
  /\ buffered = [c \in ToSet(Given) |-> <<>>]
  /\ ticking = ToSet(Given)
  /\ stack = <<>> /\ recorded = 0
  /\ got = [c \in ToSet(Given) |-> <<>>]
  /\ owed = [c \in ToSet(Given) |-> {}]

(* The application's code is running: on its own, or as a collector.        *)
Outside == stack # <<>> => Last(stack).does = "deliver"

Starts(frame) == Append(stack, frame)

(* The loop on top has gone on to its next collector.                       *)
Further == [stack EXCEPT ![Len(stack)].at = @ + 1]

(* The events that have not come to the collector yet: the loops of record  *)
(* they are in have not.                                                    *)
OnTheWay(c) ==
  {stack[f].event : f \in {g \in DOMAIN stack :
     stack[g].does = "record" /\ \A k \in 1..stack[g].at : collectors[k] # c}}

(* A mutant of Left: the buffer is emptied only after the deliveries.       *)
LeftUntilDone(events) == events

(* What flush leaves in the buffer while it delivers what it took.          *)
Left(events) == <<>>

(* BufferedTelemetryCollector.flush, of the events that are there, called   *)
(* under the given stack.                                                   *)
Flushes(c, events, under) ==
  /\ buffered' = [buffered EXCEPT ![c] = Left(events)]
  /\ IF events = <<>> THEN stack' = under /\ UNCHANGED got
     ELSE /\ stack' = Append(under, Delivery(c, events))
          /\ got' = [got EXCEPT ![c] = Append(@, Head(events))]
-----------------------------------------------------------------------------
Record ==
  /\ Outside /\ recorded < MaxEvents
  /\ recorded' = recorded + 1
  /\ stack' = Starts(Loop("record", recorded + 1))
  /\ UNCHANGED <<collectors, buffered, ticking, got, owed>>

Flush ==
  /\ Outside
  /\ stack' = Starts(Loop("flush", 0))
  /\ UNCHANGED <<collectors, buffered, ticking, recorded, got, owed>>

Shutdown ==
  /\ Outside
  /\ stack' = Starts(Loop("shutdown", 0))
  /\ UNCHANGED <<collectors, buffered, ticking, recorded, got, owed>>

(* A collector is in the array once at most: the bound on additions.        *)
AddCollector(c) ==
  /\ Outside /\ c \notin ToSet(collectors)
  /\ collectors' = Append(collectors, c)
  /\ UNCHANGED <<buffered, ticking, stack, recorded, got, owed>>

(* A given collector is not found: the array holds its wrapper.             *)
RemoveCollector(c) ==
  /\ Outside /\ c \in ToSet(collectors) \cap Later
  /\ collectors' = Without(collectors, c)
  /\ UNCHANGED <<buffered, ticking, stack, recorded, got, owed>>

(* The next collector of the loop on top, or the end of the loop.           *)
NextCollector ==
  /\ ~Outside
  /\ LET loop == Last(stack)
         c == collectors[loop.at + 1]
     IN \/ /\ loop.at >= Len(collectors)
           /\ stack' = Front(stack)
           /\ UNCHANGED <<buffered, ticking, got, owed>>
        \/ /\ loop.at < Len(collectors) /\ c \in Later
           /\ stack' = IF loop.does = "record"
                       THEN Append(Further, Delivery(c, <<loop.event>>)) ELSE Further
           /\ UNCHANGED <<buffered, ticking, got, owed>>
        \/ /\ loop.at < Len(collectors) /\ c \notin Later /\ loop.does = "record"
           /\ LET events == Append(buffered[c], loop.event)
              IN IF Len(events) >= MaxBuffered THEN Flushes(c, events, Further)
                 ELSE /\ buffered' = [buffered EXCEPT ![c] = events]
                      /\ stack' = Further /\ UNCHANGED got
           /\ UNCHANGED <<ticking, owed>>
        \/ /\ loop.at < Len(collectors) /\ c \notin Later /\ loop.does = "flush"
           /\ Flushes(c, buffered[c], Further)
           /\ UNCHANGED <<ticking, owed>>
        \/ /\ loop.at < Len(collectors) /\ c \notin Later /\ loop.does = "shutdown"
           /\ Flushes(c, buffered[c], Further)
           /\ ticking' = ticking \ {c}
           /\ owed' = [owed EXCEPT ![c] = (1..recorded) \ OnTheWay(c)]
  /\ UNCHANGED <<collectors, recorded>>

(* The collector returns or throws, and its delivery goes on or ends.       *)
CollectorReturns ==
  /\ stack # <<>> /\ Outside
  /\ LET run  == Last(stack)
         rest == Tail(run.events)
     IN IF rest = <<>> THEN stack' = Front(stack) /\ UNCHANGED got
        ELSE /\ stack' = [stack EXCEPT ![Len(stack)].events = rest]
             /\ got' = [got EXCEPT ![run.to] = Append(@, Head(rest))]
  /\ UNCHANGED <<collectors, buffered, ticking, recorded, owed>>

TimerFlushes(c) ==
  /\ stack = <<>> /\ c \in ticking
  /\ Flushes(c, buffered[c], stack)
  /\ UNCHANGED <<collectors, ticking, recorded, owed>>

TelemetryNext ==
  \/ Record \/ Flush \/ Shutdown \/ NextCollector \/ CollectorReturns
  \/ \E c \in Later : AddCollector(c) \/ RemoveCollector(c)
  \/ \E c \in ToSet(Given) : TimerFlushes(c)

TelemetrySpec == TelemetryInit /\ [][TelemetryNext]_telemetryVars
-----------------------------------------------------------------------------
(* The events that a buffer, and a running delivery, still hold back.       *)
HeldBack(c) ==
  buffered[c] \o FlattenSeq([f \in DOMAIN stack |->
    IF stack[f].does = "deliver" /\ stack[f].to = c THEN Tail(stack[f].events) ELSE <<>>])

(* However records, flushes and shutdowns nest in the deliveries of a       *)
(* buffered collector, each event reaches it exactly once: it is delivered, *)
(* or waits in the buffer or in one running flush; and once nothing runs,   *)
(* what had come to it by its shutdown is delivered.                        *)
EventsArriveOnce ==
  \A c \in ToSet(Given) :
    LET all == got[c] \o HeldBack(c)
    IN /\ IsInjective(all)
       /\ ToSet(all) = (1..recorded) \ OnTheWay(c)
       /\ stack = <<>> => owed[c] \subseteq ToSet(got[c])
=============================================================================
