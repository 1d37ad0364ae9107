------------------------------ MODULE Feedback ------------------------------
(***************************************************************************)
(* What the window shows of the calls under way: the progress line under   *)
(* the header and the toasts in the corner.  Every call climbs on a timer; *)
(* sign-in and sync also stream checkpoints from the backend, on a channel *)
(* of their own.  When the last entry is removed two timers take the line  *)
(* away, and a call that begins meanwhile has to outrun them.              *)
(***************************************************************************)
EXTENDS Naturals, Sequences, FiniteSets, Functions, FiniteSetsExt

CONSTANTS
  Streamed,     \* OP_SIGN_IN, OP_SYNC_REPOS
  Checkpoints,  \* Checkpoints[o]: what a run of o that succeeds reports
  Step, Cap,    \* SIM_STEP and SIM_CAP, on a coarser scale in the instances
  None,
  MaxCalls,     \* bound: calls begun
  MaxToasts     \* bound: toasts pushed

FeedbackAssumption ==
  /\ None \notin Streamed /\ Streamed \cap Nat = {}
  /\ Cap \in 1..99 /\ Step \in 1..Cap
  /\ \A o \in Streamed :
       /\ Checkpoints[o] \in Seq(0..100)
       /\ Len(Checkpoints[o]) > 0 /\ Checkpoints[o][Len(Checkpoints[o])] = 100
       /\ \A i, j \in DOMAIN Checkpoints[o] : i < j => Checkpoints[o][i] <= Checkpoints[o][j]
  /\ MaxCalls \in Nat /\ MaxToasts \in Nat

VARIABLES
  calls,       \* calls[i]: the call with the simulated entry i
  begun,       \* next_sim_id
  listening,   \* whether the window listens to progress events yet
  events,      \* progress events on their way, in the order they were sent
  entries,     \* entries[k]: percent of the entry k
  phase,       \* the line: Hidden, Running, Hold or Fading
  generation,
  timers,      \* hold and fade timers: the generation each was set for
  climbing,    \* calls whose climb timer is set
  toasts,      \* toasts[i]: the toast with id i, and its timers
  left         \* history: streams that failed with their entry on the line

line == <<entries, phase, generation, timers>>
vars == <<calls, begun, listening, events, line, climbing, toasts, left>>
-----------------------------------------------------------------------------
Without(f, k) == Restrict(f, DOMAIN f \ {k})
With(f, k, v) == [x \in DOMAIN f \cup {k} |-> IF x = k THEN v ELSE f[x]]

Init ==
  /\ calls = <<>> /\ begun = 0
  /\ listening = FALSE /\ events = <<>>
  /\ entries = <<>> /\ phase = "Hidden" /\ generation = 0 /\ timers = {}
  /\ climbing = {} /\ toasts = <<>> /\ left = {}
-----------------------------------------------------------------------------
(* The progress line.                                                      *)

\* insert, then start_running
Shows(k, percent) ==
  /\ entries' = With(entries, k, percent)
  /\ generation' = generation + 1
  /\ phase' = "Running"
  /\ UNCHANGED timers

\* Mutant of Removes: the timers are set for the generation before.
RemovesStale(k) ==
  /\ entries' = Without(entries, k)
  /\ IF DOMAIN entries' # {} THEN UNCHANGED <<phase, generation, timers>>
     ELSE /\ generation' = generation + 1
          /\ phase' = "Hold"
          /\ timers' = timers \cup {<<generation, "Fading">>, <<generation, "Hidden">>}

\* remove, then maybe_complete: HOLD and HOLD + FADE from now.
Removes(k) ==
  /\ entries' = Without(entries, k)
  /\ IF DOMAIN entries' # {} THEN UNCHANGED <<phase, generation, timers>>
     ELSE /\ generation' = generation + 1
          /\ phase' = "Hold"
          /\ timers' = timers \cup {<<generation', "Fading">>, <<generation', "Hidden">>}

\* All holds last as long, and a fade comes after its hold.
Due(t) ==
  /\ t \in timers
  /\ \A u \in timers : u[1] < t[1] => u[2] # t[2]
  /\ t[2] = "Hidden" => <<t[1], "Fading">> \notin timers

\* Mutant of Fires: a timer does not ask for the generation.
FiresAnyway(t) ==
  /\ Due(t)
  /\ timers' = timers \ {t}
  /\ phase' = t[2]
  /\ UNCHANGED <<calls, begun, listening, events, entries, generation, climbing, toasts, left>>

\* A no-op if something started or completed since.
Fires(t) ==
  /\ Due(t)
  /\ timers' = timers \ {t}
  /\ phase' = IF generation = t[1] THEN t[2] ELSE phase
  /\ UNCHANGED <<calls, begun, listening, events, entries, generation, climbing, toasts, left>>

\* advance_simulated: "Stop once the operation is gone."
Climb(i) ==
  /\ i \in climbing
  /\ IF i \in DOMAIN entries
       THEN entries' = [entries EXCEPT ![i] = Min({@ + Step, Cap})] /\ UNCHANGED climbing
       ELSE climbing' = climbing \ {i} /\ UNCHANGED entries
  /\ UNCHANGED <<calls, begun, listening, events, phase, generation, timers, toasts, left>>

\* aggregate.  Sum counts the percents, that of an entry being 1 .. its own.
Sum == Cardinality(UNION {{k} \X (1..entries[k]) : k \in DOMAIN entries})
Aggregate == IF DOMAIN entries = {} THEN 0 ELSE Sum \div Cardinality(DOMAIN entries)
-----------------------------------------------------------------------------
(* The progress events: one entry for all runs of a stream.                *)

\* The listener is registered by a call of its own; before that nobody hears.
Listen ==
  /\ ~listening /\ listening' = TRUE
  /\ UNCHANGED <<calls, begun, events, line, climbing, toasts, left>>

\* ProgressReporter::report
Report(i) ==
  LET o == calls[i].op IN
  /\ calls[i].pc = "out" /\ o # None
  /\ calls[i].at < Len(Checkpoints[o])
  /\ calls' = [calls EXCEPT ![i].at = @ + 1]
  /\ events' = IF listening THEN Append(events, <<o, Checkpoints[o][calls[i].at + 1]>>) ELSE events
  /\ UNCHANGED <<begun, listening, line, climbing, toasts, left>>

Announced(o, sent) == \E e \in Range(sent) : e[1] = o
Underway(o) == Announced(o, events)

\* on_real_progress
Hear ==
  /\ events # <<>> /\ events' = Tail(events)
  /\ IF Head(events)[2] >= 100
       THEN /\ Removes(Head(events)[1])
            /\ left' = IF Announced(Head(events)[1], Tail(events)) THEN left
                       ELSE left \ {Head(events)[1]}
       ELSE Shows(Head(events)[1], Head(events)[2]) /\ UNCHANGED left
  /\ UNCHANGED <<calls, begun, listening, climbing, toasts>>
-----------------------------------------------------------------------------
(* The toasts.                                                             *)

Push ==
  /\ Len(toasts) < MaxToasts
  /\ toasts' = Append(toasts, [there |-> TRUE, visible |-> FALSE, seen |-> FALSE,
                               enter |-> TRUE, ttl |-> TRUE, exit |-> FALSE])

\* set_visible ENTER_DELAY after the push.
Enter(i) ==
  /\ toasts[i].enter
  /\ toasts' = [toasts EXCEPT ![i].enter = FALSE,
                              ![i].visible = toasts[i].there,
                              ![i].seen = toasts[i].there]
  /\ UNCHANGED <<calls, begun, listening, events, line, climbing, left>>

\* dismiss: hidden now, dropped EXIT_FADE later.
Dismissed(toast) == [toast EXCEPT !.visible = FALSE, !.exit = TRUE]

\* The close button, which a toast has from its push.
Close(i) ==
  /\ toasts[i].there /\ ~toasts[i].exit
  /\ toasts' = [toasts EXCEPT ![i] = Dismissed(@)]
  /\ UNCHANGED <<calls, begun, listening, events, line, climbing, left>>

\* ENTER_DELAY is shorter than the time to live and than the exit fade.
Expire(i) ==
  /\ toasts[i].ttl /\ ~toasts[i].enter
  /\ toasts' = [toasts EXCEPT ![i] = [Dismissed(@) EXCEPT !.ttl = FALSE]]
  /\ UNCHANGED <<calls, begun, listening, events, line, climbing, left>>

Drop(i) ==
  /\ toasts[i].exit /\ ~toasts[i].enter
  /\ toasts' = [toasts EXCEPT ![i].exit = FALSE, ![i].there = FALSE, ![i].visible = FALSE]
  /\ UNCHANGED <<calls, begun, listening, events, line, climbing, left>>
-----------------------------------------------------------------------------
(* The calls.                                                              *)

\* begin_simulated
Begin(o) ==
  /\ begun < MaxCalls
  /\ begun' = begun + 1
  /\ calls' = With(calls, begun, [op |-> o, at |-> 0, pc |-> "out"])
  /\ Shows(begun, 0)
  /\ climbing' = climbing \cup {begun}
  /\ UNCHANGED <<listening, events, toasts, left>>

Succeeds(i) == calls[i].op # None => calls[i].at = Len(Checkpoints[calls[i].op])

\* What an answer says of itself; the first sync of an empty list, opening a
\* page and others say nothing.
Tells == Push \/ UNCHANGED toasts

\* A stream that fails reports no 100.
Answer(i) ==
  /\ calls[i].pc = "out"
  /\ \/ Succeeds(i) /\ UNCHANGED left
     \/ /\ ~Succeeds(i) \/ calls[i].op = None
        /\ left' = left \cup (IF calls[i].at > 0 THEN {calls[i].op} ELSE {})
  /\ Tells
  /\ calls' = [calls EXCEPT ![i].pc = "answered"]
  /\ UNCHANGED <<begun, listening, events, line, climbing>>

\* end_simulated, for some calls after they have read a list again.
End(i) ==
  /\ calls[i].pc = "answered"
  /\ calls' = Without(calls, i)
  /\ Removes(i)
  /\ UNCHANGED <<begun, listening, events, climbing, toasts, left>>
-----------------------------------------------------------------------------
\* The browser fires every timeout and delivers every event.  Nothing makes
\* the backend answer.
FiresSome == \E t \in timers : Fires(t)
ClimbsSome == \E i \in climbing : Climb(i)
ToastTimeout == \E i \in DOMAIN toasts : Enter(i) \/ Expire(i) \/ Drop(i)

Next ==
  \/ \E o \in Streamed \cup {None} : Begin(o)
  \/ \E i \in DOMAIN calls : Report(i) \/ Answer(i) \/ End(i)
  \/ Listen \/ Hear
  \/ \E i \in DOMAIN toasts : Close(i)
  \/ FiresSome \/ ClimbsSome \/ ToastTimeout

Spec == Init /\ [][Next]_vars
-----------------------------------------------------------------------------
(* The line is there, unfilled, as long as an entry is, whatever timers of *)
(* an earlier completion are still to fire; without one it is full until   *)
(* it is hidden.                                                           *)
LineTellsOfWork ==
  /\ DOMAIN entries # {} <=> phase = "Running"
  /\ phase = "Running" => Aggregate < 100

(* Every call has its entry until it ends, and no entry outlives its call, *)
(* except that of a stream that failed.                                    *)
EntriesOfCalls ==
  /\ DOMAIN calls \subseteq DOMAIN entries
  /\ \A k \in DOMAIN entries \ DOMAIN calls :
       /\ k \in Streamed
       /\ \/ k \in left \/ Underway(k)
          \/ \E i \in DOMAIN calls : calls[i].op = k /\ calls[i].pc = "out"

(* No toast goes unseen, closed by hand or not.                            *)
ToastSeen == \A i \in DOMAIN toasts : ~toasts[i].there => toasts[i].seen

\* Once no call is under way the timers run out, and the line is hidden
\* unless a stream failed.
NoCall == DOMAIN calls = {}

Settled ==
  /\ timers = {} /\ climbing = {}
  /\ left = {} => phase = "Hidden"

Pushed(i) == i \in DOMAIN toasts
Left(i) == i \in DOMAIN toasts /\ ~toasts[i].there
-----------------------------------------------------------------------------
(* The inductive invariant.  A timer is of this generation only as long as *)
(* no entry is on the line.                                                *)
LineKept ==
  /\ entries \in [DOMAIN entries -> 0..99] /\ IsFiniteSet(DOMAIN entries)
  /\ DOMAIN entries # {} <=> phase = "Running"
  /\ generation \in Nat
  /\ \A t \in timers :
       /\ t \in (0..generation) \X {"Fading", "Hidden"}
       /\ t[1] = generation => DOMAIN entries = {}

(* The entries that are not a stream's are those of the calls.             *)
CallsKept ==
  /\ begun \in Nat /\ DOMAIN calls \subseteq 0..(begun - 1)
  /\ calls \in [DOMAIN calls -> [op : Streamed \cup {None}, at : Nat, pc : {"out", "answered"}]]
  /\ \A i \in DOMAIN calls :
       calls[i].op # None => calls[i].at <= Len(Checkpoints[calls[i].op])
  /\ DOMAIN entries \ Streamed = DOMAIN calls

(* A run has reported, but not that it is done; or it failed there.        *)
ToReport(i) ==
  LET o == calls[i].op IN
  calls[i].pc = "out" /\ o # None /\ calls[i].at > 0 /\ calls[i].at < Len(Checkpoints[o])

Owed(o) == o \in left \/ \E i \in DOMAIN calls : calls[i].op = o /\ ToReport(i)

(* What takes a stream's entry away is on its way, or owed; as it is after *)
(* every event that puts one there.                                        *)
StreamsKept ==
  /\ listening \in BOOLEAN /\ events \in Seq(Streamed \X (0..100))
  /\ ~listening => events = <<>> /\ DOMAIN entries \cap Streamed = {}
  /\ \A o \in DOMAIN entries \cap Streamed : Underway(o) \/ Owed(o)
  /\ \A j \in DOMAIN events : events[j][2] < 100 =>
       Owed(events[j][1]) \/ \E k \in (j + 1)..Len(events) : events[k][1] = events[j][1]

Toasts ==
  [there : BOOLEAN, visible : BOOLEAN, seen : BOOLEAN, enter : BOOLEAN, ttl : BOOLEAN,
   exit : BOOLEAN]

ToastsKept ==
  /\ toasts \in Seq(Toasts)
  /\ \A i \in DOMAIN toasts : IF toasts[i].enter THEN toasts[i].there ELSE toasts[i].seen

Telling == LineKept /\ CallsKept /\ StreamsKept /\ ToastsKept
=============================================================================
