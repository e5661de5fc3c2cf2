--------------------------- MODULE CashbackEvents ---------------------------
(***************************************************************************)
(* The schedule of bonus events and the dashboard handlers that edit it.   *)
(*                                                                         *)
(*   POST   /v1/cashback/events        Cashback.CreateEvent                *)
(*   PATCH  /v1/cashback/events/{id}   Cashback.UpdateEvent                *)
(*   DELETE /v1/cashback/events/{id}   Cashback.DeleteEvent                *)
(*   RateFor's question to ActiveEvent, for a purchase of some instant     *)
(*                                                                         *)
(* UpdateEvent and DeleteEvent read the row, ask the clock which phase the *)
(* event is in, and write in a later statement.  Between these steps the   *)
(* clock moves, other handlers write the same row, and purchases are rated.*)
(* The rule the handlers defend: the past is not rewritten, because a rate *)
(* already given can only be checked against the schedule.                 *)
(***************************************************************************)
EXTENDS Integers, FiniteSets

CONSTANTS
  Event,         \* event ids
  NoEvent,       \* the answer of ActiveEvent when no window matches
  Editor,        \* dashboard requests that can be in flight together
  Asked,         \* windows that the dashboard may ask for
  MaxTime,       \* bound on the instants
  MaxClock,      \* bound on the clock
  MaxSales       \* bound on the purchases rated

ASSUME EventConstants ==
  /\ NoEvent \notin Event
  /\ MaxTime \in Nat /\ MaxClock \in 0 .. MaxTime
  /\ MaxSales \in Nat
  /\ Asked \subseteq [starts : 0 .. MaxTime, ends : 0 .. MaxTime]

VARIABLES
  now,           \* the clock
  events,        \* table cashback_event, by event id
  call,          \* call[w]: what handler w is in the middle of
  sales,         \* purchases rated so far and the event each was rated by
  overtaken      \* <<s, e>>: a write of e did not have to look at s (PassedOver)

vars == <<now, events, call, sales, overtaken>>

-----------------------------------------------------------------------------
Time == 0 .. MaxTime

Span == [starts : Time, ends : Time]

(* CHECK (ends_at > starts_at)                                             *)
Window == {v \in Span : v.starts < v.ends}

Absent == [row |-> "absent"]     \* no row yet under this id
Deleted == [row |-> "deleted"]   \* the row was deleted; ids are not reused

Sale == [at : Time, by : Event \cup {NoEvent}, known : SUBSET Event]

Idle == [at |-> "idle"]

Call == {Idle}
  \cup [at : {"decide"}, event : Event, seen : Window, before : SUBSET Sale]
  \cup [at : {"write"}, event : Event, seen : Window, before : SUBSET Sale,
        decided : Time, draft : Span \cup {Deleted}]

(* Every stored window covers at least one instant, the stop button         *)
(* included: in the instant an event starts the table refuses to end it.   *)
TypeOK ==
  /\ now \in Time
  /\ events \in [Event -> Window \cup {Absent, Deleted}]
  /\ call \in [Editor -> Call]
  /\ sales \subseteq Sale
  /\ overtaken \subseteq sales \X Event

Stored == {e \in Event : events[e] \in Window}

(* CashbackEvent.Active and the WHERE clause of ActiveEvent.               *)
Covers(v, t) == v.starts <= t /\ t < v.ends

Upcoming(v, t) == t < v.starts
Running(v, t)  == v.starts <= t /\ t < v.ends
Finished(v, t) == v.starts <= t /\ v.ends <= t

-----------------------------------------------------------------------------
(* A window in the past is accepted on purpose (backfill, test data).      *)
CreateEvent(e, v) ==
  /\ events[e] = Absent
  /\ v.starts < v.ends
  /\ events' = [events EXCEPT ![e] = v]
  /\ UNCHANGED <<now, call, sales, overtaken>>

(* EventByID; 404 when there is no row.  before is auxiliary: the sales    *)
(* rated by the time the row was read.                                     *)
EventByID(w, e) ==
  /\ call[w] = Idle
  /\ e \in Stored
  /\ call' = [call EXCEPT ![w] =
       [at |-> "decide", event |-> e, seen |-> events[e], before |-> sales]]
  /\ UNCHANGED <<now, events, sales, overtaken>>

Decide(w, draft) ==
  /\ call' = [call EXCEPT ![w] =
       [at |-> "write", event |-> call[w].event, seen |-> call[w].seen,
        before |-> call[w].before, decided |-> now, draft |-> draft]]
  /\ UNCHANGED <<now, events, sales, overtaken>>

(* active = false: the server's clock becomes the end of the event.        *)
StopEvent(w) ==
  /\ call[w].at = "decide"
  /\ Running(call[w].seen, now)
  /\ Decide(w, [call[w].seen EXCEPT !.ends = now])

\* Mutant: the new start is not compared with the present.
EditAllowedPastStart(seen, draft) ==
  /\ ~Finished(seen, now)
  /\ Running(seen, now) => draft.starts = seen.starts
  /\ draft.starts < draft.ends
  /\ draft.ends >= now

(* What UpdateEvent asks of the row it would write (a body that only       *)
(* renames drafts the window it read).                                     *)
EditAllowed(seen, draft) ==
  /\ ~Finished(seen, now)
  /\ Running(seen, now) => draft.starts = seen.starts
  /\ draft.starts < draft.ends
  /\ draft.ends >= now
  /\ Upcoming(seen, now) => draft.starts >= now

EditEvent(w, draft) ==
  /\ call[w].at = "decide"
  /\ EditAllowed(call[w].seen, draft)
  /\ Decide(w, draft)

DeleteEvent(w) ==
  /\ call[w].at = "decide"
  /\ Upcoming(call[w].seen, now)
  /\ Decide(w, Deleted)

(* 404, 409 and 422: nothing is written.                                   *)
Refuse(w) ==
  /\ call[w].at = "decide"
  /\ call' = [call EXCEPT ![w] = Idle]
  /\ UNCHANGED <<now, events, sales, overtaken>>

(* The sales a write of c may leave unexplained: those whose instant still *)
(* lay ahead when c was decided (the game may report any instant as that   *)
(* of a purchase, and the future is free to change), and those rated after *)
(* c had read its row, if that row has been rewritten since.               *)
PassedOver(c) ==
  {s \in sales : \/ c.decided < s.at
                 \/ events[c.event] # c.seen /\ s \notin c.before} \X {c.event}

\* Mutant: the table accepts an empty window.
WriteUnchecked(w) ==
  LET c == call[w] IN
  /\ c.at = "write"
  /\ c.event \in Stored
  /\ events' = [events EXCEPT ![c.event] = c.draft]
  /\ overtaken' = overtaken \cup PassedOver(c)
  /\ call' = [call EXCEPT ![w] = Idle]
  /\ UNCHANGED <<now, sales>>

(* The UPDATE or DELETE statement, by id alone.                            *)
Write(w) ==
  LET c == call[w] IN
  /\ c.at = "write"
  /\ c.event \in Stored
  /\ c.draft \in Window \cup {Deleted}
  /\ events' = [events EXCEPT ![c.event] = c.draft]
  /\ overtaken' = overtaken \cup PassedOver(c)
  /\ call' = [call EXCEPT ![w] = Idle]
  /\ UNCHANGED <<now, sales>>

(* No row is affected (deleted meanwhile: 404), the CHECK refuses an empty *)
(* window (500: stopping an event in the instant it starts), or the        *)
(* process stops.                                                          *)
WriteFails(w) ==
  /\ call[w].at = "write"
  /\ call' = [call EXCEPT ![w] = Idle]
  /\ UNCHANGED <<now, events, sales, overtaken>>

(* The events whose window covers t; of several, the query returns one     *)
(* that started first.                                                     *)
Active(t) == {e \in Stored : Covers(events[e], t)}

FirstActive(t) ==
  {e \in Active(t) : \A f \in Active(t) : events[e].starts <= events[f].starts}

\* Mutant: an event running at present counts as well.
RateByPresent(t) ==
  /\ Cardinality(sales) < MaxSales
  /\ \E by \in IF Active(t) \cup Active(now) = {} THEN {NoEvent}
              ELSE Active(t) \cup Active(now) :
       sales' = sales \cup {[at |-> t, by |-> by, known |-> Stored]}
  /\ UNCHANGED <<now, events, call, overtaken>>

\* Mutant: only events still running count.
RateByRunning(t) ==
  /\ Cardinality(sales) < MaxSales
  /\ \E by \in IF Active(t) \cap Active(now) = {} THEN {NoEvent}
              ELSE Active(t) \cap Active(now) :
       sales' = sales \cup {[at |-> t, by |-> by, known |-> Stored]}
  /\ UNCHANGED <<now, events, call, overtaken>>

(* The rate of a purchase of instant t.  t comes with the request          *)
(* (occurredAt) and is compared with nothing: it may lie ahead.            *)
RateFor(t) ==
  /\ Cardinality(sales) < MaxSales
  /\ \E by \in IF Active(t) = {} THEN {NoEvent} ELSE FirstActive(t) :
       sales' = sales \cup {[at |-> t, by |-> by, known |-> Stored]}
  /\ UNCHANGED <<now, events, call, overtaken>>

Tick ==
  /\ now < MaxClock
  /\ now' = now + 1
  /\ UNCHANGED <<events, call, sales, overtaken>>

Init ==
  /\ now = 0
  /\ events = [e \in Event |-> Absent]
  /\ call = [w \in Editor |-> Idle]
  /\ sales = {}
  /\ overtaken = {}

Handler(w) ==
  \/ \E e \in Event : EventByID(w, e)
  \/ StopEvent(w)
  \/ \E draft \in Asked : EditEvent(w, draft)
  \/ DeleteEvent(w)
  \/ Refuse(w)
  \/ Write(w)
  \/ WriteFails(w)

Next ==
  \/ \E e \in Event, v \in Asked : CreateEvent(e, v)
  \/ \E w \in Editor : Handler(w)
  \/ \E t \in Time : RateFor(t)
  \/ Tick

Spec == Init /\ [][Next]_vars

-----------------------------------------------------------------------------
(* Every event bonus given can be explained by the schedule: the event that*)
(* gave it is still on the table and its window, end included, holds the   *)
(* purchase's instant ("masa lalu tidak boleh ditulis ulang").  A write    *)
(* answers for every purchase whose instant had come when it was decided,  *)
(* except for one rated while two editors were overwriting each other.     *)
BonusesExplained ==
  \A s \in sales :
    s.by # NoEvent =>
      \/ /\ s.by \in Stored
         /\ events[s.by].starts <= s.at /\ s.at <= events[s.by].ends
      \/ <<s, s.by>> \in overtaken

(* And the other way round: no event known when a purchase was rated       *)
(* without a bonus comes to have its instant within its window, with the   *)
(* same exceptions.  (Within: an event that has not begun may be moved to  *)
(* start at this very moment.)                                             *)
NoBonusMissed ==
  \A s \in sales : \A e \in s.known :
    (/\ s.by = NoEvent
     /\ e \in Stored
     /\ events[e].starts < s.at /\ s.at < events[e].ends)
      => <<s, e>> \in overtaken

(* Not kept, and not checked (README, section 4): without the exceptions.  *)
(* An upcoming event rates a purchase dated ahead, and is then deleted.    *)
RatesStayExplained ==
  \A s \in sales :
    s.by # NoEvent =>
      /\ s.by \in Stored
      /\ events[s.by].starts <= s.at /\ s.at <= events[s.by].ends

(* A handler that writes the row it read never changes whether the event   *)
(* covered an instant before its decision, however late the write is.      *)
PastKept ==
  [][\A w \in Editor :
       (call[w].at = "write" /\ call'[w] = Idle
          /\ events[call[w].event] = call[w].seen)
         => \A t \in 0 .. call[w].decided - 1 :
              Covers(call[w].seen, t) <=>
                /\ events'[call[w].event] \in Window
                /\ Covers(events'[call[w].event], t)]_vars

=============================================================================
