---------------------------- MODULE EventProofs ----------------------------
(***************************************************************************)
(* Theorems about CashbackEvents, for any events, editors and bounds: the  *)
(* schedule keeps explaining the bonuses that were given by it.            *)
(*                                                                         *)
(* The invariant behind them says what a handler between its decision and  *)
(* its write may carry: a draft that agrees with the row it read on every  *)
(* instant before the decision.                                            *)
(***************************************************************************)
EXTENDS CashbackEvents, TLAPS

LawfulDelete(c) == c.draft = Deleted /\ Upcoming(c.seen, c.decided)

LawfulMove(c) ==
  /\ c.draft \in Span
  /\ Upcoming(c.seen, c.decided)
  /\ c.draft.starts >= c.decided

LawfulEnd(c) ==
  /\ c.draft \in Span
  /\ Running(c.seen, c.decided)
  /\ c.draft.starts = c.seen.starts
  /\ c.draft.ends >= c.decided

CallsLawful ==
  \A w \in Editor : call[w].at = "write" =>
    LawfulDelete(call[w]) \/ LawfulMove(call[w]) \/ LawfulEnd(call[w])

(* The instant lies in the window, its end included; strictly within it.   *)
Holds(v, t)  == v.starts <= t /\ t <= v.ends
Within(v, t) == v.starts < t /\ t < v.ends

(* The row that a handler read agrees with the sales rated before.         *)
Agrees(c, s) ==
  \/ <<s, c.event>> \in overtaken
  \/ /\ s.by = c.event => Holds(c.seen, s.at)
     /\ (s.by = NoEvent /\ c.event \in s.known) => ~Within(c.seen, s.at)

CallsAgree ==
  \A w \in Editor : call[w].at \in {"decide", "write"} =>
    /\ call[w].before \subseteq sales
    /\ \A s \in call[w].before : Agrees(call[w], s)

KnownExist == \A s \in sales : \A e \in s.known : events[e] # Absent

EventsInv ==
  /\ TypeOK
  /\ CallsLawful
  /\ CallsAgree
  /\ KnownExist
  /\ BonusesExplained
  /\ NoBonusMissed

-----------------------------------------------------------------------------
LEMMA RowsDiffer ==
  /\ Absent \notin Window /\ Deleted \notin Span /\ Absent # Deleted
  /\ Window \subseteq Span
BY DEF Absent, Deleted, Window, Span

LEMMA TimeIsNat == Time \subseteq Nat /\ Time \subseteq Int
BY EventConstants DEF Time

LEMMA AskedAreSpans == Asked \subseteq Span
BY EventConstants DEF Span, Time

LEMMA EventsInit == Init => EventsInv
<1> SUFFICES ASSUME Init PROVE EventsInv
  OBVIOUS
<1>1. TypeOK
  BY EventConstants DEF Init, TypeOK, Time, Call
<1>2. CallsLawful /\ CallsAgree /\ KnownExist /\ BonusesExplained /\ NoBonusMissed
  BY DEF Init, CallsLawful, CallsAgree, KnownExist, BonusesExplained, NoBonusMissed, Idle
<1> QED
  BY <1>1, <1>2 DEF EventsInv

(* What a handler decides is lawful, and typed.                            *)
LEMMA Decisions ==
  ASSUME TypeOK, CallsLawful, CallsAgree, NEW w \in Editor,
         \/ StopEvent(w)
         \/ \E draft \in Span : EditEvent(w, draft)
         \/ DeleteEvent(w)
  PROVE  /\ call' \in [Editor -> Call]
         /\ CallsLawful'
         /\ CallsAgree'
         /\ UNCHANGED <<now, events, sales, overtaken>>
<1>1. PICK draft \in Span \cup {Deleted} :
        /\ Decide(w, draft)
        /\ call[w].at = "decide"
        /\ \/ /\ draft = Deleted /\ Upcoming(call[w].seen, now)
           \/ /\ draft \in Span /\ Upcoming(call[w].seen, now)
              /\ draft.starts >= now
           \/ /\ draft \in Span /\ Running(call[w].seen, now)
              /\ draft.starts = call[w].seen.starts
              /\ draft.ends >= now
  <2>0. now \in Time /\ now \in Int
    BY TimeIsNat DEF TypeOK
  <2>1. call[w].at = "decide" => call[w].seen \in Span
    BY DEF TypeOK, Call, Idle, Window
  <2>2. CASE StopEvent(w)
    BY <2>0, <2>1, <2>2 DEF StopEvent, Span
  <2>3. CASE \E draft \in Span : EditEvent(w, draft)
    <3>1. PICK draft \in Span : EditEvent(w, draft)
      BY <2>3
    <3>2. call[w].seen \in Span /\ call[w].at = "decide"
      BY <2>1, <3>1 DEF EditEvent
    <3>3. Upcoming(call[w].seen, now) \/ Running(call[w].seen, now)
      <4>1. call[w].seen.starts \in Int /\ call[w].seen.ends \in Int
        BY <3>2, TimeIsNat DEF Span
      <4>2. ~Finished(call[w].seen, now)
        BY <3>1 DEF EditEvent, EditAllowed
      <4> QED
        BY <2>0, <4>1, <4>2 DEF Finished, Upcoming, Running
    <3> QED
      BY <3>1, <3>2, <3>3 DEF EditEvent, EditAllowed
  <2>4. CASE DeleteEvent(w)
    BY <2>4 DEF DeleteEvent
  <2> QED
    BY <2>2, <2>3, <2>4
<1>2. now \in Time
  BY DEF TypeOK
<1>3. /\ call[w].event \in Event /\ call[w].seen \in Window
      /\ call[w].before \in SUBSET Sale
  BY <1>1 DEF TypeOK, Call, Idle
<1> DEFINE c == [at |-> "write", event |-> call[w].event, seen |-> call[w].seen,
                 before |-> call[w].before, decided |-> now, draft |-> draft]
<1>4. c \in Call
  BY <1>2, <1>3 DEF Call
<1>5. call' = [call EXCEPT ![w] = c] /\ UNCHANGED <<now, events, sales, overtaken>>
  BY <1>1 DEF Decide
<1>6. LawfulDelete(c) \/ LawfulMove(c) \/ LawfulEnd(c)
  BY <1>1 DEF LawfulDelete, LawfulMove, LawfulEnd
<1>9. c.before \subseteq sales /\ \A s \in c.before : Agrees(c, s)
  BY <1>1 DEF CallsAgree, Agrees
<1> HIDE DEF c
<1>7. call \in [Editor -> Call]
  BY DEF TypeOK
<1>8. \A x \in Editor : call'[x] = IF x = w THEN c ELSE call[x]
  BY <1>5, <1>7
<1>10. call' \in [Editor -> Call] /\ CallsLawful'
  BY <1>4, <1>5, <1>6, <1>7, <1>8 DEF CallsLawful
<1>11. CallsAgree'
  BY <1>5, <1>8, <1>9 DEF CallsAgree, Agrees
<1> QED
  BY <1>5, <1>10, <1>11

(* A write replaces one row by a lawful draft of the row it read, or passes*)
(* over the sales it cannot answer for.                                    *)
LEMMA WriteStep ==
  ASSUME EventsInv, NEW w \in Editor, Write(w)
  PROVE  EventsInv'
<1> DEFINE c == call[w]
           e == c.event
<1>1. /\ c.at = "write" /\ e \in Event /\ c.seen \in Window /\ c.decided \in Time
      /\ e \in Stored /\ c.draft \in Window \cup {Deleted}
      /\ events' = [events EXCEPT ![e] = c.draft]
      /\ overtaken' = overtaken \cup PassedOver(c)
      /\ call' = [call EXCEPT ![w] = Idle]
      /\ now' = now /\ sales' = sales
  BY DEF EventsInv, TypeOK, Call, Write, Idle
<1>2. PassedOver(c) \subseteq sales \X Event
  BY <1>1 DEF PassedOver
<1>3. TypeOK'
  BY <1>1, <1>2 DEF EventsInv, TypeOK, Call
<1>4. CallsLawful' /\ CallsAgree'
  BY <1>1 DEF EventsInv, CallsLawful, CallsAgree, Agrees, TypeOK, Idle
<1>5. \A x \in Event : events'[x] = IF x = e THEN c.draft ELSE events[x]
  BY <1>1 DEF EventsInv, TypeOK
<1>6. KnownExist'
  BY <1>1, <1>5, RowsDiffer DEF EventsInv, KnownExist, TypeOK, Sale
<1>7. \A s \in sales : <<s, e>> \notin overtaken'
         => /\ s.at <= c.decided /\ s.at \in Int
            /\ s.by = e => Holds(c.seen, s.at)
            /\ (s.by = NoEvent /\ e \in s.known) => ~Within(c.seen, s.at)
  <2> SUFFICES ASSUME NEW s \in sales, <<s, e>> \notin overtaken'
               PROVE  /\ s.at <= c.decided /\ s.at \in Int
                      /\ s.by = e => Holds(c.seen, s.at)
                      /\ (s.by = NoEvent /\ e \in s.known) => ~Within(c.seen, s.at)
    OBVIOUS
  <2>1. /\ s.at \in Int /\ c.decided \in Int /\ e # NoEvent
        /\ <<s, e>> \notin overtaken
    BY <1>1, EventConstants, TimeIsNat DEF EventsInv, TypeOK, Sale
  <2>2. /\ ~(c.decided < s.at)
        /\ events[e] = c.seen \/ s \in c.before
    BY <1>1 DEF PassedOver
  <2>3. CASE events[e] = c.seen
    BY <1>1, <2>1, <2>2, <2>3
       DEF EventsInv, BonusesExplained, NoBonusMissed, Holds, Within
  <2>4. CASE s \in c.before
    BY <1>1, <2>1, <2>2, <2>4 DEF EventsInv, CallsAgree, Agrees
  <2> QED
    BY <2>2, <2>3, <2>4
<1>8. LawfulDelete(c) \/ LawfulMove(c) \/ LawfulEnd(c)
  BY <1>1 DEF EventsInv, CallsLawful
<1>9. c.seen.starts \in Int /\ c.seen.ends \in Int /\ c.decided \in Int
  BY <1>1, TimeIsNat DEF Window, Span
<1>10. c.draft \in Span => c.draft.starts \in Int /\ c.draft.ends \in Int
  BY TimeIsNat DEF Span
<1>11. BonusesExplained'
  <2> SUFFICES ASSUME NEW s \in sales, s.by # NoEvent, <<s, s.by>> \notin overtaken'
               PROVE  /\ s.by \in Stored'
                      /\ events'[s.by].starts <= s.at /\ s.at <= events'[s.by].ends
    BY <1>1 DEF BonusesExplained
  <2>1. /\ s.by \in Event /\ s.by \in Stored /\ s.at \in Int
        /\ events[s.by].starts <= s.at /\ s.at <= events[s.by].ends
    BY <1>1, TimeIsNat DEF EventsInv, BonusesExplained, TypeOK, Sale
  <2>2. CASE s.by # e
    BY <2>1, <2>2, <1>5 DEF Stored
  <2>3. CASE s.by = e
    <3>1. Holds(c.seen, s.at) /\ s.at <= c.decided
      BY <2>3, <1>7
    <3>2. LawfulEnd(c)
      BY <1>8, <1>9, <2>1, <3>1 DEF LawfulDelete, LawfulMove, Upcoming, Holds
    <3>3. c.draft \in Window
      BY <3>2, <1>1, RowsDiffer DEF LawfulEnd
    <3>4. events'[e] = c.draft /\ e \in Stored'
      BY <3>3, <1>1, <1>5 DEF Stored
    <3>5. c.draft.starts <= s.at /\ s.at <= c.draft.ends
      BY <3>1, <3>2, <1>9, <1>10, <2>1 DEF LawfulEnd, Holds
    <3> QED
      BY <2>3, <3>4, <3>5
  <2> QED
    BY <2>2, <2>3
<1>12. NoBonusMissed'
  <2> SUFFICES ASSUME NEW s \in sales, NEW x \in s.known, s.by = NoEvent,
                      x \in Stored', Within(events'[x], s.at),
                      <<s, x>> \notin overtaken'
               PROVE  FALSE
    BY <1>1 DEF NoBonusMissed, Within
  <2>1. s.at \in Int /\ x \in Event /\ <<s, x>> \notin overtaken
    BY <1>1, TimeIsNat DEF EventsInv, TypeOK, Sale
  <2>2. ~(x \in Stored /\ Within(events[x], s.at))
    BY <2>1 DEF EventsInv, NoBonusMissed, Within
  <2>3. CASE x # e
    BY <2>1, <2>2, <2>3, <1>5 DEF Stored
  <2>4. CASE x = e
    <3>1. ~Within(c.seen, s.at) /\ s.at <= c.decided /\ events'[e] = c.draft
      BY <2>4, <1>1, <1>5, <1>7
    <3>2. c.draft \in Window
      BY <2>4, <3>1 DEF Stored
    <3>3. ~LawfulDelete(c)
      BY <3>2, RowsDiffer DEF LawfulDelete
    <3>4. ~LawfulMove(c)
      BY <3>1, <3>2, <1>9, <1>10, <2>1, <2>4 DEF LawfulMove, Within
    <3>5. Within(c.seen, s.at)
      BY <3>1, <3>3, <3>4, <1>8, <1>9, <1>10, <2>1, <2>4
         DEF LawfulEnd, Running, Within
    <3> QED
      BY <3>1, <3>5
  <2> QED
    BY <2>3, <2>4
<1> QED
  BY <1>3, <1>4, <1>6, <1>11, <1>12 DEF EventsInv

(* A purchase is rated by an event that covers it, or by none when none    *)
(* does.                                                                   *)
LEMMA RateStep ==
  ASSUME EventsInv, NEW t \in Time, RateFor(t)
  PROVE  EventsInv'
<1>1. PICK by \in Event \cup {NoEvent} :
        /\ by # NoEvent => by \in Stored /\ Covers(events[by], t)
        /\ by = NoEvent => Active(t) = {}
        /\ sales' = sales \cup {[at |-> t, by |-> by, known |-> Stored]}
  BY EventConstants DEF RateFor, Active, FirstActive, Stored
<1>2. UNCHANGED <<now, events, call, overtaken>>
  BY DEF RateFor
<1> DEFINE n == [at |-> t, by |-> by, known |-> Stored]
<1>3. TypeOK'
  BY <1>1, <1>2 DEF EventsInv, TypeOK, Sale, Stored
<1>4. CallsLawful' /\ CallsAgree'
  BY <1>1, <1>2 DEF EventsInv, CallsLawful, CallsAgree, Agrees
<1>5. KnownExist'
  BY <1>1, <1>2, RowsDiffer DEF EventsInv, KnownExist, Stored
<1>6. BonusesExplained'
  <2>1. n.by # NoEvent => /\ n.by \in Stored /\ events[n.by].starts <= n.at
                          /\ n.at <= events[n.by].ends
    <3> SUFFICES ASSUME by # NoEvent
                 PROVE  /\ by \in Stored /\ events[by].starts <= t
                        /\ t <= events[by].ends
      OBVIOUS
    <3>1. by \in Stored /\ Covers(events[by], t) /\ events[by] \in Window
      BY <1>1 DEF Stored
    <3>2. events[by].ends \in Int /\ t \in Int
      BY <3>1, TimeIsNat DEF Window, Span
    <3> QED
      BY <3>1, <3>2 DEF Covers
  <2> QED
    BY <1>1, <1>2, <2>1 DEF EventsInv, BonusesExplained, Stored
<1>7. NoBonusMissed'
  <2>1. ASSUME NEW x \in Stored, by = NoEvent
        PROVE  ~(events[x].starts < t /\ t < events[x].ends)
    <3>1. ~Covers(events[x], t) /\ events[x] \in Window
      BY <1>1, <2>1 DEF Active, Stored
    <3>2. events[x].starts \in Int /\ t \in Int
      BY <3>1, TimeIsNat DEF Window, Span
    <3> QED
      BY <3>1, <3>2 DEF Covers
  <2> QED
    BY <1>1, <1>2, <2>1 DEF EventsInv, NoBonusMissed, Stored
<1> QED
  BY <1>3, <1>4, <1>5, <1>6, <1>7 DEF EventsInv

LEMMA CreateStep ==
  ASSUME EventsInv, NEW e \in Event, NEW v \in Span, CreateEvent(e, v)
  PROVE  EventsInv'
<1>1. /\ events[e] = Absent /\ v \in Window
      /\ events' = [events EXCEPT ![e] = v]
      /\ UNCHANGED <<now, call, sales, overtaken>>
  BY DEF CreateEvent, Window
<1>2. TypeOK' /\ CallsLawful' /\ CallsAgree'
  BY <1>1 DEF EventsInv, TypeOK, CallsLawful, CallsAgree, Agrees
<1>3. \A x \in Event : events'[x] = IF x = e THEN v ELSE events[x]
  BY <1>1 DEF EventsInv, TypeOK
<1>4. \A s \in sales : s.by # e \/ <<s, e>> \in overtaken \/ s.by = NoEvent
  BY <1>1, RowsDiffer DEF EventsInv, BonusesExplained, Stored
<1>5. \A s \in sales : e \notin s.known /\ s.known \subseteq Event
  BY <1>1 DEF EventsInv, KnownExist, TypeOK, Sale
<1>6. KnownExist'
  BY <1>1, <1>3, <1>5 DEF EventsInv, KnownExist
<1>7. BonusesExplained'
  BY <1>1, <1>3, <1>4 DEF EventsInv, BonusesExplained, Stored
<1>8. NoBonusMissed'
  BY <1>1, <1>3, <1>5 DEF EventsInv, NoBonusMissed, Stored
<1> QED
  BY <1>2, <1>6, <1>7, <1>8 DEF EventsInv

LEMMA EventsStep == EventsInv /\ [Next]_vars => EventsInv'
<1> SUFFICES ASSUME EventsInv, [Next]_vars PROVE EventsInv'
  OBVIOUS
<1> USE DEF EventsInv
<1>1. ASSUME NEW e \in Event, NEW v \in Asked, CreateEvent(e, v) PROVE EventsInv'
  BY <1>1, AskedAreSpans, CreateStep
<1>2. ASSUME NEW w \in Editor, Handler(w) PROVE EventsInv'
  <2>1. ASSUME NEW e \in Event, EventByID(w, e) PROVE EventsInv'
    <3> DEFINE c == [at |-> "decide", event |-> e, seen |-> events[e], before |-> sales]
    <3>1. c \in Call
      BY <2>1 DEF EventByID, Stored, Call, TypeOK
    <3>2. \A s \in sales : Agrees(c, s)
      BY <2>1, EventConstants
         DEF Agrees, BonusesExplained, NoBonusMissed, Holds, Within, EventByID
    <3>3. call' = [call EXCEPT ![w] = c] /\ UNCHANGED <<now, events, sales, overtaken>>
      BY <2>1 DEF EventByID
    <3>4. c.at = "decide" /\ c.before = sales
      OBVIOUS
    <3> HIDE DEF c
    <3>5. TypeOK' /\ CallsLawful'
      BY <3>1, <3>3, <3>4 DEF TypeOK, CallsLawful
    <3>6. CallsAgree'
      BY <3>2, <3>3, <3>4 DEF TypeOK, CallsAgree, Agrees
    <3> QED
      BY <3>3, <3>5, <3>6 DEF KnownExist, BonusesExplained, NoBonusMissed, Stored
  <2>2. CASE StopEvent(w) \/ (\E draft \in Asked : EditEvent(w, draft)) \/ DeleteEvent(w)
    BY <2>2, AskedAreSpans, Decisions DEF TypeOK, KnownExist, BonusesExplained, NoBonusMissed, Stored
  <2>3. CASE Refuse(w) \/ WriteFails(w)
    BY <2>3 DEF Refuse, WriteFails, TypeOK, Call, CallsLawful, CallsAgree, Agrees, Idle, KnownExist,
                BonusesExplained, NoBonusMissed, Stored
  <2>4. CASE Write(w)
    BY <2>4, WriteStep
  <2> QED
    BY <1>2, <2>1, <2>2, <2>3, <2>4 DEF Handler
<1>3. ASSUME NEW t \in Time, RateFor(t) PROVE EventsInv'
  BY <1>3, RateStep
<1>4. CASE Tick
  BY <1>4, EventConstants DEF Tick, TypeOK, Time, CallsLawful, CallsAgree, Agrees, KnownExist,
                              BonusesExplained, NoBonusMissed, Stored
<1>5. CASE UNCHANGED vars
  BY <1>5 DEF vars, TypeOK, CallsLawful, CallsAgree, Agrees, KnownExist, BonusesExplained,
              NoBonusMissed, Stored
<1> QED
  BY <1>1, <1>2, <1>3, <1>4, <1>5 DEF Next

LEMMA EventsInvariant == Spec => []EventsInv
BY EventsInit, EventsStep, PTL DEF Spec

-----------------------------------------------------------------------------
(* The tables and handlers stay well-formed; in particular the stop button *)
(* never leaves an event that covers no instant (UpdateEvent, table        *)
(* cashback_event).                                                        *)
THEOREM TypeCorrect == Spec => []TypeOK
<1>1. EventsInv => TypeOK
  BY DEF EventsInv
<1> QED
  BY <1>1, EventsInvariant, PTL

(* A bonus that was given stays explained by the schedule, however many    *)
(* editors work on it and whatever instant the purchase was dated at, up to*)
(* PassedOver (RateFor, UpdateEvent, DeleteEvent).                         *)
THEOREM BonusesStayExplained == Spec => []BonusesExplained
<1>1. EventsInv => BonusesExplained
  BY DEF EventsInv
<1> QED
  BY <1>1, EventsInvariant, PTL

(* No event comes to have a purchase within its window that was rated      *)
(* without it, up to PassedOver (RateFor, UpdateEvent, DeleteEvent).       *)
THEOREM NoBonusIsMissed == Spec => []NoBonusMissed
<1>1. EventsInv => NoBonusMissed
  BY DEF EventsInv
<1> QED
  BY <1>1, EventsInvariant, PTL

(* The past is not rewritten: a write of the row that was read agrees with *)
(* it on every instant before the decision (UpdateEvent, DeleteEvent).     *)
THEOREM PastIsKept == Spec => PastKept
<1> DEFINE Kept(w) ==
      (call[w].at = "write" /\ call'[w] = Idle
          /\ events[call[w].event] = call[w].seen)
        => \A t \in 0 .. call[w].decided - 1 :
             Covers(call[w].seen, t) <=>
               /\ events'[call[w].event] \in Window
               /\ Covers(events'[call[w].event], t)
<1>1. ASSUME EventsInv, [Next]_vars PROVE [\A w \in Editor : Kept(w)]_vars
  <2> SUFFICES ASSUME NEW w \in Editor, call[w].at = "write", call'[w] = Idle,
                      events[call[w].event] = call[w].seen,
                      NEW t \in 0 .. call[w].decided - 1
               PROVE  Covers(call[w].seen, t) <=>
                        /\ events'[call[w].event] \in Window
                        /\ Covers(events'[call[w].event], t)
    OBVIOUS
  <2> DEFINE c == call[w]
  <2>0. call \in [Editor -> Call] /\ c \in Call
    BY <1>1 DEF EventsInv, TypeOK
  <2>1. c.event \in Event /\ c.seen \in Window /\ c.decided \in Time
    BY <2>0 DEF Call, Idle
  <2>2. Write(w) \/ WriteFails(w)
    <3>1. call'[w] # call[w]
      BY DEF Idle
    <3>2. PICK x \in Editor : Handler(x)
      BY <1>1, <3>1 DEF Next, vars, CreateEvent, RateFor, Tick
    <3>3. x = w
      BY <2>0, <3>1, <3>2 DEF Handler, EventByID, StopEvent, EditEvent, DeleteEvent,
                              Decide, Refuse, Write, WriteFails
    <3> QED
      BY <3>2, <3>3 DEF Handler, EventByID, StopEvent, EditEvent, DeleteEvent,
                        Refuse, Idle
  <2>3. CASE WriteFails(w)
    BY <2>1, <2>3 DEF WriteFails
  <2>4. CASE Write(w)
    <3>1. events'[c.event] = c.draft /\ c.draft \in Window \cup {Deleted}
      BY <1>1, <2>1, <2>4 DEF Write, EventsInv, TypeOK
    <3>2. c.draft \in Window => c.draft.starts \in Int /\ c.draft.ends \in Int
      BY TimeIsNat DEF Window, Span
    <3>3. c.seen.starts \in Int /\ c.seen.ends \in Int /\ t \in Int /\ t < c.decided
      <4>1. c.decided \in Int
        BY <2>1, TimeIsNat
      <4>2. t \in Int /\ t < c.decided
        BY <4>1
      <4>3. c.seen.starts \in Time /\ c.seen.ends \in Time
        BY <2>1 DEF Window, Span
      <4> QED
        BY <4>2, <4>3, TimeIsNat
    <3>8. c.decided \in Int
      BY <2>1, TimeIsNat
    <3> HIDE DEF c
    <3>4. LawfulDelete(c) \/ LawfulMove(c) \/ LawfulEnd(c)
      BY <1>1 DEF EventsInv, CallsLawful, c
    <3>5. CASE LawfulDelete(c)
      <4>1. ~Covers(c.seen, t) /\ c.draft \notin Window
        BY <3>3, <3>5, <3>8, RowsDiffer DEF LawfulDelete, Upcoming, Covers
      <4> QED
        BY <3>1, <4>1 DEF c
    <3>6. CASE LawfulMove(c)
      <4>1. ~Covers(c.seen, t)
        BY <3>3, <3>6, <3>8 DEF LawfulMove, Upcoming, Covers
      <4>2. c.draft \in Window => ~Covers(c.draft, t)
        BY <3>2, <3>3, <3>6, <3>8 DEF LawfulMove, Covers
      <4> QED
        BY <3>1, <4>1, <4>2 DEF c
    <3>7. CASE LawfulEnd(c)
      <4>1. c.draft \in Window
        BY <3>1, <3>7, RowsDiffer DEF LawfulEnd
      <4>2. Covers(c.seen, t) <=> Covers(c.draft, t)
        BY <3>2, <3>3, <3>7, <3>8, <4>1 DEF LawfulEnd, Running, Covers
      <4> QED
        BY <3>1, <4>1, <4>2 DEF c
    <3> QED
      BY <3>4, <3>5, <3>6, <3>7
  <2> QED
    BY <2>2, <2>3, <2>4
<1> QED
  BY <1>1, EventsInvariant, PTL DEF Spec, PastKept
=============================================================================
