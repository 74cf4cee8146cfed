------------------------- MODULE OutboxFanout_proofs -------------------------
(* What holds of OutboxFanout for every set of events, destinations, workers
   and cleaners and for every limit, proved with TLAPS. *)
EXTENDS OutboxFanout, WellFoundedInduction, TLAPS

LEMMA SmallestExists ==
  ASSUME NEW S \in SUBSET Nat, S # {}
  PROVE  \E x \in S : \A y \in S : x <= y
<1>1. PICK x \in S : \A y \in S : ~(<<y, x>> \in OpToRel(<, Nat))
  BY NatLessThanWellFounded, WFMin, Zenon
<1>2. \A y \in S : ~(y < x)
  BY <1>1, Zenon DEF OpToRel
<1> QED
  BY <1>2

(* The event that a fan-out deals with is one of its batch. *)
LEMMA CurrentIsLeft ==
  ASSUME TypeOK, NEW w \in Worker, Faithful(w), fan[w].pc = "insert"
  PROVE  Current(w) \in fan[w].left /\ Current(w) \in fan[w].batch
                                    /\ Current(w) \in Event
<1>1. fan[w].left \in SUBSET Nat /\ fan[w].left # {}
  BY EventAssumption DEF TypeOK, Fans, Faithful
<1>2. Current(w) \in fan[w].left
  BY <1>1, SmallestExists, Zenon DEF Current
<1> QED
  BY <1>2 DEF TypeOK, Fans, Faithful

(* A fan-out that goes on: only its own record changes. *)
LEMMA FanEffect ==
  ASSUME TypeOK, NEW w \in Worker, NEW f \in Fans, fan' = [fan EXCEPT ![w] = f]
  PROVE  /\ fan' \in [Worker -> Fans] /\ fan'[w] = f
         /\ \A v \in Worker \ {w} : fan'[v] = fan[v]
BY DEF TypeOK

LEMMA NoFanType == NoFan \in Fans
BY DEF NoFan, Fans

LEMMA ClaimEffect ==
  ASSUME TypeOK, NEW w \in Worker, ClaimEvents(w)
  PROVE  \E S \in SUBSET Event :
           /\ S \subseteq {e \in Event : Claimable(e)}
           /\ fan' = [fan EXCEPT ![w] =
                        [NoFan EXCEPT !.pc = "next", !.batch = S, !.left = S]]
           /\ [NoFan EXCEPT !.pc = "next", !.batch = S, !.left = S] \in Fans
<1>1. PICK S \in SUBSET Event :
        /\ IsBatch(S, {e \in Event : Claimable(e)}, BatchSize)
        /\ fan' = [fan EXCEPT ![w] = [NoFan EXCEPT !.pc = "next",
                                                   !.batch = S, !.left = S]]
  BY Zenon DEF ClaimEvents
<1>2. [NoFan EXCEPT !.pc = "next", !.batch = S, !.left = S] \in Fans
  BY DEF NoFan, Fans
<1>3. S \subseteq {e \in Event : Claimable(e)}
  BY <1>1 DEF IsBatch
<1> QED
  BY <1>1, <1>2, <1>3

LEMMA GetEnabledEffect ==
  ASSUME TypeOK, NEW w \in Worker, GetEnabled(w)
  PROVE  LET f == [fan[w] EXCEPT !.pc = "insert", !.todo = Enabled]
         IN  fan' = [fan EXCEPT ![w] = f] /\ f \in Fans
<1> DEFINE f == [fan[w] EXCEPT !.pc = "insert", !.todo = Enabled]
<1>1. f \in Fans
  BY DEF TypeOK, Fans, Enabled
<1>2. fan' = [fan EXCEPT ![w] = f]
  BY DEF GetEnabled, TypeOK
<1> QED
  BY <1>1, <1>2

LEMMA InsertEffect ==
  ASSUME TypeOK, NEW w \in Worker, Faithful(w), NEW d \in Destination, Insert(w, d)
  PROVE  LET f == [fan[w] EXCEPT !.todo = @ \ {d}, !.rows = @ \cup {<<Current(w), d>>}]
         IN  fan' = [fan EXCEPT ![w] = f] /\ f \in Fans
<1> DEFINE f == [fan[w] EXCEPT !.todo = @ \ {d}, !.rows = @ \cup {<<Current(w), d>>}]
<1>1. <<Current(w), d>> \in Keys
  BY CurrentIsLeft DEF Insert, Keys
<1>2. f \in Fans
  BY <1>1 DEF TypeOK, Fans
<1>3. fan' = [fan EXCEPT ![w] = f]
  BY DEF Insert, TypeOK
<1> QED
  BY <1>2, <1>3

LEMMA MarkEffect ==
  ASSUME TypeOK, NEW w \in Worker, MarkProcessed(w)
  PROVE  LET f == [fan[w] EXCEPT !.pc = "next", !.left = @ \ {Current(w)}]
         IN  fan' = [fan EXCEPT ![w] = f] /\ f \in Fans
<1> DEFINE f == [fan[w] EXCEPT !.pc = "next", !.left = @ \ {Current(w)}]
<1>1. f \in Fans
  BY DEF TypeOK, Fans
<1>2. fan' = [fan EXCEPT ![w] = f]
  BY DEF MarkProcessed, TypeOK
<1> QED
  BY <1>1, <1>2

(* A cleanup that goes on. *)
LEMMA PurgeEffect ==
  ASSUME TypeOK, NEW c \in Cleaner, NEW p \in Purges, purge' = [purge EXCEPT ![c] = p]
  PROVE  /\ purge' \in [Cleaner -> Purges] /\ purge'[c] = p
         /\ \A o \in Cleaner \ {c} : purge'[o] = purge[o]
BY DEF TypeOK

LEMMA NoPurgeType == NoPurge \in Purges
BY DEF NoPurge, Purges

LEMMA PurgeRowsEffect ==
  ASSUME TypeOK, NEW c \in Cleaner, PurgeRows(c)
  PROVE  \E S \in SUBSET OldRows :
           LET p == [purge[c] EXCEPT !.pc = "events", !.rows = S]
           IN  /\ \A k \in S, o \in Cleaner : k \notin purge[o].rows
               /\ purge' = [purge EXCEPT ![c] = p] /\ p \in Purges
<1>1. PICK S \in SUBSET {k \in OldRows : \A o \in Cleaner : k \notin purge[o].rows} :
        purge' = [purge EXCEPT ![c].pc = "events", ![c].rows = S]
  BY Zenon DEF PurgeRows
<1> DEFINE p == [purge[c] EXCEPT !.pc = "events", !.rows = S]
<1>2. S \in SUBSET OldRows /\ S \in SUBSET Keys
  BY DEF OldRows
<1>3. p \in Purges
  BY <1>2 DEF TypeOK, Purges
<1>4. purge' = [purge EXCEPT ![c] = p]
  BY <1>1 DEF TypeOK
<1>5. \A k \in S, o \in Cleaner : k \notin purge[o].rows
  OBVIOUS
<1> QED
  BY <1>2, <1>3, <1>4, <1>5

LEMMA PurgeEventsEffect ==
  ASSUME TypeOK, NEW c \in Cleaner, PurgeEvents(c)
  PROVE  \E S \in SUBSET OldEvents(c) :
           LET p == [purge[c] EXCEPT !.pc = "commit", !.events = S]
           IN  purge' = [purge EXCEPT ![c] = p] /\ p \in Purges
<1>1. PICK S \in SUBSET OldEvents(c) :
        purge' = [purge EXCEPT ![c].pc = "commit", ![c].events = S]
  BY Zenon DEF PurgeEvents
<1> DEFINE p == [purge[c] EXCEPT !.pc = "commit", !.events = S]
<1>2. S \in SUBSET Event
  BY DEF OldEvents
<1>3. p \in Purges
  BY <1>2 DEF TypeOK, Purges
<1>4. purge' = [purge EXCEPT ![c] = p]
  BY <1>1 DEF TypeOK
<1> QED
  BY <1>3, <1>4

(* One edit of a destination, and what the new events see of it. *)
LEMMA WatchEffect ==
  ASSUME TypeOK, NEW ds \in [Destination -> DestStates], Watch(ds)
  PROVE  /\ seen' \in [Event -> [Destination -> SUBSET BOOLEAN]]
         /\ \A e \in Event, d \in Destination :
              seen'[e][d] = IF event[e] = "new"
                              THEN seen[e][d] \cup {ds[d] = "enabled"}
                              ELSE seen[e][d]
<1>1. seen \in [Event -> [Destination -> SUBSET BOOLEAN]]
  BY DEF TypeOK
<1>2. seen' = [e \in Event |-> [d \in Destination |->
                IF event[e] = "new" THEN seen[e][d] \cup {ds[d] = "enabled"}
                                    ELSE seen[e][d]]]
  BY DEF Watch
<1>3. ASSUME NEW e \in Event, NEW d \in Destination
      PROVE  /\ seen'[e][d] = IF event[e] = "new"
                                 THEN seen[e][d] \cup {ds[d] = "enabled"}
                                 ELSE seen[e][d]
             /\ seen'[e][d] \in SUBSET BOOLEAN
  <2>1. seen'[e][d] = IF event[e] = "new" THEN seen[e][d] \cup {ds[d] = "enabled"}
                                          ELSE seen[e][d]
    BY <1>2
  <2>2. seen[e][d] \in SUBSET BOOLEAN /\ (ds[d] = "enabled") \in BOOLEAN
    BY <1>1
  <2> QED
    BY <2>1, <2>2
<1>4. seen' \in [Event -> [Destination -> SUBSET BOOLEAN]]
  BY <1>2, <1>3
<1> QED
  BY <1>3, <1>4

LEMMA ApiEffect ==
  ASSUME TypeOK, NEW d \in Destination,
         (\E state \in {"enabled", "disabled"} : PutDestination(d, state))
           \/ DeleteDestination(d)
  PROVE  /\ dest' \in [Destination -> DestStates] /\ Watch(dest')
         /\ edits' \in 0 .. MaxEdits
         /\ row' \in [Event -> [Destination -> RowStates]]
         /\ \A k \in Keys : \/ Row(k)' = Row(k)
                            \/ /\ Row(k) \in Present /\ Row(k)' = "dropped"
                               /\ \A c \in Cleaner : k \notin purge[c].rows
         /\ UNCHANGED <<event, fan, purge, faults>>
<1>1. CASE \E state \in {"enabled", "disabled"} : PutDestination(d, state)
  BY <1>1, BoundAssumption DEF PutDestination, TypeOK, DestStates, Row
<1>2. CASE DeleteDestination(d)
  <2>1. /\ dest' \in [Destination -> DestStates]
        /\ edits' \in 0 .. MaxEdits /\ Watch(dest')
        /\ UNCHANGED <<event, fan, purge, faults>>
    BY <1>2, BoundAssumption DEF DeleteDestination, TypeOK, DestStates
  <2>2. row' \in [Event -> [Destination -> RowStates]]
    BY <1>2 DEF DeleteDestination, TypeOK, RowStates
  <2>3. ASSUME NEW e \in Event, NEW x \in Destination
        PROVE  row'[e][x] = IF x = d /\ row[e][d] \in Present
                              THEN "dropped" ELSE row[e][x]
    BY <1>2 DEF DeleteDestination, TypeOK
  <2>4. \A c \in Cleaner : \A k \in purge[c].rows : k[2] # d
    BY <1>2 DEF DeleteDestination, Referenced
  <2> QED
    BY <2>1, <2>2, <2>3, <2>4 DEF Row, Keys
<1> QED
  BY <1>1, <1>2

(* The commit of a fan-out, row by row. *)
LEMMA CommitEffect ==
  ASSUME TypeOK, NEW w \in Worker, FanOutCommit(w)
  PROVE  /\ event' \in [Event -> EventStates]
         /\ row' \in [Event -> [Destination -> RowStates]]
         /\ seen' \in [Event -> [Destination -> SUBSET BOOLEAN]]
         /\ fan' = [fan EXCEPT ![w] = NoFan]
         /\ \A e \in Event :
              /\ event'[e] = IF e \in fan[w].batch THEN "fanned" ELSE event[e]
              /\ seen'[e] = IF e \in fan[w].batch THEN Unseen ELSE seen[e]
         /\ \A e \in Event, d \in Destination :
              row'[e][d] = IF <<e, d>> \in fan[w].rows /\ row[e][d] \notin Present
                             THEN "pending" ELSE row[e][d]
BY DEF TypeOK, FanOutCommit, EventStates, RowStates, Unseen

LEMMA PurgeCommitEffect ==
  ASSUME TypeOK, NEW c \in Cleaner, PurgeCommit(c)
  PROVE  /\ event' \in [Event -> EventStates]
         /\ row' \in [Event -> [Destination -> RowStates]]
         /\ purge' = [purge EXCEPT ![c] = NoPurge]
         /\ \A e \in Event :
              event'[e] = IF e \in purge[c].events THEN "purged" ELSE event[e]
         /\ \A e \in Event, d \in Destination :
              row'[e][d] =
                IF \/ <<e, d>> \in purge[c].rows
                   \/ e \in purge[c].events /\ row[e][d] \in Present
                  THEN "purged" ELSE row[e][d]
BY DEF TypeOK, PurgeCommit, EventStates, RowStates

(* A row that a send or time changes. *)
LEMMA RowEffect ==
  ASSUME TypeOK, NEW k \in Keys, Deliver(k) \/ RowAges(k)
  PROVE  /\ row' \in [Event -> [Destination -> RowStates]]
         /\ \A n \in Keys : n # k => Row(n)' = Row(n)
         /\ Row(k) \in {"pending", "done"} /\ Row(k)' \in {"done", "failed", "old"}
         /\ UNCHANGED <<event, dest, fan, purge, seen, edits, faults>>
<1>1. PICK e \in Event, d \in Destination : k = <<e, d>>
  BY DEF Keys
<1>2. PICK state \in {"done", "failed", "old"} : row' = [row EXCEPT ![e][d] = state]
  BY <1>1 DEF Deliver, RowAges
<1>3. row' \in [Event -> [Destination -> RowStates]]
  BY <1>2 DEF TypeOK, RowStates
<1>4. \A f \in Event, x \in Destination :
        row'[f][x] = IF f = e /\ x = d THEN state ELSE row[f][x]
  BY <1>2 DEF TypeOK
<1> QED
  BY <1>1, <1>3, <1>4 DEF Row, Keys, Deliver, RowAges

LEMMA TypeStep == OutboxInv /\ [Next]_vars => TypeOK'
<1> SUFFICES ASSUME OutboxInv, [Next]_vars PROVE TypeOK'
  OBVIOUS
<1>0. TypeOK /\ \A w \in Worker : Faithful(w)
  BY DEF OutboxInv
<1>1. ASSUME NEW e \in Event, CreateEvent(e) PROVE TypeOK'
  BY <1>0, <1>1 DEF TypeOK, CreateEvent, EventStates
<1>2. CASE ApiStep
  BY <1>0, <1>2, ApiEffect, WatchEffect DEF ApiStep, TypeOK
<1>3. ASSUME NEW w \in Worker, ClaimEvents(w) PROVE TypeOK'
  BY <1>0, <1>3, ClaimEffect, FanEffect DEF TypeOK, ClaimEvents
<1>4. ASSUME NEW w \in Worker, GetEnabled(w) PROVE TypeOK'
  BY <1>0, <1>4, GetEnabledEffect, FanEffect DEF TypeOK, GetEnabled
<1>5. ASSUME NEW w \in Worker, NEW d \in Destination, Insert(w, d) PROVE TypeOK'
  BY <1>0, <1>5, InsertEffect, FanEffect DEF TypeOK, Insert
<1>6. ASSUME NEW w \in Worker, MarkProcessed(w) PROVE TypeOK'
  BY <1>0, <1>6, MarkEffect, FanEffect DEF TypeOK, MarkProcessed
<1>7. ASSUME NEW w \in Worker, FanOutCommit(w) PROVE TypeOK'
  BY <1>0, <1>7, CommitEffect, NoFanType, FanEffect DEF TypeOK, FanOutCommit
<1>8. ASSUME NEW w \in Worker, ForeignKeyFails(w) \/ FanOutAborts(w) PROVE TypeOK'
  BY <1>0, <1>8, NoFanType, FanEffect, BoundAssumption
  DEF TypeOK, ForeignKeyFails, FanOutAborts
<1>9. ASSUME NEW k \in Keys, Deliver(k) \/ RowAges(k) PROVE TypeOK'
  BY <1>0, <1>9, RowEffect DEF TypeOK
<1>10. ASSUME NEW e \in Event, EventAges(e) PROVE TypeOK'
  BY <1>0, <1>10 DEF TypeOK, EventAges, EventStates
<1>11. ASSUME NEW c \in Cleaner, PurgeRows(c) PROVE TypeOK'
  BY <1>0, <1>11, PurgeRowsEffect, PurgeEffect DEF TypeOK, PurgeRows
<1>12. ASSUME NEW c \in Cleaner, PurgeEvents(c) PROVE TypeOK'
  BY <1>0, <1>12, PurgeEventsEffect, PurgeEffect DEF TypeOK, PurgeEvents
<1>13. ASSUME NEW c \in Cleaner, PurgeCommit(c) PROVE TypeOK'
  BY <1>0, <1>13, PurgeCommitEffect, NoPurgeType, PurgeEffect DEF TypeOK, PurgeCommit
<1>14. ASSUME NEW c \in Cleaner, PurgeAborts(c) PROVE TypeOK'
  BY <1>0, <1>14, NoPurgeType, PurgeEffect, BoundAssumption DEF TypeOK, PurgeAborts
<1>15. CASE UNCHANGED vars
  BY <1>0, <1>15 DEF vars, TypeOK
<1> QED
  BY <1>1, <1>2, <1>3, <1>4, <1>5, <1>6, <1>7, <1>8, <1>9, <1>10, <1>11, <1>12,
     <1>13, <1>14, <1>15
  DEF Next, FanOutStep, PurgeStep, Aging

-----------------------------------------------------------------------------
(* The events of a fan-out wait, and no other fan-out has them. *)
LEMMA BatchIsNew ==
  ASSUME OutboxInv, NEW w \in Worker, NEW e \in fan[w].batch
  PROVE  /\ e \in Event /\ event[e] = "new"
         /\ \A v \in Worker \ {w} : e \notin fan[v].batch
<1>1. Faithful(w) /\ fan[w].batch \subseteq Event
  BY DEF OutboxInv, TypeOK, Fans
<1> QED
  BY <1>1 DEF Faithful

LEMMA PassedHasRow ==
  ASSUME NEW w \in Worker, Faithful(w), NEW e \in fan[w].batch, NEW d \in Destination,
         Passed(w, e, d), seen[e][d] = {TRUE}
  PROVE  <<e, d>> \in fan[w].rows
BY DEF Faithful

(* What a fan-out has read and inserted stays right as long as nobody else
   takes its events, and what these see of the destinations only grows. *)
LEMMA FanFrame ==
  ASSUME OutboxInv, NEW w \in Worker, fan'[w] = fan[w],
         \A e \in fan[w].batch :
           /\ event'[e] = event[e]
           /\ \A v \in Worker \ {w} : e \notin fan'[v].batch
           /\ \A d \in Destination :
                /\ TRUE \in seen[e][d] => TRUE \in seen'[e][d]
                /\ seen'[e][d] = {TRUE} => seen[e][d] = {TRUE}
  PROVE  Faithful(w)'
<1>1. /\ TypeOK /\ Faithful(w) /\ fan[w].todo \subseteq Destination
      /\ fan[w].batch \subseteq Event
  BY DEF OutboxInv, TypeOK, Fans
<1>2. Current(w)' = Current(w)
  BY DEF Current
<1>3. \A d \in fan[w].todo : TRUE \in seen'[Current(w)][d]
  <2> SUFFICES ASSUME NEW d \in fan[w].todo PROVE TRUE \in seen'[Current(w)][d]
    OBVIOUS
  <2>1. fan[w].pc = "insert"
    BY <1>1 DEF TypeOK, Fans, Faithful, NoFan
  <2> QED
    BY <1>1, <2>1, CurrentIsLeft DEF Faithful
<1>4. \A k \in fan[w].rows : TRUE \in seen'[k[1]][k[2]]
  BY <1>1 DEF Faithful
<1>5. \A e \in fan[w].batch, d \in Destination :
        Passed(w, e, d)' /\ seen'[e][d] = {TRUE} => <<e, d>> \in fan[w].rows
  <2>1. ASSUME NEW e, NEW d, Passed(w, e, d)' PROVE Passed(w, e, d)
    BY <1>2, <2>1 DEF Passed
  <2> QED
    BY <1>1, <2>1, PassedHasRow
<1> QED
  BY <1>1, <1>2, <1>3, <1>4, <1>5 DEF Faithful

(* Steps that leave all fan-outs and what they look at alone. *)
LEMMA FansAlone ==
  ASSUME OutboxInv, fan' = fan,
         \A e \in Event : event[e] = "new" =>
           /\ event'[e] = "new"
           /\ \A d \in Destination :
                /\ TRUE \in seen[e][d] => TRUE \in seen'[e][d]
                /\ seen'[e][d] = {TRUE} => seen[e][d] = {TRUE}
  PROVE  \A w \in Worker : Faithful(w)'
<1> SUFFICES ASSUME NEW w \in Worker PROVE Faithful(w)'
  OBVIOUS
<1> QED
  BY BatchIsNew, FanFrame

(* Steps of one fan-out that share no event with another one. *)
LEMMA FanStep ==
  ASSUME OutboxInv, NEW w \in Worker, NEW f \in Fans, fan' = [fan EXCEPT ![w] = f],
         UNCHANGED event, UNCHANGED seen,
         \A e \in f.batch, v \in Worker \ {w} : e \notin fan[v].batch,
         Faithful(w)'
  PROVE  \A v \in Worker : Faithful(v)'
<1> SUFFICES ASSUME NEW v \in Worker \ {w} PROVE Faithful(v)'
  OBVIOUS
<1>1. TypeOK /\ Faithful(v)
  BY DEF OutboxInv
<1>2. fan'[v] = fan[v] /\ fan'[w] = f /\ \A u \in Worker \ {w} : fan'[u] = fan[u]
  BY <1>1, FanEffect
<1>3. ASSUME NEW e \in fan[v].batch, NEW u \in Worker \ {v}
      PROVE  e \notin fan'[u].batch
  BY <1>2, BatchIsNew
<1> QED
  BY <1>2, <1>3, FanFrame

LEMMA ClaimKeeps ==
  ASSUME OutboxInv, NEW w \in Worker, ClaimEvents(w)
  PROVE  \A v \in Worker : Faithful(v)'
<1>1. TypeOK
  BY DEF OutboxInv
<1>2. PICK S \in SUBSET Event :
        /\ S \subseteq {e \in Event : Claimable(e)}
        /\ fan' = [fan EXCEPT ![w] =
                     [NoFan EXCEPT !.pc = "next", !.batch = S, !.left = S]]
        /\ [NoFan EXCEPT !.pc = "next", !.batch = S, !.left = S] \in Fans
  BY <1>1, ClaimEffect
<1> DEFINE f == [NoFan EXCEPT !.pc = "next", !.batch = S, !.left = S]
<1>3. /\ f.pc = "next" /\ f.batch = S /\ f.left = S /\ f.todo = {} /\ f.rows = {}
      /\ \A e \in S : event[e] = "new" /\ \A v \in Worker : e \notin fan[v].batch
  BY <1>2 DEF NoFan, Claimable
<1>4. fan'[w] = f /\ \A v \in Worker \ {w} : fan'[v] = fan[v]
  BY <1>1, <1>2, FanEffect
<1> HIDE DEF f
<1>5. Faithful(w)'
  BY <1>3, <1>4 DEF Faithful, Passed, ClaimEvents
<1> QED
  BY <1>2, <1>3, <1>5, FanStep DEF ClaimEvents, f

LEMMA GetEnabledKeeps ==
  ASSUME OutboxInv, NEW w \in Worker, GetEnabled(w)
  PROVE  \A v \in Worker : Faithful(v)'
<1> DEFINE f == [fan[w] EXCEPT !.pc = "insert", !.todo = Enabled]
<1>1. /\ TypeOK /\ Faithful(w)
      /\ fan[w].pc = "next" /\ fan[w].left # {} /\ fan[w].left \subseteq Event
      /\ UNCHANGED <<event, row, dest, purge, seen>>
  BY DEF OutboxInv, GetEnabled, TypeOK, Fans
<1>2. fan' = [fan EXCEPT ![w] = f] /\ f \in Fans
  BY <1>1, GetEnabledEffect
<1>3. /\ f.pc = "insert" /\ f.batch = fan[w].batch /\ f.left = fan[w].left
      /\ f.todo = Enabled /\ f.rows = fan[w].rows
  BY <1>1 DEF TypeOK, Fans
<1>4. fan'[w] = f /\ \A v \in Worker \ {w} : fan'[v] = fan[v]
  BY <1>1, <1>2, FanEffect
<1> HIDE DEF f
<1>5. Current(w)' = Current(w) /\ Current(w) \in fan[w].left
  <2>1. fan[w].left \in SUBSET Nat
    BY <1>1, EventAssumption
  <2>2. Current(w) \in fan[w].left
    BY <1>1, <2>1, SmallestExists, Zenon DEF Current
  <2> QED
    BY <1>3, <1>4, <2>2 DEF Current
<1>6. \A d \in Destination : (dest[d] = "enabled") \in seen[Current(w)][d]
  BY <1>1, <1>5 DEF OutboxInv, NewEventsAreWatched, Faithful, Processed
<1>7. \A d \in Enabled : TRUE \in seen[Current(w)][d]
  BY <1>6 DEF Enabled
<1>8. ASSUME NEW e \in f.batch, NEW d \in Destination,
             Passed(w, e, d)', seen[e][d] = {TRUE}
      PROVE  <<e, d>> \in f.rows
  <2>1. CASE e \notin fan[w].left
    BY <1>1, <1>3, <1>8, <2>1, PassedHasRow DEF Passed
  <2>2. CASE e \in fan[w].left
    <3>1. e = Current(w) /\ d \notin Enabled
      BY <1>3, <1>4, <1>5, <1>8, <2>2 DEF Passed
    <3> QED
      BY <1>6, <1>8, <3>1 DEF Enabled
  <2> QED
    BY <2>1, <2>2
<1>9. Faithful(w)'
  BY <1>1, <1>3, <1>4, <1>5, <1>7, <1>8 DEF Faithful
<1> QED
  BY <1>1, <1>2, <1>3, <1>9, FanStep, BatchIsNew

LEMMA InsertKeeps ==
  ASSUME OutboxInv, NEW w \in Worker, NEW d \in Destination, Insert(w, d)
  PROVE  \A v \in Worker : Faithful(v)'
<1> DEFINE f == [fan[w] EXCEPT !.todo = @ \ {d}, !.rows = @ \cup {<<Current(w), d>>}]
<1>1. /\ TypeOK /\ Faithful(w) /\ fan[w].pc = "insert" /\ d \in fan[w].todo
      /\ UNCHANGED <<event, row, dest, purge, seen>>
  BY DEF OutboxInv, Insert
<1>2. fan' = [fan EXCEPT ![w] = f] /\ f \in Fans
  BY <1>1, InsertEffect
<1>3. /\ f.pc = "insert" /\ f.batch = fan[w].batch /\ f.left = fan[w].left
      /\ f.todo = fan[w].todo \ {d} /\ f.rows = fan[w].rows \cup {<<Current(w), d>>}
  BY <1>1 DEF TypeOK, Fans
<1>4. fan'[w] = f /\ \A v \in Worker \ {w} : fan'[v] = fan[v]
  BY <1>1, <1>2, FanEffect
<1> HIDE DEF f
<1>5. Current(w)' = Current(w) /\ Current(w) \in fan[w].batch
  BY <1>1, <1>3, <1>4, CurrentIsLeft DEF Current
<1>6. \A e \in f.batch, x \in Destination :
        Passed(w, e, x)' /\ seen[e][x] = {TRUE} => <<e, x>> \in f.rows
  BY <1>1, <1>3, <1>4, <1>5 DEF Passed, Faithful
<1>7. \A k \in f.rows : TRUE \in seen[k[1]][k[2]]
  <2>1. TRUE \in seen[Current(w)][d]
    BY <1>1 DEF Faithful
  <2>2. \A k \in fan[w].rows : TRUE \in seen[k[1]][k[2]]
    BY <1>1 DEF Faithful
  <2>3. <<Current(w), d>>[1] = Current(w) /\ <<Current(w), d>>[2] = d
    OBVIOUS
  <2> QED
    BY <1>3, <2>1, <2>2, <2>3, Zenon
<1>8. f.rows \subseteq f.batch \X Destination
  BY <1>1, <1>3, <1>5 DEF Faithful
<1>9. Faithful(w)'
  BY <1>1, <1>3, <1>4, <1>5, <1>6, <1>7, <1>8 DEF Faithful
<1> QED
  BY <1>1, <1>2, <1>3, <1>9, FanStep, BatchIsNew

LEMMA MarkKeeps ==
  ASSUME OutboxInv, NEW w \in Worker, MarkProcessed(w)
  PROVE  \A v \in Worker : Faithful(v)'
<1> DEFINE f == [fan[w] EXCEPT !.pc = "next", !.left = @ \ {Current(w)}]
<1>1. /\ TypeOK /\ Faithful(w) /\ fan[w].pc = "insert" /\ fan[w].todo = {}
      /\ UNCHANGED <<event, row, dest, purge, seen>>
  BY DEF OutboxInv, MarkProcessed
<1>2. fan' = [fan EXCEPT ![w] = f] /\ f \in Fans
  BY <1>1, MarkEffect
<1>3. /\ f.pc = "next" /\ f.batch = fan[w].batch
      /\ f.left = fan[w].left \ {Current(w)}
      /\ f.todo = {} /\ f.rows = fan[w].rows
  BY <1>1 DEF TypeOK, Fans
<1>4. fan'[w] = f /\ \A v \in Worker \ {w} : fan'[v] = fan[v]
  BY <1>1, <1>2, FanEffect
<1> HIDE DEF f
<1>5. \A e \in f.batch, x \in Destination :
        Passed(w, e, x)' /\ seen[e][x] = {TRUE} => <<e, x>> \in f.rows
  BY <1>1, <1>3, <1>4 DEF Passed, Faithful
<1>6. Faithful(w)'
  BY <1>1, <1>3, <1>4, <1>5 DEF Faithful
<1> QED
  BY <1>1, <1>2, <1>3, <1>6, FanStep, BatchIsNew

LEMMA EndKeeps ==
  ASSUME OutboxInv, NEW w \in Worker,
         FanOutCommit(w) \/ ForeignKeyFails(w) \/ FanOutAborts(w)
  PROVE  \A v \in Worker : Faithful(v)'
<1>1. TypeOK /\ \A v \in Worker : Faithful(v)
  BY DEF OutboxInv
<1>2. fan' = [fan EXCEPT ![w] = NoFan]
  BY DEF FanOutCommit, ForeignKeyFails, FanOutAborts
<1>3. fan'[w] = NoFan /\ \A v \in Worker \ {w} : fan'[v] = fan[v]
  BY <1>1, <1>2, NoFanType, FanEffect
<1>4. Faithful(w)'
  BY <1>3 DEF Faithful, NoFan
<1>5. \A e \in Event : e \notin fan[w].batch =>
        event'[e] = event[e] /\ seen'[e] = seen[e]
  <2>1. CASE FanOutCommit(w)
    BY <1>1, <2>1, CommitEffect
  <2>2. CASE ForeignKeyFails(w) \/ FanOutAborts(w)
    BY <2>2 DEF ForeignKeyFails, FanOutAborts
  <2> QED
    BY <2>1, <2>2
<1>6. ASSUME NEW v \in Worker \ {w} PROVE Faithful(v)'
  <2>1. \A e \in fan[v].batch : e \in Event /\ e \notin fan[w].batch
    BY <1>1 DEF TypeOK, Fans, Faithful
  <2>2. \A u \in Worker \ {v}, e \in fan[v].batch : e \notin fan'[u].batch
    BY <1>3, BatchIsNew DEF NoFan
  <2> QED
    BY <1>3, <1>5, <2>1, <2>2, FanFrame
<1> QED
  BY <1>4, <1>6

(* No step breaks what the fan-outs have read and inserted. *)
LEMMA FansStep == OutboxInv /\ [Next]_vars => \A w \in Worker : Faithful(w)'
<1> SUFFICES ASSUME OutboxInv, [Next]_vars PROVE \A w \in Worker : Faithful(w)'
  OBVIOUS
<1>0. TypeOK /\ NewEventsAreWatched
  BY DEF OutboxInv
<1>1. ASSUME NEW e \in Event, CreateEvent(e) PROVE \A w \in Worker : Faithful(w)'
  <2>1. \A f \in Event : event[f] = "new" => event'[f] = "new" /\ seen'[f] = seen[f]
    BY <1>0, <1>1 DEF CreateEvent, TypeOK
  <2> QED
    BY <1>1, <2>1, FansAlone DEF CreateEvent
<1>2. ASSUME NEW x \in Destination,
             (\E state \in {"enabled", "disabled"} : PutDestination(x, state))
               \/ DeleteDestination(x)
      PROVE  \A w \in Worker : Faithful(w)'
  <2>1. /\ UNCHANGED <<event, fan>>
        /\ \A e \in Event, d \in Destination :
             seen'[e][d] = IF event[e] = "new"
                             THEN seen[e][d] \cup {dest'[d] = "enabled"}
                             ELSE seen[e][d]
    BY <1>0, <1>2, ApiEffect, WatchEffect
  <2>2. \A e \in Event, d \in Destination :
          event[e] = "new" => (dest[d] = "enabled") \in seen[e][d]
    BY <1>0 DEF NewEventsAreWatched, Processed
  <2>3. ASSUME NEW e \in Event, event[e] = "new", NEW d \in Destination
        PROVE  /\ TRUE \in seen[e][d] => TRUE \in seen'[e][d]
               /\ seen'[e][d] = {TRUE} => seen[e][d] = {TRUE}
    <3>1. seen[e][d] # {}
      BY <2>2, <2>3, Zenon
    <3>2. seen[e][d] \subseteq seen'[e][d]
      BY <2>1, <2>3
    <3> QED
      BY <3>1, <3>2
  <2> QED
    BY <2>1, <2>3, FansAlone
<1>3. CASE UNCHANGED <<fan, event, seen>>
  BY <1>3, FansAlone
<1>4. ASSUME NEW e \in Event, EventAges(e) PROVE \A w \in Worker : Faithful(w)'
  BY <1>0, <1>4, FansAlone DEF EventAges, TypeOK
<1>5. ASSUME NEW c \in Cleaner, PurgeCommit(c)
      PROVE  \A w \in Worker : Faithful(w)'
  <2>1. \A e \in purge[c].events : event[e] = "old"
    BY DEF OutboxInv, HoldsOld
  <2>2. \A e \in Event : event[e] = "new" => event'[e] = "new"
    BY <1>0, <1>5, <2>1, PurgeCommitEffect
  <2> QED
    BY <1>5, <2>2, FansAlone DEF PurgeCommit
<1> QED
  BY <1>1, <1>2, <1>3, <1>4, <1>5,
     ClaimKeeps, GetEnabledKeeps, InsertKeeps, MarkKeeps, EndKeeps
  DEF Next, ApiStep, FanOutStep, PurgeStep, Aging, Deliver, RowAges, PurgeRows,
      PurgeEvents, PurgeAborts, vars

-----------------------------------------------------------------------------
(* Waiting events have no deliveries, and have seen the destinations. *)
LEMMA WatchedStep == OutboxInv /\ [Next]_vars => NewEventsAreWatched'
<1> SUFFICES ASSUME OutboxInv, [Next]_vars,
                    NEW e \in Event, NEW d \in Destination, ~Processed(e)'
             PROVE  /\ row'[e][d] = "none"
                    /\ event'[e] = "new" => (dest'[d] = "enabled") \in seen'[e][d]
  BY DEF NewEventsAreWatched
<1> DEFINE Watched == /\ row'[e][d] = "none"
                      /\ event'[e] = "new" => (dest'[d] = "enabled") \in seen'[e][d]
<1>0. TypeOK /\ <<e, d>> \in Keys /\ Row(<<e, d>>) = row[e][d]
             /\ Row(<<e, d>>)' = row'[e][d]
  BY DEF OutboxInv, Keys, Row
<1>1. ~Processed(e) => /\ row[e][d] = "none"
                       /\ event[e] = "new" => (dest[d] = "enabled") \in seen[e][d]
  BY DEF OutboxInv, NewEventsAreWatched
<1>2. ASSUME NEW f \in Event, CreateEvent(f) PROVE Watched
  BY <1>0, <1>1, <1>2 DEF CreateEvent, TypeOK, Processed
<1>3. ASSUME NEW x \in Destination,
             (\E state \in {"enabled", "disabled"} : PutDestination(x, state))
               \/ DeleteDestination(x)
      PROVE  Watched
  <2>1. /\ event' = event
        /\ \A f \in Event, y \in Destination :
             seen'[f][y] = IF event[f] = "new"
                             THEN seen[f][y] \cup {dest'[y] = "enabled"}
                             ELSE seen[f][y]
    BY <1>0, <1>3, ApiEffect, WatchEffect
  <2>2. row'[e][d] = "none"
    BY <1>0, <1>1, <1>3, <2>1, ApiEffect DEF Processed, Present
  <2>3. ASSUME event[e] = "new" PROVE (dest'[d] = "enabled") \in seen'[e][d]
    BY <2>1, <2>3, Zenon
  <2> QED
    BY <2>1, <2>2, <2>3
<1>4. CASE UNCHANGED <<event, row, dest, seen>>
  BY <1>1, <1>4 DEF Processed
<1>5. ASSUME NEW w \in Worker, FanOutCommit(w) PROVE Watched
  <2>1. event'[e] # "fanned"
    BY DEF Processed
  <2>2. e \notin fan[w].batch /\ event'[e] = event[e] /\ seen'[e] = seen[e]
    BY <1>0, <1>5, <2>1, CommitEffect
  <2>3. <<e, d>> \notin fan[w].rows
    BY <2>2 DEF OutboxInv, Faithful
  <2> QED
    BY <1>0, <1>1, <1>5, <2>2, <2>3, CommitEffect DEF Processed, FanOutCommit
<1>6. ASSUME NEW k \in Keys, Deliver(k) \/ RowAges(k) PROVE Watched
  BY <1>0, <1>1, <1>6, RowEffect DEF Processed
<1>7. ASSUME NEW f \in Event, EventAges(f) PROVE Watched
  BY <1>0, <1>1, <1>7 DEF EventAges, TypeOK, Processed
<1>8. ASSUME NEW c \in Cleaner, PurgeCommit(c) PROVE Watched
  <2>1. event'[e] # "purged"
    BY DEF Processed
  <2>2. e \notin purge[c].events /\ event'[e] = event[e]
    BY <1>0, <1>8, <2>1, PurgeCommitEffect
  <2>3. <<e, d>> \notin purge[c].rows
    BY <1>0, <1>1, <2>2 DEF OutboxInv, HoldsOld, Processed
  <2> QED
    BY <1>0, <1>1, <1>8, <2>2, <2>3, PurgeCommitEffect DEF Processed, PurgeCommit
<1> QED
  BY <1>2, <1>3, <1>4, <1>5, <1>6, <1>7, <1>8
  DEF Next, ApiStep, FanOutStep, FanOutAborts, PurgeStep, Aging, ClaimEvents,
      GetEnabled, Insert, MarkProcessed, ForeignKeyFails, PurgeRows, PurgeEvents,
      PurgeAborts, vars

-----------------------------------------------------------------------------
(* What a cleanup has selected stays as it is as long as its rows do, its
   events get no more of them, and no other cleanup selects the same. *)
LEMMA OldFrame ==
  ASSUME OutboxInv, NEW c \in Cleaner, purge'[c] = purge[c],
         \A k \in purge[c].rows : Row(k)' = Row(k),
         \A e \in purge[c].events :
           /\ event'[e] = event[e]
           /\ \A d \in Destination :
                row'[e][d] \in Present => row[e][d] \in Present,
         \A o \in Cleaner \ {c} :
           /\ \A k \in purge[c].rows : k \notin purge'[o].rows
           /\ \A e \in purge[c].events : e \notin purge'[o].events
  PROVE  HoldsOld(c)'
<1>1. HoldsOld(c)
  BY DEF OutboxInv
<1>2. \A e \in purge[c].events : Bare(c, e)'
  BY <1>1 DEF HoldsOld, Bare
<1> QED
  BY <1>1, <1>2 DEF HoldsOld

(* Steps of no cleanup. *)
LEMMA CleanersAlone ==
  ASSUME OutboxInv, purge' = purge,
         \A c \in Cleaner : \A k \in purge[c].rows : Row(k)' = Row(k),
         \A e \in Event : event[e] = "old" =>
           /\ event'[e] = event[e]
           /\ \A d \in Destination :
                row'[e][d] \in Present => row[e][d] \in Present
  PROVE  \A c \in Cleaner : HoldsOld(c)'
<1> SUFFICES ASSUME NEW c \in Cleaner PROVE HoldsOld(c)'
  OBVIOUS
<1>1. /\ \A o \in Cleaner : HoldsOld(o)
      /\ purge[c].events \subseteq Event
  BY DEF OutboxInv, TypeOK, Purges
<1>2. /\ \A e \in purge[c].events : e \in Event /\ event[e] = "old"
      /\ \A o \in Cleaner \ {c} :
           /\ \A k \in purge[c].rows : k \notin purge[o].rows
           /\ \A e \in purge[c].events : e \notin purge[o].events
  BY <1>1 DEF HoldsOld
<1> QED
  BY <1>2, OldFrame

(* A step of one cleanup that selects what no other one has. *)
LEMMA CleanerStep ==
  ASSUME OutboxInv, NEW c \in Cleaner, NEW p \in Purges,
         purge' = [purge EXCEPT ![c] = p], UNCHANGED <<event, row>>,
         \A o \in Cleaner \ {c} :
           /\ \A k \in p.rows : k \notin purge[o].rows
           /\ \A e \in p.events : e \notin purge[o].events,
         HoldsOld(c)'
  PROVE  \A o \in Cleaner : HoldsOld(o)'
<1> SUFFICES ASSUME NEW o \in Cleaner \ {c} PROVE HoldsOld(o)'
  OBVIOUS
<1>1. TypeOK /\ HoldsOld(o)
  BY DEF OutboxInv
<1>2. purge'[c] = p /\ \A x \in Cleaner \ {c} : purge'[x] = purge[x]
  BY <1>1, PurgeEffect
<1>3. ASSUME NEW x \in Cleaner \ {o}
      PROVE  /\ \A k \in purge[o].rows : k \notin purge'[x].rows
             /\ \A e \in purge[o].events : e \notin purge'[x].events
  BY <1>1, <1>2 DEF HoldsOld
<1>4. \A k : Row(k)' = Row(k)
  BY DEF Row
<1> QED
  BY <1>2, <1>3, <1>4, OldFrame

LEMMA OldStep == OutboxInv /\ [Next]_vars => \A c \in Cleaner : HoldsOld(c)'
<1> SUFFICES ASSUME OutboxInv, [Next]_vars PROVE \A c \in Cleaner : HoldsOld(c)'
  OBVIOUS
<1>0. /\ TypeOK /\ \A c \in Cleaner : HoldsOld(c)
      /\ \A c \in Cleaner : /\ purge[c].rows \subseteq Keys
                            /\ \A k \in purge[c].rows : Row(k) = "old"
  BY DEF OutboxInv, HoldsOld, TypeOK, Purges
<1>1. ASSUME NEW e \in Event, CreateEvent(e) PROVE \A c \in Cleaner : HoldsOld(c)'
  BY <1>0, <1>1, CleanersAlone DEF CreateEvent, TypeOK, Row
<1>2. ASSUME NEW x \in Destination,
             (\E state \in {"enabled", "disabled"} : PutDestination(x, state))
               \/ DeleteDestination(x)
      PROVE  \A c \in Cleaner : HoldsOld(c)'
  <2>1. /\ UNCHANGED <<event, purge>>
        /\ \A k \in Keys : \/ Row(k)' = Row(k)
                           \/ /\ Row(k) \in Present /\ Row(k)' = "dropped"
                              /\ \A c \in Cleaner : k \notin purge[c].rows
    BY <1>0, <1>2, ApiEffect
  <2>2. \A c \in Cleaner : \A k \in purge[c].rows : Row(k)' = Row(k)
    BY <1>0, <2>1
  <2>3. ASSUME NEW e \in Event, NEW d \in Destination, row'[e][d] \in Present
        PROVE  row[e][d] \in Present
    <3>1. <<e, d>> \in Keys /\ Row(<<e, d>>) = row[e][d]
                           /\ Row(<<e, d>>)' = row'[e][d]
      BY DEF Keys, Row
    <3> QED
      BY <2>1, <2>3, <3>1 DEF Present
  <2> QED
    BY <2>1, <2>2, <2>3, CleanersAlone
<1>3. CASE UNCHANGED <<event, row, purge>>
  BY <1>3, CleanersAlone DEF Row
<1>4. ASSUME NEW w \in Worker, FanOutCommit(w) PROVE \A c \in Cleaner : HoldsOld(c)'
  <2>1. \A e \in fan[w].batch : event[e] = "new"
    BY BatchIsNew
  <2>2. \A k \in fan[w].rows : k[1] \in fan[w].batch
    BY DEF OutboxInv, Faithful
  <2>3. \A e \in Event : event[e] = "old" =>
          event'[e] = event[e] /\ \A d \in Destination : row'[e][d] = row[e][d]
    <3> SUFFICES ASSUME NEW e \in Event, event[e] = "old", NEW d \in Destination
                 PROVE  event'[e] = event[e] /\ row'[e][d] = row[e][d]
      BY <1>0, <1>4, <2>1, CommitEffect
    <3>1. e \notin fan[w].batch
      BY <2>1
    <3>2. <<e, d>> \notin fan[w].rows
      BY <2>2, <3>1
    <3> QED
      BY <1>0, <1>4, <3>1, <3>2, CommitEffect
  <2>4. ASSUME NEW k \in Keys, Row(k) = "old" PROVE Row(k)' = Row(k)
    BY <1>0, <1>4, <2>4, CommitEffect DEF Row, Keys, Present
  <2> QED
    BY <1>0, <1>4, <2>3, <2>4, CleanersAlone DEF FanOutCommit
<1>5. ASSUME NEW k \in Keys, Deliver(k) \/ RowAges(k)
      PROVE  \A c \in Cleaner : HoldsOld(c)'
  <2>1. \A n \in Keys : Row(n) = "old" => Row(n)' = Row(n)
    BY <1>0, <1>5, RowEffect
  <2>2. ASSUME NEW e \in Event, NEW d \in Destination, row'[e][d] \in Present
        PROVE  row[e][d] \in Present
    <3>1. <<e, d>> \in Keys /\ Row(<<e, d>>) = row[e][d]
                           /\ Row(<<e, d>>)' = row'[e][d]
      BY DEF Keys, Row
    <3> QED
      BY <1>0, <1>5, <2>2, <3>1, RowEffect DEF Present
  <2> QED
    BY <1>0, <1>5, <2>1, <2>2, RowEffect, CleanersAlone
<1>6. ASSUME NEW e \in Event, EventAges(e) PROVE \A c \in Cleaner : HoldsOld(c)'
  BY <1>0, <1>6, CleanersAlone DEF EventAges, TypeOK, Row
<1>7. ASSUME NEW c \in Cleaner, PurgeRows(c) PROVE \A o \in Cleaner : HoldsOld(o)'
  <2>1. PICK S \in SUBSET OldRows :
          LET p == [purge[c] EXCEPT !.pc = "events", !.rows = S]
          IN  /\ \A k \in S, o \in Cleaner : k \notin purge[o].rows
              /\ purge' = [purge EXCEPT ![c] = p] /\ p \in Purges
    BY <1>0, <1>7, PurgeRowsEffect
  <2> DEFINE p == [purge[c] EXCEPT !.pc = "events", !.rows = S]
  <2>2. purge[c].events = {} /\ UNCHANGED <<event, row>>
    BY <1>0, <1>7 DEF PurgeRows, HoldsOld, NoPurge
  <2>3. p.pc = "events" /\ p.rows = S /\ p.events = {}
    BY <1>0, <2>2 DEF TypeOK, Purges
  <2>4. purge'[c] = p /\ \A o \in Cleaner \ {c} : purge'[o] = purge[o]
    BY <1>0, <2>1, PurgeEffect
  <2>5. HoldsOld(c)'
    BY <2>1, <2>2, <2>3, <2>4 DEF HoldsOld, OldRows, Row
  <2> QED
    BY <2>1, <2>2, <2>3, <2>5, CleanerStep
<1>8. ASSUME NEW c \in Cleaner, PurgeEvents(c) PROVE \A o \in Cleaner : HoldsOld(o)'
  <2>1. PICK S \in SUBSET OldEvents(c) :
          LET p == [purge[c] EXCEPT !.pc = "commit", !.events = S]
          IN  purge' = [purge EXCEPT ![c] = p] /\ p \in Purges
    BY <1>0, <1>8, PurgeEventsEffect
  <2> DEFINE p == [purge[c] EXCEPT !.pc = "commit", !.events = S]
  <2>2. p.pc = "commit" /\ p.rows = purge[c].rows /\ p.events = S
    BY <1>0 DEF TypeOK, Purges
  <2>3. purge'[c] = p /\ \A o \in Cleaner \ {c} : purge'[o] = purge[o]
    BY <1>0, <2>1, PurgeEffect
  <2>4. /\ \A k \in purge[c].rows :
             Row(k) = "old" /\ \A o \in Cleaner \ {c} : k \notin purge[o].rows
        /\ \A e \in S : event[e] = "old" /\ Bare(c, e)
                        /\ \A o \in Cleaner : e \notin purge[o].events
        /\ UNCHANGED <<event, row>>
    BY <1>0, <1>8 DEF HoldsOld, OldEvents, PurgeEvents
  <2>5. \A e \in S : Bare(c, e)'
    BY <2>2, <2>3, <2>4 DEF Bare
  <2>6. HoldsOld(c)'
    BY <2>2, <2>3, <2>4, <2>5 DEF HoldsOld, Row
  <2> QED
    BY <2>1, <2>2, <2>4, <2>6, CleanerStep
<1>9. ASSUME NEW c \in Cleaner, PurgeCommit(c) PROVE \A o \in Cleaner : HoldsOld(o)'
  <2>1. purge'[c] = NoPurge /\ \A o \in Cleaner \ {c} : purge'[o] = purge[o]
    BY <1>0, <1>9, PurgeCommitEffect, NoPurgeType, PurgeEffect
  <2>2. HoldsOld(c)'
    BY <2>1 DEF HoldsOld, NoPurge
  <2>3. ASSUME NEW o \in Cleaner \ {c} PROVE HoldsOld(o)'
    <3>1. ASSUME NEW k \in purge[o].rows PROVE Row(k)' = Row(k)
      <4>1. PICK e \in Event, d \in Destination : k = <<e, d>>
        BY <1>0 DEF Keys
      <4>2. k \notin purge[c].rows /\ row[e][d] = "old"
        BY <1>0, <4>1 DEF HoldsOld, Row
      <4>3. e \notin purge[c].events
        BY <1>0, <4>1, <4>2 DEF HoldsOld, Bare, Present
      <4> QED
        BY <1>0, <1>9, <4>1, <4>2, <4>3, PurgeCommitEffect DEF Row
    <3>2. ASSUME NEW e \in purge[o].events
          PROVE  /\ event'[e] = event[e]
                 /\ \A d \in Destination :
                      row'[e][d] \in Present => row[e][d] \in Present
      <4>1. e \in Event /\ e \notin purge[c].events
        BY <1>0 DEF HoldsOld, TypeOK, Purges
      <4> QED
        BY <1>0, <1>9, <4>1, PurgeCommitEffect DEF Present
    <3>3. ASSUME NEW x \in Cleaner \ {o}
          PROVE  /\ \A k \in purge[o].rows : k \notin purge'[x].rows
                 /\ \A e \in purge[o].events : e \notin purge'[x].events
      BY <1>0, <2>1 DEF HoldsOld, NoPurge
    <3> QED
      BY <2>1, <3>1, <3>2, <3>3, OldFrame
  <2> QED
    BY <2>2, <2>3
<1>10. ASSUME NEW c \in Cleaner, PurgeAborts(c) PROVE \A o \in Cleaner : HoldsOld(o)'
  <2>1. purge'[c] = NoPurge
    BY <1>0, <1>10, NoPurgeType, PurgeEffect DEF PurgeAborts
  <2>2. HoldsOld(c)'
    BY <2>1 DEF HoldsOld, NoPurge
  <2> QED
    BY <1>10, <2>2, NoPurgeType, CleanerStep DEF PurgeAborts, NoPurge
<1> QED
  BY <1>1, <1>2, <1>3, <1>4, <1>5, <1>6, <1>7, <1>8, <1>9, <1>10
  DEF Next, ApiStep, FanOutStep, FanOutAborts, PurgeStep, Aging, ClaimEvents,
      GetEnabled, Insert, MarkProcessed, ForeignKeyFails, vars

-----------------------------------------------------------------------------
LEMMA InvStep == OutboxInv /\ [Next]_vars => OutboxInv'
BY TypeStep, WatchedStep, FansStep, OldStep DEF OutboxInv

LEMMA InitInv == Init => OutboxInv
<1> SUFFICES ASSUME Init PROVE OutboxInv
  OBVIOUS
<1>1. TypeOK
  BY NoFanType, NoPurgeType, BoundAssumption
  DEF Init, TypeOK, EventStates, RowStates, DestStates, Unseen
<1>2. NewEventsAreWatched
  BY DEF Init, NewEventsAreWatched, Processed
<1>3. ASSUME NEW w \in Worker PROVE Faithful(w)
  <2>1. fan[w] = NoFan
    BY DEF Init
  <2> QED
    BY <2>1 DEF Faithful, NoFan
<1>4. ASSUME NEW c \in Cleaner PROVE HoldsOld(c)
  <2>1. purge[c] = NoPurge
    BY DEF Init
  <2> QED
    BY <2>1 DEF HoldsOld, NoPurge
<1> QED
  BY <1>1, <1>2, <1>3, <1>4 DEF OutboxInv

(* Every variable keeps its type, fan-outs and cleanups that overlap do not
   share rows (FOR UPDATE SKIP LOCKED), and what they have read still holds when
   they commit. *)
THEOREM ReadsHold == Spec => []OutboxInv
BY InitInv, InvStep, PTL DEF Spec

(* Only a fan-out that has marked its whole batch makes a waiting event a
   processed one. *)
LEMMA WaitsForCommit ==
  ASSUME OutboxInv, Next, NEW e \in Event, event[e] = "new", event'[e] # "new"
  PROVE  \E w \in Worker : FanOutCommit(w) /\ e \in fan[w].batch
<1>1. TypeOK /\ \A c \in Cleaner : \A f \in purge[c].events : event[f] = "old"
  BY DEF OutboxInv, HoldsOld
<1>2. ASSUME NEW f \in Event, CreateEvent(f) PROVE FALSE
  BY <1>1, <1>2 DEF CreateEvent, TypeOK
<1>3. ASSUME NEW f \in Event, EventAges(f) PROVE FALSE
  BY <1>1, <1>3 DEF EventAges, TypeOK
<1>4. ASSUME NEW c \in Cleaner, PurgeCommit(c) PROVE FALSE
  BY <1>1, <1>4, PurgeCommitEffect
<1>5. ASSUME NEW w \in Worker, FanOutCommit(w) PROVE e \in fan[w].batch
  BY <1>1, <1>5, CommitEffect
<1>6. event' # event
  OBVIOUS
<1> QED
  BY <1>2, <1>3, <1>4, <1>5, <1>6
  DEF Next, ApiStep, PutDestination, DeleteDestination, FanOutStep, FanOutAborts,
      PurgeStep, Aging, ClaimEvents, GetEnabled, Insert, MarkProcessed,
      ForeignKeyFails, Deliver, RowAges, PurgeRows, PurgeEvents, PurgeAborts

(* fan_out: a destination that was enabled while the event waited gets it, and
   one that never was does not. *)
THEOREM EnabledAreReached == Spec => FanOutReachesEnabled
<1> DEFINE Reached ==
      \A e \in Event, d \in Destination : event[e] = "new" /\ event'[e] # "new" =>
        /\ seen[e][d] = {TRUE}  => row'[e][d] = "pending"
        /\ seen[e][d] = {FALSE} => row'[e][d] = "none"
<1>1. OutboxInv /\ [Next]_vars => [Reached]_vars
  <2> SUFFICES ASSUME OutboxInv, Next, NEW e \in Event, NEW d \in Destination,
                      event[e] = "new", event'[e] # "new"
               PROVE  /\ seen[e][d] = {TRUE}  => row'[e][d] = "pending"
                      /\ seen[e][d] = {FALSE} => row'[e][d] = "none"
    OBVIOUS
  <2>1. PICK w \in Worker : FanOutCommit(w) /\ e \in fan[w].batch
    BY WaitsForCommit
  <2>2. TypeOK /\ Faithful(w) /\ row[e][d] = "none"
    BY DEF OutboxInv, NewEventsAreWatched, Processed
  <2>3. row'[e][d] = IF <<e, d>> \in fan[w].rows THEN "pending" ELSE "none"
    BY <2>1, <2>2, CommitEffect DEF Present
  <2>4. ASSUME seen[e][d] = {TRUE} PROVE <<e, d>> \in fan[w].rows
    <3>1. Passed(w, e, d)
      BY <2>1 DEF FanOutCommit, Passed
    <3> QED
      BY <2>1, <2>2, <2>4, <3>1, PassedHasRow
  <2>5. ASSUME <<e, d>> \in fan[w].rows PROVE TRUE \in seen[e][d]
    BY <2>2, <2>5 DEF Faithful
  <2>6. ASSUME seen[e][d] = {FALSE} PROVE <<e, d>> \notin fan[w].rows
    BY <2>5, <2>6, Zenon
  <2> QED
    BY <2>3, <2>4, <2>6
<1> QED
  BY <1>1, ReadsHold, PTL DEF Spec, FanOutReachesEnabled

(* What a step may do to one delivery. *)
LEMMA RowStep ==
  ASSUME OutboxInv, Next, NEW e \in Event, NEW d \in Destination,
         row'[e][d] # row[e][d]
  PROVE  \/ row[e][d] = "none" /\ row'[e][d] = "pending"
         \/ row[e][d] \in {"pending", "done"} /\ row'[e][d] \in {"done", "failed", "old"}
         \/ row[e][d] \in Present /\ row'[e][d] = "dropped"
         \/ row[e][d] = "old" /\ row'[e][d] = "purged"
<1> DEFINE k == <<e, d>>
<1>0. /\ TypeOK /\ k \in Keys /\ Row(k) = row[e][d] /\ Row(k)' = row'[e][d]
      /\ row' # row
  BY DEF OutboxInv, Keys, Row
<1>1. ASSUME NEW x \in Destination,
             (\E state \in {"enabled", "disabled"} : PutDestination(x, state))
               \/ DeleteDestination(x)
      PROVE  row[e][d] \in Present /\ row'[e][d] = "dropped"
  BY <1>0, <1>1, ApiEffect
<1>2. ASSUME NEW w \in Worker, FanOutCommit(w)
      PROVE  row[e][d] = "none" /\ row'[e][d] = "pending"
  <2>1. k \in fan[w].rows /\ row'[e][d] = "pending"
    BY <1>0, <1>2, CommitEffect
  <2>2. e \in fan[w].batch
    BY <2>1 DEF OutboxInv, Faithful
  <2> QED
    BY <2>1, <2>2, BatchIsNew DEF OutboxInv, NewEventsAreWatched, Processed
<1>3. ASSUME NEW n \in Keys, Deliver(n) \/ RowAges(n)
      PROVE  row[e][d] \in {"pending", "done"} /\ row'[e][d] \in {"done", "failed", "old"}
  BY <1>0, <1>3, RowEffect
<1>4. ASSUME NEW c \in Cleaner, PurgeCommit(c)
      PROVE  row[e][d] = "old" /\ row'[e][d] = "purged"
  <2>1. /\ k \in purge[c].rows \/ (e \in purge[c].events /\ row[e][d] \in Present)
        /\ row'[e][d] = "purged"
    BY <1>0, <1>4, PurgeCommitEffect
  <2>2. k \in purge[c].rows
    BY <2>1 DEF OutboxInv, HoldsOld, Bare
  <2> QED
    BY <1>0, <2>1, <2>2 DEF OutboxInv, HoldsOld
<1> HIDE DEF k
<1> QED
  BY <1>0, <1>1, <1>2, <1>3, <1>4
  DEF Next, ApiStep, FanOutStep, FanOutAborts, PurgeStep, Aging, CreateEvent,
      ClaimEvents, GetEnabled, Insert, MarkProcessed, ForeignKeyFails, EventAges,
      PurgeRows, PurgeEvents, PurgeAborts

(* create_if_missing and the cleanup: a delivery that has ended or was removed
   never comes back. *)
THEOREM EndedStaysEnded == Spec => NoSecondDelivery
<1> DEFINE Once ==
      \A e \in Event, d \in Destination :
        row[e][d] \notin {"none", "pending"} => row'[e][d] \notin {"none", "pending"}
<1>1. OutboxInv /\ [Next]_vars => [Once]_vars
  BY RowStep DEF Present
<1> QED
  BY <1>1, ReadsHold, PTL DEF Spec, NoSecondDelivery

(* cleanup: only completed deliveries and processed events that are old go. *)
THEOREM UnfinishedIsSpared == Spec => CleanupSparesUnfinished
<1> DEFINE Spared ==
      /\ \A k \in Keys : Row(k) # "old" => Row(k)' # "purged" \/ Row(k) = "purged"
      /\ \A e \in Event : event'[e] = "purged" => event[e] \in {"old", "purged"}
<1>1. OutboxInv /\ [Next]_vars => [Spared]_vars
  <2> SUFFICES ASSUME OutboxInv, Next PROVE Spared
    OBVIOUS
  <2>1. ASSUME NEW e \in Event, NEW d \in Destination,
               row[e][d] # "old", row'[e][d] = "purged"
        PROVE  row[e][d] = "purged"
    BY <2>1, RowStep DEF Present
  <2>2. \A k \in Keys : Row(k) # "old" => Row(k)' # "purged" \/ Row(k) = "purged"
    BY <2>1 DEF Keys, Row
  <2>3. ASSUME NEW e \in Event, event'[e] = "purged", event[e] # "purged"
        PROVE  event[e] = "old"
    <3>1. TypeOK
      BY DEF OutboxInv
    <3>2. ASSUME NEW f \in Event, CreateEvent(f) \/ EventAges(f) PROVE FALSE
      BY <2>3, <3>1, <3>2 DEF CreateEvent, EventAges, TypeOK
    <3>3. ASSUME NEW w \in Worker, FanOutCommit(w) PROVE FALSE
      BY <2>3, <3>1, <3>3, CommitEffect
    <3>4. ASSUME NEW c \in Cleaner, PurgeCommit(c) PROVE event[e] = "old"
      <4>1. e \in purge[c].events
        BY <2>3, <3>1, <3>4, PurgeCommitEffect
      <4> QED
        BY <4>1 DEF OutboxInv, HoldsOld
    <3>5. event' # event
      BY <2>3
    <3> QED
      BY <3>2, <3>3, <3>4, <3>5
      DEF Next, ApiStep, PutDestination, DeleteDestination, FanOutStep, FanOutAborts,
          PurgeStep, Aging, ClaimEvents, GetEnabled, Insert, MarkProcessed,
          ForeignKeyFails, Deliver, RowAges, PurgeRows, PurgeEvents, PurgeAborts
  <2> QED
    BY <2>2, <2>3
<1> QED
  BY <1>1, ReadsHold, PTL DEF Spec, CleanupSparesUnfinished
=============================================================================
