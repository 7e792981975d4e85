---------------------------- MODULE ApplicationProofs ----------------------------
(***************************************************************************)
(* Proofs about Application, for every set of requests, every size of the  *)
(* pool, every interval of the log and every season.                       *)
(***************************************************************************)
EXTENDS Application, TLAPS

-----------------------------------------------------------------------------
(* The inductive invariant *)

\* Requests run only until they are drained, their tasks are all pending, and only a
\* process that is up, or waits, has some.
ProcessShape ==
    /\ InProgress # {} => app \in {"up", "draining"}
    /\ TasksRunning \subseteq pending
    /\ pending # {} => app \in {"up", "draining", "rolling", "polling"}

\* When the interval of the log began, and by how much its names are shifted.
Began(l) == l.rolloverAt - Interval
Shift == IF 0 \in Summer THEN Hour ELSE 0

\* All files were named for a time before t.
NamesBefore(l, t) == \A n \in l.backups : n - Shift < t

\* The interval of a running process began by its start or its last roll-over.
TimesOrdered ==
    /\ log.mtime <= clock
    /\ app # "down" => Began(log) \in Nat /\ Began(log) <= last

\* A log that will not delete a file when it rolls over.
Grows(l) ==
    /\ ~ l.lost
    /\ NamesBefore(l, Began(l))
    /\ l.base => NamesBefore(l, l.mtime)

NamesGrow ==
    ~ SeasonChanged /\ ~ crowded =>
    /\ ~ log.lost
    /\ NamesBefore(log, last)
    /\ log.base => NamesBefore(log, log.mtime)
    /\ app # "down" => NamesBefore(log, Began(log))

IInv == TypeOK /\ ProcessShape /\ TimesOrdered /\ NamesGrow

-----------------------------------------------------------------------------
(* The operations of the log *)

\* Names are integers.
LEMMA NameType ==
  ASSUME NEW t \in Int
  PROVE  BackupName(t) \in Int
  BY ApplicationAssumption DEF BackupName, LocalTime

\* While the season has not changed, the name of a file is its time, shifted.
LEMMA NameIsShifted ==
  ASSUME TypeOK, ~ SeasonChanged, NEW t \in Nat, t <= clock
  PROVE  BackupName(t) = t + Shift
  <1>1. clock \in Nat /\ t \in 0 .. clock /\ clock \in 0 .. clock
    BY ApplicationAssumption DEF TypeOK
  <1>2. (t \in Summer) = (0 \in Summer) /\ (clock \in Summer) = (0 \in Summer)
    BY <1>1 DEF SeasonChanged
  <1>3. BackupName(t) = LocalTime(t)
    BY <1>2 DEF BackupName
  <1>4. CASE 0 \in Summer
    BY <1>2, <1>3, <1>4 DEF LocalTime, Shift
  <1>5. CASE 0 \notin Summer
    BY <1>2, <1>3, <1>5 DEF LocalTime, Shift
  <1> QED
    BY <1>4, <1>5

\* What a roll-over at second t makes of the log, field by field.
RollsOver(l, m) ==
    /\ m.lost = (l.lost \/ BackupName(Began(l)) \in l.backups)
    /\ m.backups \subseteq l.backups \cup {BackupName(Began(l))}
    /\ ~ m.base /\ m.mtime = l.mtime
    /\ m.rolloverAt = clock + Interval

LEMMA RolledOverFields ==
  ASSUME TypeOK, NEW l \in Log
  PROVE  RolledOver(l) \in Log /\ RollsOver(l, RolledOver(l)) /\ Began(RolledOver(l)) = clock
  <1> DEFINE name == BackupName(Began(l))
             m == RolledOver(l)
  <1>1. clock \in Nat /\ Interval \in Nat
    BY ApplicationAssumption DEF TypeOK
  <1>2. name \in Int
    BY <1>1, NameType DEF Began, Log
  <1>3. m = [l EXCEPT !.lost = @ \/ name \in l.backups,
                      !.backups = (@ \ {name}) \cup (IF l.base THEN {name} ELSE {}),
                      !.base = FALSE, !.rolloverAt = clock + Interval]
    BY DEF RolledOver, NextRollover, Began
  <1> HIDE DEF name, m
  <1>4. /\ l.mtime \in 0 .. MaxTime /\ l.backups \in SUBSET Int
        /\ (l.lost \/ name \in l.backups) \in BOOLEAN
    BY DEF Log
  <1>5. (l.backups \ {name}) \cup (IF l.base THEN {name} ELSE {}) \in SUBSET Int
    BY <1>2, <1>4
  <1>6. m \in Log
    <2>1. ASSUME NEW a \in BOOLEAN, NEW b \in SUBSET Int, NEW n \in Nat
          PROVE  [l EXCEPT !.lost = a, !.backups = b, !.base = FALSE, !.rolloverAt = n] \in Log
      BY DEF Log
    <2>2. clock + Interval \in Nat
      BY <1>1
    <2> QED
      BY <1>3, <1>4, <1>5, <2>1, <2>2
  <1>7. /\ m.backups = (l.backups \ {name}) \cup (IF l.base THEN {name} ELSE {})
        /\ m.lost = (l.lost \/ name \in l.backups) /\ m.base = FALSE /\ m.mtime = l.mtime
        /\ m.rolloverAt = clock + Interval
    BY <1>3 DEF Log
  <1>8. m.backups \subseteq l.backups \cup {name}
    BY <1>7
  <1>9. RollsOver(l, m)
    BY <1>7, <1>8 DEF name, RollsOver
  <1>10. Began(m) = clock
    BY <1>1, <1>7 DEF Began
  <1> QED
    BY <1>6, <1>9, <1>10 DEF m

\* A roll-over after the interval has begun deletes nothing and leaves such a log.
LEMMA RollOverGrows ==
  ASSUME TypeOK, ~ SeasonChanged, NEW l \in Log, Grows(l),
         Began(l) \in Nat, Began(l) < clock
  PROVE  Grows(RolledOver(l))
  <1>1. clock \in Nat /\ Shift \in Nat
    BY ApplicationAssumption DEF TypeOK, Shift
  <1> DEFINE m == RolledOver(l)
             t == Began(l)
  <1>2. BackupName(t) = t + Shift
    BY <1>1, NameIsShifted
  <1>3. RollsOver(l, m) /\ Began(m) = clock
    BY RolledOverFields
  <1>4. l.backups \in SUBSET Int
    BY DEF Log
  <1>5. ~ l.lost /\ \A n \in l.backups : n - Shift < t
    BY DEF Grows, NamesBefore
  <1> HIDE DEF m, t
  <1>6. t \in Nat /\ t < clock
    BY DEF t
  <1>7. t + Shift \notin l.backups
    BY <1>1, <1>4, <1>5, <1>6
  <1>8. ~ m.lost /\ ~ m.base /\ m.backups \subseteq l.backups \cup {t + Shift}
    BY <1>2, <1>3, <1>5, <1>7 DEF RollsOver, t
  <1>9. \A n \in m.backups : n - Shift < clock
    BY <1>1, <1>4, <1>5, <1>6, <1>8
  <1>10. Grows(m)
    BY <1>3, <1>8, <1>9 DEF Grows, NamesBefore
  <1> QED
    BY <1>10 DEF m

\* What a record makes of the log, once it was rolled over if that was due.
Writes(l, m) ==
    /\ m.lost = l.lost /\ m.backups = l.backups
    /\ m.base /\ m.mtime = clock
    /\ m.rolloverAt = l.rolloverAt

LEMMA WrittenFields ==
  ASSUME TypeOK, NEW l \in Log
  PROVE  /\ Written(l) \in Log
         /\ Due(l) => Writes(RolledOver(l), Written(l))
         /\ ~ Due(l) => Writes(l, Written(l))
  <1>1. clock \in 0 .. MaxTime
    BY DEF TypeOK
  <1>2. ASSUME NEW k \in Log
        PROVE  /\ [k EXCEPT !.base = TRUE, !.mtime = clock] \in Log
               /\ Writes(k, [k EXCEPT !.base = TRUE, !.mtime = clock])
    BY <1>1 DEF Log, Writes
  <1>3. RolledOver(l) \in Log
    BY RolledOverFields
  <1>4. CASE Due(l)
    <2>1. Written(l) = [RolledOver(l) EXCEPT !.base = TRUE, !.mtime = clock]
      BY <1>4 DEF Written
    <2> QED
      BY <1>2, <1>3, <1>4, <2>1
  <1>5. CASE ~ Due(l)
    <2>1. Written(l) = [l EXCEPT !.base = TRUE, !.mtime = clock]
      BY <1>5 DEF Written
    <2> QED
      BY <1>2, <1>5, <2>1
  <1> QED
    BY <1>4, <1>5

\* When the interval of a log that was written to began.
LEMMA WrittenBegan ==
  ASSUME TypeOK, NEW l \in Log
  PROVE  /\ Due(l) => Began(Written(l)) = clock
         /\ ~ Due(l) => Began(Written(l)) = Began(l)
  <1>1. Due(l) => Began(Written(l)) = Began(RolledOver(l))
    BY WrittenFields DEF Writes, Began
  <1>2. ~ Due(l) => Began(Written(l)) = Began(l)
    BY WrittenFields DEF Writes, Began
  <1> QED
    BY <1>1, <1>2, RolledOverFields

\* A roll-over that is due comes after the interval has begun.
LEMMA DueBegan ==
  ASSUME TypeOK, NEW l \in Log
  PROVE  Due(l) => Began(l) < clock
  <1>1. clock \in Nat /\ Interval \in Nat \ {0} /\ l.rolloverAt \in Nat
    BY ApplicationAssumption DEF TypeOK, Log
  <1> QED
    BY <1>1 DEF Due, Began

\* A record keeps such a log, if the interval began by now.
LEMMA WriteGrows ==
  ASSUME TypeOK, ~ SeasonChanged, NEW l \in Log, Grows(l),
         Began(l) \in Nat, Began(l) <= clock
  PROVE  Grows(Written(l))
  <1>1. clock \in Nat /\ Shift \in Nat
    BY ApplicationAssumption DEF TypeOK, Shift
  <1>2. Began(l) \in Nat /\ l.backups \in SUBSET Int
    BY DEF Log
  <1> DEFINE w == Written(l)
             m == RolledOver(l)
  <1>3. CASE Due(l)
    <2>1. Grows(m) /\ Began(m) = clock
      BY <1>3, DueBegan, RollOverGrows, RolledOverFields
    <2>2. Writes(m, w) /\ Began(w) = clock
      BY <1>3, WrittenFields, WrittenBegan
    <2> HIDE DEF w, m
    <2>3. Grows(w)
      BY <2>1, <2>2 DEF Grows, NamesBefore, Writes
    <2> QED
      BY <2>3 DEF w
  <1>4. CASE ~ Due(l)
    <2>1. Writes(l, w) /\ Began(w) = Began(l)
      BY <1>4, WrittenFields, WrittenBegan
    <2> HIDE DEF w
    <2>2. ~ w.lost /\ \A n \in w.backups : n - Shift < Began(l)
      BY <2>1 DEF Writes, Grows, NamesBefore
    <2>3. NamesBefore(w, Began(w))
      BY <2>1, <2>2 DEF NamesBefore
    <2>4. w.mtime = clock /\ w.backups = l.backups
      BY <2>1 DEF Writes
    <2>5. NamesBefore(w, w.mtime)
      BY <1>1, <1>2, <2>2, <2>4 DEF NamesBefore
    <2> QED
      BY <2>2, <2>3, <2>5 DEF Grows, w
  <1> QED
    BY <1>3, <1>4

-----------------------------------------------------------------------------
(* Steps of the log *)

LogOK ==
    /\ log \in Log /\ last \in -1 .. clock /\ crowded \in BOOLEAN
    /\ TimesOrdered /\ NamesGrow

\* Once the season has changed it stays so.
LEMMA SeasonStays ==
  ASSUME clock \in Nat, clock' \in Nat, clock <= clock', ~ SeasonChanged'
  PROVE  ~ SeasonChanged
  BY DEF SeasonChanged

\* What NamesGrow says of a running process, and of the history of a step that marks it.
LEMMA RunningGrows ==
  ASSUME IInv, app # "down"
  PROVE  /\ Began(log) \in Nat /\ Began(log) <= last /\ last <= clock
         /\ ~ SeasonChanged /\ ~ crowded => Grows(log)
         /\ last # clock => Began(log) < clock
  <1>1. clock \in Nat /\ last \in -1 .. clock
    BY ApplicationAssumption DEF IInv, TypeOK
  <1>2. Began(log) \in Nat /\ Began(log) <= last
    BY DEF IInv, TimesOrdered
  <1>3. ~ SeasonChanged /\ ~ crowded => Grows(log)
    BY DEF IInv, NamesGrow, Grows
  <1>4. last # clock => Began(log) < clock
    BY <1>1, <1>2
  <1> QED
    BY <1>1, <1>2, <1>3, <1>4

\* Records are written by a running process.
LEMMA WriteStep ==
  ASSUME IInv, app # "down", Write, clock' = clock
  PROVE  LogOK'
  <1>1. clock \in Nat /\ clock \in 0 .. MaxTime /\ TypeOK /\ log \in Log /\ crowded \in BOOLEAN
    BY ApplicationAssumption DEF IInv, TypeOK
  <1>2. log' = Written(log) /\ log' \in Log /\ log'.mtime = clock /\ log'.base
    BY <1>1, WrittenFields DEF Write, Writes
  <1>3. CASE Due(log)
    <2>1. last' = clock /\ crowded' = (crowded \/ last = clock)
      BY <1>3 DEF Write, Marks
    <2>2. Began(log') = clock
      BY <1>1, <1>2, <1>3, WrittenBegan
    <2>3. TimesOrdered'
      BY <1>1, <1>2, <2>1, <2>2 DEF TimesOrdered, Began
    <2>4. ASSUME ~ SeasonChanged', ~ crowded'
          PROVE  Grows(log')
      <3>1. ~ SeasonChanged /\ ~ crowded /\ Grows(log)
        BY <1>1, <2>1, <2>4, SeasonStays, RunningGrows
      <3>2. Began(log) \in Nat /\ Began(log) <= clock
        BY <1>1, RunningGrows DEF IInv, TypeOK
      <3> QED
        BY <1>1, <1>2, <3>1, <3>2, WriteGrows
    <2>5. NamesGrow'
      <3>1. ASSUME ~ SeasonChanged', ~ crowded'
            PROVE  ~ log'.lost /\ NamesBefore(log', clock)
        BY <1>2, <2>2, <2>4, <3>1 DEF Grows
      <3> QED
        BY <1>2, <2>1, <2>2, <3>1 DEF NamesGrow, NamesBefore, Began
    <2> QED
      BY <1>1, <1>2, <2>1, <2>3, <2>5 DEF LogOK
  <1>4. CASE ~ Due(log)
    <2>1. last' = last /\ crowded' = crowded
      BY <1>4 DEF Write
    <2>2. Writes(log, log') /\ Began(log') = Began(log)
      BY <1>1, <1>2, <1>4, WrittenFields, WrittenBegan
    <2>3. Began(log) \in Nat /\ Began(log) <= last /\ last <= clock /\ last \in Int
      BY <1>1, RunningGrows DEF IInv, TypeOK
    <2>4. TimesOrdered'
      BY <1>1, <1>2, <2>1, <2>2, <2>3 DEF TimesOrdered, Began
    <2>5. NamesGrow'
      <3>1. SUFFICES ASSUME ~ SeasonChanged', ~ crowded'
                     PROVE  /\ ~ log'.lost
                            /\ NamesBefore(log', last)
                            /\ NamesBefore(log', clock)
                            /\ NamesBefore(log', Began(log))
        BY <1>2, <2>1, <2>2 DEF NamesGrow, NamesBefore, Began
      <3>2. ~ SeasonChanged /\ ~ crowded
        BY <1>1, <2>1, <3>1, SeasonStays
      <3>3. ~ log.lost /\ NamesBefore(log, last) /\ NamesBefore(log, Began(log))
        BY <3>2 DEF IInv, NamesGrow
      <3>4. NamesBefore(log, clock)
        <4>1. log.backups \in SUBSET Int /\ Shift \in Nat
          BY <1>1, ApplicationAssumption DEF Log, Shift
        <4> QED
          BY <1>1, <2>3, <3>3, <4>1 DEF NamesBefore
      <3>5. log'.lost = log.lost /\ log'.backups = log.backups
        BY <2>2 DEF Writes
      <3> QED
        BY <3>3, <3>4, <3>5 DEF NamesBefore
    <2> QED
      BY <1>1, <1>2, <2>1, <2>3, <2>4, <2>5 DEF LogOK
  <1> QED
    BY <1>3, <1>4

\* A process that runs rolls its log over when it stops.
LEMMA RollStep ==
  ASSUME IInv, RollLogOver
  PROVE  LogOK'
  <1>1. clock \in Nat /\ TypeOK /\ log \in Log /\ crowded \in BOOLEAN /\ log.mtime <= clock
    BY ApplicationAssumption DEF IInv, TypeOK, TimesOrdered
  <1>2. /\ log' = RolledOver(log) /\ clock' = clock /\ last' = clock
        /\ crowded' = (crowded \/ last = clock) /\ app # "down"
    BY DEF RollLogOver, Marks
  <1>3. log' \in Log /\ RollsOver(log, log') /\ Began(log') = clock
    BY <1>1, <1>2, RolledOverFields
  <1>4. TimesOrdered'
    BY <1>1, <1>2, <1>3 DEF TimesOrdered, RollsOver, Began
  <1>5. ASSUME ~ SeasonChanged', ~ crowded'
        PROVE  Grows(log')
    <2>1. ~ SeasonChanged /\ ~ crowded /\ last # clock
      <3>1. ~ SeasonChanged
        BY <1>1, <1>2, <1>5, SeasonStays
      <3> QED
        BY <1>1, <1>2, <1>5, <3>1
    <2> QED
      BY <1>1, <1>2, <2>1, RunningGrows, RollOverGrows
  <1>6. NamesGrow'
    BY <1>2, <1>3, <1>5 DEF NamesGrow, Grows, NamesBefore, Began
  <1> QED
    BY <1>1, <1>2, <1>3, <1>4, <1>6 DEF LogOK

\* A process that fails to start writes a record, and rolls its log over.
LEMMA FailStep ==
  ASSUME IInv, FailToStart
  PROVE  LogOK'
  <1> DEFINE w == Written(log)
  <1>1. clock \in Nat /\ TypeOK /\ log \in Log /\ crowded \in BOOLEAN
    BY ApplicationAssumption DEF IInv, TypeOK
  <1>2. /\ log' = RolledOver(w) /\ clock' = clock /\ last' = clock
        /\ crowded' = (crowded \/ last = clock \/ Due(log)) /\ app # "down" /\ app' = "down"
    BY DEF FailToStart
  <1>3. w \in Log /\ w.mtime = clock
    BY <1>1, WrittenFields DEF Writes
  <1>4. ~ Due(log) => Began(w) = Began(log)
    BY <1>1, WrittenBegan
  <1>5. ~ SeasonChanged /\ ~ crowded => Grows(w)
    <2>1. Began(log) \in Nat /\ Began(log) <= clock
      BY <1>1, <1>2, RunningGrows DEF IInv, TypeOK
    <2> QED
      BY <1>1, <1>2, <2>1, RunningGrows, WriteGrows
  <1> HIDE DEF w
  <1>6. log' \in Log /\ RollsOver(w, log') /\ Began(log') = clock
    BY <1>1, <1>2, <1>3, RolledOverFields
  <1>7. TimesOrdered'
    BY <1>1, <1>2, <1>3, <1>6 DEF TimesOrdered, RollsOver
  <1>8. ASSUME ~ SeasonChanged', ~ crowded'
        PROVE  Grows(log')
    <2>1. ~ SeasonChanged /\ ~ crowded /\ last # clock /\ ~ Due(log)
      <3>1. ~ SeasonChanged
        BY <1>1, <1>2, <1>8, SeasonStays
      <3> QED
        BY <1>1, <1>2, <1>8, <3>1
    <2>2. Began(w) \in Nat /\ Began(w) < clock
      BY <1>2, <1>4, <2>1, RunningGrows
    <2> QED
      BY <1>1, <1>2, <1>3, <1>5, <2>1, <2>2, RollOverGrows
  <1>9. NamesGrow'
    BY <1>2, <1>6, <1>8 DEF NamesGrow, Grows, NamesBefore, Began
  <1> QED
    BY <1>1, <1>2, <1>6, <1>7, <1>9 DEF LogOK

\* A process that starts goes on with the file it finds.
LEMMA StartStep ==
  ASSUME IInv, Start
  PROVE  LogOK'
  <1> DEFINE o == Opened(log)
  <1>1. clock \in Nat /\ TypeOK /\ log \in Log /\ crowded \in BOOLEAN /\ last \in -1 .. clock
    BY ApplicationAssumption DEF IInv, TypeOK
  <1>2. /\ log' = Written(o) /\ clock' = clock /\ last' = clock
        /\ crowded' = (crowded \/ last = clock)
    BY DEF Start, Marks
  <1>3. /\ log.mtime \in 0 .. MaxTime /\ log.mtime <= clock /\ log.backups \in SUBSET Int
        /\ Interval \in Nat /\ Shift \in Nat
    BY <1>1, ApplicationAssumption DEF IInv, TimesOrdered, Log, Shift
  <1>4. /\ o.base = log.base /\ o.lost = log.lost /\ o.backups = log.backups
        /\ o.mtime = log.mtime
        /\ o.rolloverAt = (IF log.base THEN log.mtime ELSE clock) + Interval
    BY <1>1 DEF Opened, Log
  <1>5. o \in Log
    <2>1. (IF log.base THEN log.mtime ELSE clock) + Interval \in Nat
      BY <1>1, <1>3
    <2>2. \A n \in Nat : [log EXCEPT !.rolloverAt = n] \in Log
      BY <1>1 DEF Log
    <2> QED
      BY <2>1, <2>2 DEF Opened
  <1> HIDE DEF o
  <1>6. Began(o) = IF log.base THEN log.mtime ELSE clock
    BY <1>1, <1>3, <1>4 DEF Began
  <1>7. Began(o) \in Nat /\ Began(o) <= clock
    BY <1>1, <1>3, <1>6
  <1>8. log' \in Log /\ log'.mtime = clock /\ log'.base
    BY <1>1, <1>2, <1>5, WrittenFields DEF Writes
  <1>9. Began(log') \in Nat /\ Began(log') <= clock
    BY <1>1, <1>2, <1>5, <1>7, WrittenBegan
  <1>10. TimesOrdered'
    BY <1>1, <1>2, <1>8, <1>9 DEF TimesOrdered, Began
  <1>11. ASSUME ~ SeasonChanged', ~ crowded'
         PROVE  Grows(log')
    <2>1. ~ SeasonChanged /\ ~ crowded /\ last < clock
      <3>1. ~ SeasonChanged
        BY <1>1, <1>2, <1>11, SeasonStays
      <3>2. ~ crowded /\ last # clock
        BY <1>2, <1>11
      <3> QED
        BY <1>1, <3>1, <3>2
    <2>2. /\ ~ log.lost /\ NamesBefore(log, last)
          /\ log.base => NamesBefore(log, log.mtime)
      BY <2>1 DEF IInv, NamesGrow
    <2>3. NamesBefore(log, clock)
      BY <1>1, <1>3, <2>1, <2>2 DEF NamesBefore
    <2>4. Grows(o)
      BY <1>4, <1>6, <2>2, <2>3 DEF Grows, NamesBefore
    <2> QED
      BY <1>1, <1>2, <1>5, <1>7, <2>1, <2>4, WriteGrows
  <1>12. NamesGrow'
    BY <1>2, <1>8, <1>11 DEF NamesGrow, Grows, NamesBefore, Began
  <1> QED
    BY <1>1, <1>2, <1>8, <1>10, <1>12 DEF LogOK

\* Steps that leave the log alone, and start no process.
LEMMA QuietStep ==
  ASSUME IInv, UNCHANGED <<log, last, crowded>>, app = "down" => app' = "down",
         clock' \in 0 .. MaxTime, clock <= clock'
  PROVE  LogOK'
  <1>1. clock \in Nat /\ clock' \in Nat /\ log \in Log /\ last \in -1 .. clock
        /\ crowded \in BOOLEAN /\ log.mtime \in 0 .. MaxTime
    BY ApplicationAssumption DEF IInv, TypeOK, Log
  <1>2. TimesOrdered'
    BY <1>1 DEF IInv, TimesOrdered, Began
  <1>3. NamesGrow'
    BY <1>1, SeasonStays DEF IInv, NamesGrow, NamesBefore, Began
  <1> QED
    BY <1>1, <1>2, <1>3 DEF LogOK

-----------------------------------------------------------------------------
(* Every step preserves the invariant *)

LEMMA InitHolds == Init => IInv
  <1> SUFFICES ASSUME Init PROVE IInv
    OBVIOUS
  <1>1. TypeOK
    <2>1. clock \in 0 .. MaxTime /\ starts \in 0 .. MaxStarts /\ last \in -1 .. clock
      BY ApplicationAssumption DEF Init
    <2>4. app \in Phase /\ crowded \in BOOLEAN
      BY DEF Init, Phase
    <2>2. pc \in [Requests -> Step] /\ pending \in SUBSET Requests
      BY DEF Init, Step
    <2>3. log \in Log
      BY ApplicationAssumption DEF Init, Log
    <2> QED
      BY <2>1, <2>2, <2>3, <2>4 DEF TypeOK
  <1>2. ProcessShape
    BY DEF Init, ProcessShape, InProgress, TasksRunning
  <1>3. TimesOrdered /\ NamesGrow
    BY DEF Init, TimesOrdered, NamesGrow, NamesBefore
  <1> QED
    BY <1>1, <1>2, <1>3 DEF IInv

\* What the steps of requests and tasks do to pc, app and pending.
LEMMA RequestShape ==
  ASSUME IInv, NEW r \in Requests, Accept(r) \/ RequestStep(r)
  PROVE  /\ pc' \in [Requests -> Step] /\ pending' \in SUBSET Requests
         /\ ProcessShape'
         /\ app' = app /\ starts' = starts /\ clock' = clock
         /\ (Write /\ app # "down") \/ UNCHANGED <<log, last, crowded>>
  <1>1. pc \in [Requests -> Step] /\ pending \in SUBSET Requests /\ ProcessShape
    BY DEF IInv, TypeOK
  <1>2. CASE Accept(r)
    BY <1>1, <1>2 DEF Accept, Moves, Step, ProcessShape, InProgress, TasksRunning
  <1>3. CASE Acquire(r)
    BY <1>1, <1>3 DEF Acquire, Moves, Step, ProcessShape, InProgress, TasksRunning
  <1>4. CASE Finish(r)
    BY <1>1, <1>4 DEF Finish, Moves, Step, ProcessShape, InProgress, TasksRunning
  <1>5. CASE Commit(r)
    BY <1>1, <1>5 DEF Commit, Moves, Step, ProcessShape, InProgress, TasksRunning
  <1>6. CASE Dispatch(r)
    BY <1>1, <1>6 DEF Dispatch, Moves, Step, ProcessShape, InProgress, TasksRunning
  <1>7. CASE EndTask(r)
    BY <1>1, <1>7 DEF EndTask, Discarded, Moves, Step, ProcessShape, InProgress, TasksRunning
  <1>8. CASE Unwind(r)
    BY <1>1, <1>8 DEF Unwind, Moves, Step, ProcessShape, InProgress, TasksRunning
  <1> QED
    BY <1>2, <1>3, <1>4, <1>5, <1>6, <1>7, <1>8 DEF RequestStep

\* What the steps of the process do to pc, app and pending.
LEMMA ProcessStepShape ==
  ASSUME IInv,
         \/ Start \/ Ready \/ FailToConnect \/ FailToStart
         \/ Stop \/ Cleanup \/ Crash \/ Tick
  PROVE  /\ pc' \in [Requests -> Step] /\ pending' \in SUBSET Requests
         /\ app' \in Phase /\ starts' \in 0 .. MaxStarts
         /\ ProcessShape'
  <1>1. /\ pc \in [Requests -> Step] /\ pending \in SUBSET Requests /\ ProcessShape
        /\ app \in Phase /\ starts \in 0 .. MaxStarts /\ MaxStarts \in Nat
    BY ApplicationAssumption DEF IInv, TypeOK
  <1>2. CASE Start
    <2>1. starts' \in 0 .. MaxStarts
      BY <1>1, <1>2 DEF Start
    <2> QED
      BY <1>1, <1>2, <2>1 DEF Start, Phase, ProcessShape, InProgress, TasksRunning
  <1>3. CASE Ready \/ FailToConnect \/ FailToStart
    BY <1>1, <1>3
    DEF Ready, FailToConnect, FailToStart, Phase, ProcessShape, InProgress, TasksRunning
  <1>4. CASE Stop
    BY <1>1, <1>4 DEF Stop, Phase, ProcessShape, InProgress, TasksRunning
  <1>5. CASE Drain
    <2>1. pc' = [r \in Requests |-> IF r \in InProgress THEN "cancelled" ELSE pc[r]]
      BY <1>5 DEF Drain
    <2>2. pc' \in [Requests -> Step]
      BY <1>1, <2>1 DEF Step
    <2>3. InProgress' = {} /\ TasksRunning' \subseteq TasksRunning
      BY <2>1 DEF InProgress, TasksRunning
    <2> QED
      BY <1>1, <1>5, <2>2, <2>3 DEF Drain, Phase, ProcessShape
  <1>6. CASE RollLogOver
    BY <1>1, <1>6 DEF RollLogOver, Phase, ProcessShape, InProgress, TasksRunning
  <1>7. CASE ClosePool
    BY <1>1, <1>7 DEF ClosePool, NoTaskPending, Phase, ProcessShape, InProgress, TasksRunning
  <1>8. CASE PoolClosed
    BY <1>1, <1>8 DEF PoolClosed, Phase, ProcessShape, InProgress, TasksRunning
  <1>9. CASE Crash
    <2>1. pc' = [r \in Requests |-> IF pc[r] = "new" THEN "new" ELSE "gone"]
      BY <1>9 DEF Crash
    <2>2. pc' \in [Requests -> Step]
      BY <2>1 DEF Step
    <2>3. InProgress' = {} /\ TasksRunning' = {}
      BY <2>1 DEF InProgress, TasksRunning
    <2> QED
      BY <1>1, <1>9, <2>2, <2>3 DEF Crash, Phase, ProcessShape
  <1>10. CASE Tick
    BY <1>1, <1>10 DEF Tick, Phase, ProcessShape, InProgress, TasksRunning
  <1> QED
    BY <1>2, <1>3, <1>4, <1>5, <1>6, <1>7, <1>8, <1>9, <1>10 DEF Cleanup

\* The types and the order of what is left.
LEMMA Assembled ==
  ASSUME LogOK', ProcessShape',
         clock' \in 0 .. MaxTime, app' \in Phase, starts' \in 0 .. MaxStarts,
         pc' \in [Requests -> Step], pending' \in SUBSET Requests
  PROVE  IInv'
  BY DEF IInv, LogOK, TypeOK

LEMMA StepHolds == IInv /\ [Next]_vars => IInv'
  <1> SUFFICES ASSUME IInv, [Next]_vars PROVE IInv'
    OBVIOUS
  <1>1. /\ clock \in 0 .. MaxTime /\ clock \in Nat /\ app \in Phase /\ starts \in 0 .. MaxStarts
        /\ MaxTime \in Nat
    BY ApplicationAssumption DEF IInv, TypeOK
  <1>2. ASSUME NEW r \in Requests, Accept(r) \/ RequestStep(r)
        PROVE  IInv'
    <2>1. clock' = clock /\ app' = app /\ starts' = starts
      BY <1>2, RequestShape
    <2>2. LogOK'
      BY <1>1, <1>2, <2>1, RequestShape, WriteStep, QuietStep
    <2> QED
      BY <1>1, <1>2, <2>1, <2>2, RequestShape, Assembled
  <1>3. CASE Start
    <2>1. clock' = clock
      BY <1>3 DEF Start
    <2> QED
      BY <1>1, <1>3, <2>1, StartStep, ProcessStepShape, Assembled
  <1>4. CASE FailToStart
    <2>1. clock' = clock
      BY <1>4 DEF FailToStart
    <2> QED
      BY <1>1, <1>4, <2>1, FailStep, ProcessStepShape, Assembled
  <1>5. CASE RollLogOver
    <2>1. clock' = clock
      BY <1>5 DEF RollLogOver
    <2> QED
      BY <1>1, <1>5, <2>1, RollStep, ProcessStepShape, Assembled DEF Cleanup
  <1>6. CASE Ready \/ FailToConnect \/ PoolClosed
    <2>1. clock' = clock /\ app # "down" /\ Write
      BY <1>6 DEF Ready, FailToConnect, PoolClosed
    <2> QED
      BY <1>1, <1>6, <2>1, WriteStep, ProcessStepShape, Assembled DEF Cleanup
  <1>7. CASE Stop \/ Drain \/ ClosePool \/ Crash
    <2>1. clock' = clock /\ app # "down" /\ UNCHANGED <<log, last, crowded>>
      BY <1>7 DEF Stop, Drain, ClosePool, Crash
    <2>2. LogOK'
      BY <1>1, <2>1, QuietStep
    <2> QED
      BY <1>1, <1>7, <2>1, <2>2, ProcessStepShape, Assembled DEF Cleanup
  <1>8. CASE Tick
    <2>1. clock' \in 0 .. MaxTime /\ clock <= clock'
      BY <1>1, <1>8 DEF Tick
    <2>2. app' = app /\ UNCHANGED <<log, last, crowded>>
      BY <1>8 DEF Tick
    <2>3. LogOK'
      BY <2>1, <2>2, QuietStep
    <2> QED
      BY <1>8, <2>1, <2>3, ProcessStepShape, Assembled
  <1>9. CASE UNCHANGED vars
    BY <1>9 DEF vars, IInv, TypeOK, ProcessShape, InProgress, TasksRunning, TimesOrdered,
                NamesGrow, NamesBefore, Began, SeasonChanged
  <1> QED
    BY <1>2, <1>3, <1>4, <1>5, <1>6, <1>7, <1>8, <1>9 DEF Next, Cleanup

-----------------------------------------------------------------------------
(* Theorems *)

\* The strengthening that every step preserves.  (The whole of Application.)
THEOREM InductiveInvariant == Spec => []IInv
  <1> QED
    BY InitHolds, StepHolds, PTL DEF Spec

\* Every variable has its type.  (The whole of Application.)
THEOREM TypeCorrect == Spec => []TypeOK
  <1>1. IInv => TypeOK
    BY DEF IInv
  <1> QED
    BY <1>1, InductiveInvariant, PTL

\* However requests end and whenever the process is stopped or killed, the pool is closed
\* after the last task: every task that runs is one the polling waits for, none is created
\* once it has ended.  (close_connection_pools, tasks_middleware.)
THEOREM PoolIsClosedLast == Spec => []PoolOutlivesTasks
  <1>1. IInv => PoolOutlivesTasks
    BY DEF IInv, ProcessShape, PoolOutlivesTasks
  <1> QED
    BY <1>1, InductiveInvariant, PTL

\* The names of the renamed files grow, so that none is the name of an older one, while
\* there is one season and one start or roll-over a second.  (doRollover, computeRollover.)
THEOREM RecordsKept == Spec => []RecordsAreKept
  <1>1. IInv => RecordsAreKept
    BY DEF IInv, NamesGrow, RecordsAreKept
  <1> QED
    BY <1>1, InductiveInvariant, PTL

=================================================================================
