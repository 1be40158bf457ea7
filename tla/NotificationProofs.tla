------------------------- MODULE NotificationProofs -------------------------
(***************************************************************************)
(* Theorems about Notifications, for any notifications, enqueuers,         *)
(* workers, readers and batch sizes.                                       *)
(*                                                                         *)
(* DeliveredOnce rests on Straight: until a reader saves an old status     *)
(* over it, a row goes from absent to pending to processing and then is    *)
(* settled, back and forth between the two in the middle only; it is       *)
(* locked exactly while it is processing, so that a row whose worker died  *)
(* is one that recover_stale_processing finds; and its send is counted     *)
(* when it is settled.                                                     *)
(***************************************************************************)
EXTENDS Notifications, TLAPS

USE NotesAssumption

RowStatus == {"absent", "pending", "processing"} \cup Settled

Row == [status : RowStatus, channel : Channel, token : Worker \cup {NoOne},
        lock : {"none", "new", "old"}, read : BOOLEAN]

(* The shapes of the variables, from which NotesTypeOK follows.            *)
Shapes ==
  /\ window \in [status : Current \cup {"cancelled"}, clock : {"before", "during", "after"},
                 cancelled : BOOLEAN]
  /\ looked \in [Enqueuer -> {"nothing", "no window"} \cup Current]
  /\ row \in [Note -> Row]
  /\ \A n \in Note : row[n].lock = "none" <=> row[n].token = NoOne
  /\ pc \in [Worker -> {"idle", "claiming", "delivering"}]
  /\ mine \in [Worker -> SUBSET Note]
  /\ \A w \in Worker : mine[w] # {} <=> pc[w] = "delivering"
  /\ sight \in [Reader -> [note : Note \cup {NoOne}, status : RowStatus]]
  /\ \A r \in Reader : sight[r] # NoSight => sight[r].note \in Note
  /\ sends \in [Note -> Nat]
  /\ overwritten \subseteq Note

(* The life of a row that no reader has saved an old status over. *)
Straight(n) ==
  /\ row[n].status = "processing" <=> row[n].lock # "none"
  /\ row[n].status \in {"absent", "pending", "processing"} => sends[n] = 0
  /\ sends[n] <= 1

AllStraight == \A n \in Note \ overwritten : Straight(n)

LEMMA RowUpdates ==
  ASSUME NEW r \in Row
  PROVE  /\ r.status \in RowStatus /\ r.channel \in Channel /\ r.token \in Worker \cup {NoOne}
         /\ r.lock \in {"none", "new", "old"} /\ r.read \in BOOLEAN
         /\ \A s \in RowStatus : /\ [r EXCEPT !.status = s, !.read = TRUE] \in Row
                                 /\ \A c \in Channel : [r EXCEPT !.status = s, !.channel = c] \in Row
                                 /\ \A t \in Worker \cup {NoOne}, l \in {"none", "new"} :
                                      [r EXCEPT !.status = s, !.token = t, !.lock = l] \in Row
         /\ [r EXCEPT !.lock = "old"] \in Row
BY DEF Row

LEMMA NoRowType == NoRow \in Row /\ NoSight \in [note : Note \cup {NoOne}, status : RowStatus]
BY DEF NoRow, NoSight, Row, RowStatus, Channel

(* What each action does to one row. *)
LEMMA RowSteps ==
  ASSUME Shapes, [Next]_vars, NEW n \in Note
  PROVE  \/ row'[n] = row[n] /\ sends'[n] = sends[n]
         \/ /\ row[n].status = "absent" /\ sends'[n] = sends[n]
            /\ \E c \in Channel : row'[n] = [row[n] EXCEPT !.status = "pending", !.channel = c]
         \/ /\ Stale(n) /\ sends'[n] = sends[n]
            /\ row'[n] = [row[n] EXCEPT !.status = "pending", !.token = NoOne, !.lock = "none"]
         \/ /\ row[n].status = "pending" /\ sends'[n] = sends[n]
            /\ \E w \in Worker :
                 row'[n] = [row[n] EXCEPT !.status = "processing", !.token = w, !.lock = "new"]
         \/ /\ \E w \in Worker : Holds(w, n)
            /\ \E final \in Settled \ {"read"} :
                 /\ row'[n] = [row[n] EXCEPT !.status = final, !.token = NoOne, !.lock = "none"]
                 /\ sends'[n] = IF final \in Delivered THEN sends[n] + 1 ELSE sends[n]
         \/ /\ row[n].lock = "new" /\ sends'[n] = sends[n]
            /\ row'[n] = [row[n] EXCEPT !.lock = "old"]
         \/ /\ \E s \in RowStatus, old \in RowStatus :
                 /\ row'[n] = [row[n] EXCEPT !.status = s, !.read = TRUE]
                 /\ s = IF old \in Delivered THEN "read" ELSE old
                 /\ row[n].status # old => n \in overwritten'
            /\ sends'[n] = sends[n]
         \/ row'[n] = NoRow /\ sends'[n] = 0 /\ row[n].status \in {"read", "failed"}
<1>a. /\ row \in [Note -> Row] /\ sends \in [Note -> Nat]
      /\ sight \in [Reader -> [note : Note \cup {NoOne}, status : RowStatus]]
      /\ \A r \in Reader : sight[r] # NoSight => sight[r].note \in Note
  BY DEF Shapes
<1>1. CASE UNCHANGED <<row, sends>>
  BY <1>1
<1>2. CASE MarkAllRead
  <2>1. sends' = sends /\ \/ row'[n] = row[n]
                          \/ /\ row[n].status \in Delivered
                             /\ row'[n] = [row[n] EXCEPT !.status = "read", !.read = TRUE]
    BY <1>2, <1>a DEF MarkAllRead, history
  <2>2. row[n].status \in RowStatus /\ "read" \in RowStatus
    BY <1>a, RowUpdates DEF RowStatus, Settled
  <2>3. QED
    BY <2>1, <2>2
<1>3. ASSUME NEW e \in Enqueuer, NEW m \in Note, NEW channel \in Channel, Enqueue(e, m, channel)
      PROVE  /\ sends' = sends
             /\ \/ row'[n] = row[n]
                \/ /\ row[n].status = "absent"
                   /\ row'[n] = [row[n] EXCEPT !.status = "pending", !.channel = channel]
  <2>1. row' = row \/ (row[m].status = "absent" /\
          row' = [row EXCEPT ![m] = [row[m] EXCEPT !.status = "pending", !.channel = channel]])
    BY <1>3, <1>a DEF Enqueue, Row
  <2>2. QED
    BY <1>3, <1>a, <2>1 DEF Enqueue, history
<1>4. ASSUME NEW w \in Worker, Recover(w)
      PROVE  /\ sends' = sends
             /\ \/ row'[n] = row[n]
                \/ /\ Stale(n)
                   /\ row'[n] = [row[n] EXCEPT !.status = "pending", !.token = NoOne, !.lock = "none"]
  BY <1>4 DEF Recover, history
<1>5. ASSUME NEW w \in Worker, NEW S \in SUBSET Note, Claim(w, S)
      PROVE  /\ sends' = sends
             /\ \/ row'[n] = row[n]
                \/ /\ row[n].status = "pending"
                   /\ row'[n] = [row[n] EXCEPT !.status = "processing", !.token = w, !.lock = "new"]
  BY <1>5 DEF Claim, Claimable, history
<1>6. ASSUME NEW w \in Worker, NEW m \in Note, NEW outcome \in Outcomes(m), Finalize(w, m, outcome)
      PROVE  \/ row'[n] = row[n] /\ sends'[n] = sends[n]
             \/ /\ Holds(w, n)
                /\ \E final \in Settled \ {"read"} :
                     /\ row'[n] = [row[n] EXCEPT !.status = final, !.token = NoOne, !.lock = "none"]
                     /\ sends'[n] = IF final \in Delivered THEN sends[n] + 1 ELSE sends[n]
  <2> DEFINE final == IF active THEN outcome ELSE "cancelled"
  <2>1. final \in Settled \ {"read"}
    BY DEF Outcomes, Settled, Delivered
  <2>2. \/ UNCHANGED <<row, sends>>
        \/ /\ Holds(w, m)
           /\ row' = [row EXCEPT ![m] = [row[m] EXCEPT !.status = final, !.token = NoOne, !.lock = "none"]]
           /\ sends' = [sends EXCEPT ![m] = IF final \in Delivered THEN sends[m] + 1 ELSE sends[m]]
    BY <1>6, <1>a DEF Finalize, Row
  <2> HIDE DEF final
  <2>3. QED
    BY <1>a, <2>1, <2>2
<1>7. ASSUME NEW m \in Note, LockAges(m)
      PROVE  /\ sends' = sends
             /\ row'[n] = row[n] \/ (row[n].lock = "new" /\ row'[n] = [row[n] EXCEPT !.lock = "old"])
  BY <1>7, <1>a DEF LockAges, history
<1>8. ASSUME NEW r \in Reader, MarkRead(r)
      PROVE  \/ row'[n] = row[n] /\ sends'[n] = sends[n]
             \/ /\ \E s \in RowStatus, old \in RowStatus :
                     /\ row'[n] = [row[n] EXCEPT !.status = s, !.read = TRUE]
                     /\ s = IF old \in Delivered THEN "read" ELSE old
                     /\ row[n].status # old => n \in overwritten'
                /\ sends'[n] = sends[n]
  <2> DEFINE m == sight[r].note
             old == sight[r].status
             s == IF old \in Delivered THEN "read" ELSE old
  <2>1. /\ m \in Note /\ old \in RowStatus /\ s \in RowStatus
        /\ sends' = sends
        /\ row[m].status # old => m \in overwritten'
    BY <1>8, <1>a DEF MarkRead, RowStatus, Settled
  <2>2. row' = [row EXCEPT ![m] = [row[m] EXCEPT !.status = s, !.read = TRUE]]
    BY <1>8, <1>a DEF MarkRead, Row
  <2> HIDE DEF m, old
  <2>3. QED
    BY <1>a, <2>1, <2>2
<1>9. ASSUME NEW m \in Note, Prune(m)
      PROVE  \/ row'[n] = row[n] /\ sends'[n] = sends[n]
             \/ row'[n] = NoRow /\ sends'[n] = 0 /\ row[n].status \in {"read", "failed"}
  BY <1>9, <1>a DEF Prune
<1>10. ClockMoves \/ CancelWindow \/ Deactivate => UNCHANGED <<row, sends>>
  BY DEF ClockMoves, CancelWindow, Deactivate, history
<1>11. ASSUME NEW w \in Worker, NothingToClaim(w) \/ Crash(w)
       PROVE  UNCHANGED <<row, sends>>
  BY <1>11 DEF NothingToClaim, Crash, history
<1>12. (\E e \in Enqueuer : LookAtWindow(e)) \/ (\E r \in Reader, m \in Note : Load(r, m))
         => UNCHANGED <<row, sends>>
  BY DEF LookAtWindow, Load, history
<1>13. UNCHANGED vars => UNCHANGED <<row, sends>>
  BY DEF vars, history
<1>14. CASE \E e \in Enqueuer, m \in Note, channel \in Channel : Enqueue(e, m, channel)
  BY <1>3, <1>14
<1>15. CASE \E w \in Worker : Recover(w)
  BY <1>4, <1>15
<1>16. CASE \E w \in Worker, S \in SUBSET Note : Claim(w, S)
  BY <1>5, <1>16
<1>17. CASE \E w \in Worker, m \in Note : \E outcome \in Outcomes(m) : Finalize(w, m, outcome)
  BY <1>6, <1>17
<1>18. CASE \E r \in Reader : MarkRead(r)
  BY <1>8, <1>18
<1>19. CASE \E m \in Note : LockAges(m) \/ Prune(m)
  BY <1>7, <1>9, <1>19
<1>20. QED
  BY <1>1, <1>2, <1>10, <1>11, <1>12, <1>13, <1>14, <1>15, <1>16, <1>17, <1>18, <1>19 DEF Next

(* The same, field by field. *)
LEMMA RowFields ==
  ASSUME Shapes, [Next]_vars, NEW n \in Note
  PROVE  \/ /\ row'[n].status = row[n].status /\ sends'[n] = sends[n]
            /\ row'[n].token = row[n].token /\ row'[n].lock = row[n].lock
         \/ /\ row[n].status = "absent" /\ row'[n].status = "pending" /\ sends'[n] = sends[n]
            /\ row'[n].token = row[n].token /\ row'[n].lock = row[n].lock
         \/ /\ row[n].status = "processing" /\ row'[n].status = "pending" /\ sends'[n] = sends[n]
            /\ row'[n].token = NoOne /\ row'[n].lock = "none"
         \/ /\ row[n].status = "pending" /\ row'[n].status = "processing" /\ sends'[n] = sends[n]
            /\ row'[n].token \in Worker /\ row'[n].lock = "new"
         \/ /\ row[n].status = "processing" /\ row'[n].status \in Settled
            /\ sends'[n] \in {sends[n], sends[n] + 1}
            /\ row'[n].token = NoOne /\ row'[n].lock = "none"
         \/ /\ row'[n].status = row[n].status /\ sends'[n] = sends[n]
            /\ row'[n].token = row[n].token /\ row[n].lock = "new" /\ row'[n].lock = "old"
         \/ /\ \/ row[n].status \in Delivered /\ row'[n].status = "read"
               \/ n \in overwritten'
            /\ sends'[n] = sends[n]
            /\ row'[n].token = row[n].token /\ row'[n].lock = row[n].lock
         \/ /\ row[n].status \in {"read", "failed"} /\ row'[n].status = "absent" /\ sends'[n] = 0
            /\ row'[n].token = NoOne /\ row'[n].lock = "none"
<1>a. row[n] \in Row
  BY DEF Shapes
<1> USE DEF Row
<1>1. CASE row'[n] = row[n] /\ sends'[n] = sends[n]
  BY <1>1
<1>2. CASE /\ row[n].status = "absent" /\ sends'[n] = sends[n]
           /\ \E c \in Channel : row'[n] = [row[n] EXCEPT !.status = "pending", !.channel = c]
  BY <1>a, <1>2
<1>3. CASE /\ Stale(n) /\ sends'[n] = sends[n]
           /\ row'[n] = [row[n] EXCEPT !.status = "pending", !.token = NoOne, !.lock = "none"]
  BY <1>a, <1>3 DEF Stale
<1>4. CASE /\ row[n].status = "pending" /\ sends'[n] = sends[n]
           /\ \E w \in Worker :
                row'[n] = [row[n] EXCEPT !.status = "processing", !.token = w, !.lock = "new"]
  BY <1>a, <1>4
<1>5. CASE /\ \E w \in Worker : Holds(w, n)
           /\ \E final \in Settled \ {"read"} :
                /\ row'[n] = [row[n] EXCEPT !.status = final, !.token = NoOne, !.lock = "none"]
                /\ sends'[n] = IF final \in Delivered THEN sends[n] + 1 ELSE sends[n]
  BY <1>a, <1>5 DEF Holds
<1>6. CASE /\ row[n].lock = "new" /\ sends'[n] = sends[n]
           /\ row'[n] = [row[n] EXCEPT !.lock = "old"]
  BY <1>a, <1>6
<1>7. CASE /\ \E s \in RowStatus, old \in RowStatus :
                /\ row'[n] = [row[n] EXCEPT !.status = s, !.read = TRUE]
                /\ s = IF old \in Delivered THEN "read" ELSE old
                /\ row[n].status # old => n \in overwritten'
           /\ sends'[n] = sends[n]
  BY <1>a, <1>7
<1>8. CASE row'[n] = NoRow /\ sends'[n] = 0 /\ row[n].status \in {"read", "failed"}
  BY <1>8 DEF NoRow
<1> HIDE DEF Row
<1>9. QED
  BY <1>1, <1>2, <1>3, <1>4, <1>5, <1>6, <1>7, <1>8, RowSteps, Zenon

LEMMA ShapesInit == Init => Shapes /\ AllStraight
BY NoRowType DEF Init, Shapes, AllStraight, Straight, NoRow, NoSight, Current, RowStatus

LEMMA ShapesStep == Shapes /\ [Next]_vars => Shapes'
<1> SUFFICES ASSUME Shapes, [Next]_vars
             PROVE  Shapes'
  OBVIOUS
<1>a. /\ row \in [Note -> Row] /\ sends \in [Note -> Nat]
      /\ sight \in [Reader -> [note : Note \cup {NoOne}, status : RowStatus]]
      /\ \A r \in Reader : sight[r] # NoSight => sight[r].note \in Note
  BY DEF Shapes
<1>b. /\ {"pending", "processing", "read", "delivered", "sent", "failed", "cancelled"} \subseteq RowStatus
      /\ \A w \in Worker : w # NoOne
  BY DEF RowStatus, Settled, Delivered
<1>c. (\A n \in Note : row[n].lock = "none" <=> row[n].token = NoOne)'
  <2> SUFFICES ASSUME NEW n \in Note
               PROVE  (row[n].lock = "none" <=> row[n].token = NoOne)'
    OBVIOUS
  <2>1. row[n].lock = "none" <=> row[n].token = NoOne
    BY DEF Shapes
  <2>2. QED
    BY <2>1, <1>b, RowFields
<1>1. ASSUME row' \in [Note -> Row], sends' \in [Note -> Nat], UNCHANGED <<wvars, work, sight>>,
             overwritten' \subseteq Note
      PROVE  Shapes'
  BY <1>1, <1>c DEF Shapes, wvars, work
<1>2. CASE MarkAllRead
  <2>1. \A n \in Note : [row[n] EXCEPT !.status = "read", !.read = TRUE] \in Row
    BY <1>a, <1>b, RowUpdates
  <2>2. QED
    BY <1>1, <1>2, <1>a, <2>1 DEF MarkAllRead, wvars, work, history, Shapes
<1>3. ASSUME NEW e \in Enqueuer, NEW m \in Note, NEW channel \in Channel, Enqueue(e, m, channel)
      PROVE  Shapes'
  <2>1. row' = row \/ row' = [row EXCEPT ![m] = [row[m] EXCEPT !.status = "pending", !.channel = channel]]
    BY <1>3, <1>a DEF Enqueue, Row
  <2>2. [row[m] EXCEPT !.status = "pending", !.channel = channel] \in Row
    BY <1>a, <1>b, RowUpdates
  <2>3. row' \in [Note -> Row]
    BY <1>a, <2>1, <2>2
  <2>4. window' = [window EXCEPT !.status = SavedWindow(looked[e])]
    BY <1>3 DEF Enqueue
  <2>5. window' \in [status : Current \cup {"cancelled"}, clock : {"before", "during", "after"},
                     cancelled : BOOLEAN]
    BY <2>4 DEF Shapes, SavedWindow, Current
  <2>6. QED
    BY <1>3, <1>c, <2>3, <2>5 DEF Enqueue, Shapes, work, history
<1>4. ASSUME NEW w \in Worker, Recover(w)
      PROVE  Shapes'
  <2>1. \A n \in Note : [row[n] EXCEPT !.status = "pending", !.token = NoOne, !.lock = "none"] \in Row
    BY <1>a, <1>b, RowUpdates
  <2>2. row' \in [Note -> Row]
    BY <1>4, <1>a, <2>1 DEF Recover
  <2>3. QED
    BY <1>4, <1>c, <2>2 DEF Recover, Shapes, wvars, history
<1>5. ASSUME NEW w \in Worker, NEW S \in SUBSET Note, Claim(w, S)
      PROVE  Shapes'
  <2>1. \A n \in Note : [row[n] EXCEPT !.status = "processing", !.token = w, !.lock = "new"] \in Row
    BY <1>a, <1>b, RowUpdates
  <2>2. row' \in [Note -> Row]
    BY <1>5, <1>a, <2>1 DEF Claim
  <2>3. QED
    BY <1>5, <1>c, <2>2 DEF Claim, Shapes, wvars, history
<1>6. ASSUME NEW w \in Worker, NEW m \in Note, NEW outcome \in Outcomes(m), Finalize(w, m, outcome)
      PROVE  Shapes'
  <2> DEFINE final == IF active THEN outcome ELSE "cancelled"
  <2>1. final \in RowStatus
    BY <1>b DEF Outcomes
  <2>2. \/ UNCHANGED <<row, sends>>
        \/ /\ row' = [row EXCEPT ![m] = [row[m] EXCEPT !.status = final, !.token = NoOne, !.lock = "none"]]
           /\ \E k \in {sends[m], sends[m] + 1} : sends' = [sends EXCEPT ![m] = k]
    BY <1>6, <1>a DEF Finalize, Row
  <2>3. [row[m] EXCEPT !.status = final, !.token = NoOne, !.lock = "none"] \in Row
    BY <1>a, <2>1, RowUpdates
  <2> HIDE DEF final
  <2>4. row' \in [Note -> Row] /\ sends' \in [Note -> Nat]
    BY <1>a, <2>2, <2>3
  <2>5. /\ mine' = [mine EXCEPT ![w] = mine[w] \ {m}] /\ m \in mine[w] /\ pc[w] = "delivering"
        /\ pc' = [pc EXCEPT ![w] = IF mine[w] = {m} THEN "idle" ELSE "delivering"]
    BY <1>6 DEF Finalize, Shapes
  <2>6. /\ pc' \in [Worker -> {"idle", "claiming", "delivering"}] /\ mine' \in [Worker -> SUBSET Note]
        /\ \A v \in Worker : mine'[v] # {} <=> pc'[v] = "delivering"
    <3>1. pc' \in [Worker -> {"idle", "claiming", "delivering"}]
      BY <2>5 DEF Shapes
    <3>2. mine' \in [Worker -> SUBSET Note]
      BY <2>5 DEF Shapes
    <3>3. \A v \in Worker \ {w} : mine'[v] = mine[v] /\ pc'[v] = pc[v]
      BY <2>5 DEF Shapes
    <3>4. mine'[w] = mine[w] \ {m} /\ pc'[w] = IF mine[w] = {m} THEN "idle" ELSE "delivering"
      BY <2>5 DEF Shapes
    <3>5. mine'[w] # {} <=> pc'[w] = "delivering"
      BY <2>5, <3>4
    <3>6. QED
      BY <3>1, <3>2, <3>3, <3>5 DEF Shapes
  <2>7. UNCHANGED <<window, looked, sight, overwritten>>
    BY <1>6 DEF Finalize, wvars
  <2>8. QED
    BY <1>c, <2>4, <2>6, <2>7 DEF Shapes
<1>7. ASSUME NEW m \in Note, LockAges(m)
      PROVE  Shapes'
  <2>1. row' = [row EXCEPT ![m] = [row[m] EXCEPT !.lock = "old"]]
    BY <1>7, <1>a DEF LockAges
  <2>2. row' \in [Note -> Row]
    BY <1>a, <2>1, RowUpdates
  <2>3. QED
    BY <1>1, <1>7, <2>2 DEF LockAges, Shapes, history
<1>8. ASSUME NEW r \in Reader, MarkRead(r)
      PROVE  Shapes'
  <2> DEFINE m == sight[r].note
             s == IF sight[r].status \in Delivered THEN "read" ELSE sight[r].status
  <2>1. m \in Note /\ s \in RowStatus
    BY <1>8, <1>a, <1>b DEF MarkRead
  <2>2. row' = [row EXCEPT ![m] = [row[m] EXCEPT !.status = s, !.read = TRUE]]
    BY <1>8, <1>a DEF MarkRead, Row
  <2>3. [row[m] EXCEPT !.status = s, !.read = TRUE] \in Row
    BY <1>a, <2>1, RowUpdates
  <2>4. row' \in [Note -> Row]
    BY <1>a, <2>1, <2>2, <2>3
  <2>5. /\ overwritten' \subseteq Note
        /\ sight' \in [Reader -> [note : Note \cup {NoOne}, status : RowStatus]]
        /\ \A q \in Reader : sight'[q] # NoSight => sight'[q].note \in Note
    BY <1>8, <1>a, <2>1, NoRowType DEF MarkRead, Shapes
  <2>6. QED
    BY <1>8, <1>c, <2>4, <2>5 DEF MarkRead, Shapes, wvars, work
<1>9. ASSUME NEW m \in Note, Prune(m)
      PROVE  Shapes'
  BY <1>1, <1>9, <1>a, NoRowType DEF Prune, Shapes
<1>10. CASE ClockMoves \/ CancelWindow \/ Deactivate
  BY <1>10 DEF ClockMoves, CancelWindow, Deactivate, Shapes, work, history, Current, wvars
<1>11. ASSUME NEW w \in Worker, NothingToClaim(w) \/ Crash(w)
       PROVE  Shapes'
  BY <1>11 DEF NothingToClaim, Crash, Shapes, wvars, history
<1>12. ASSUME NEW e \in Enqueuer, LookAtWindow(e)
       PROVE  Shapes'
  BY <1>12 DEF LookAtWindow, Shapes, Current, work, history
<1>13. ASSUME NEW r \in Reader, NEW m \in Note, Load(r, m)
       PROVE  Shapes'
  <2>1. row[m].status \in RowStatus
    BY <1>a, RowUpdates
  <2>2. QED
    BY <1>13, <2>1 DEF Load, Shapes, wvars, work, history
<1>14. CASE UNCHANGED vars
  BY <1>14 DEF vars, Shapes, wvars, work, history
<1>15. QED
  BY <1>2, <1>3, <1>4, <1>5, <1>6, <1>7, <1>8, <1>9, <1>10, <1>11, <1>12, <1>13, <1>14 DEF Next

LEMMA ShapesAreTypes == Shapes => NotesTypeOK
BY DEF Shapes, NotesTypeOK, Row, RowStatus

(* Every reachable state is well typed. *)
THEOREM NotesTypeCorrect == Spec => []NotesTypeOK
BY ShapesInit, ShapesStep, ShapesAreTypes, PTL DEF Spec

-----------------------------------------------------------------------------
(* Once overwritten, a row stays so until it is pruned. *)
LEMMA OverwrittenStays ==
  ASSUME [Next]_vars, NEW n \in Note, n \in overwritten, n \notin overwritten'
  PROVE  Prune(n)
<1>1. \/ UNCHANGED overwritten
      \/ \E r \in Reader : MarkRead(r)
      \/ \E m \in Note : Prune(m)
  BY DEF Next, ClockMoves, CancelWindow, MarkAllRead, Deactivate, LookAtWindow, Enqueue, Recover,
     NothingToClaim, Crash, Claim, Finalize, Load, LockAges, vars, history
<1>2. QED
  BY <1>1 DEF MarkRead, Prune

LEMMA StraightStep == Shapes /\ AllStraight /\ [Next]_vars => AllStraight'
<1> SUFFICES ASSUME Shapes, AllStraight, [Next]_vars, NEW n \in Note, n \notin overwritten'
             PROVE  Straight(n)'
  BY DEF AllStraight
<1>a. row[n] \in Row /\ sends[n] \in Nat /\ sends' = sends'
  BY DEF Shapes
<1>1. CASE n \in overwritten
  <2>1. row' = [row EXCEPT ![n] = NoRow] /\ sends' = [sends EXCEPT ![n] = 0]
    BY <1>1, OverwrittenStays DEF Prune
  <2>2. row'[n] = NoRow /\ sends'[n] = 0
    BY <2>1 DEF Shapes
  <2>3. QED
    BY <2>2 DEF Straight, NoRow
<1>2. CASE n \notin overwritten
  <2>1. Straight(n)
    BY <1>2 DEF AllStraight
  <2>2. QED
    BY <1>a, <2>1, RowFields DEF Straight, Settled, Delivered
<1>3. QED
  BY <1>1, <1>2

(* The rows that no stale reader has written over keep the order of their  *)
(* life: what is sent is settled, what is under way is locked.             *)
THEOREM StraightHolds == Spec => [](Shapes /\ AllStraight)
BY ShapesInit, ShapesStep, StraightStep, PTL DEF Spec

(* A notification is delivered once in the life of its row, however        *)
(* workers crash, outlive their locks and take each other's batches over   *)
(* (finalize_notification_delivery's look at the token), unless a reader   *)
(* has put an old status back (mark_notification_read).                    *)
THEOREM Once == Spec => []DeliveredOnce
<1>1. Shapes /\ AllStraight => DeliveredOnce
  <2> SUFFICES ASSUME Shapes, AllStraight, NEW n \in Note, sends[n] > 1, n \notin overwritten
               PROVE  FALSE
    BY DEF DeliveredOnce
  <2>1. Straight(n) /\ sends[n] \in Nat
    BY DEF AllStraight, Shapes
  <2>2. QED
    BY <2>1 DEF Straight
<1>2. QED
  BY <1>1, StraightHolds, PTL

(* A row being processed is locked (claim_operational_notifications).      *)
NoneIsStuck == \A n \in Note \ overwritten : row[n].status = "processing" => row[n].lock # "none"

(* When the worker of a row dies, the recovery finds the row once its lock *)
(* is old: no row is processing without one.                               *)
THEOREM AllAreRecoverable == Spec => []NoneIsStuck
<1>1. AllStraight => NoneIsStuck
  BY DEF AllStraight, Straight, NoneIsStuck
<1>2. QED
  BY <1>1, StraightHolds, PTL

(* What is settled is not waiting or under way again, unless a reader has  *)
(* saved an old status over it.                                            *)
THEOREM SettledStays == Spec => SettledForCause
<1>1. Shapes /\ [Next]_vars =>
        [\A n \in Note : row[n].status \in Settled /\ row'[n].status \in {"pending", "processing"}
           => n \in overwritten']_vars
  <2> SUFFICES ASSUME Shapes, [Next]_vars, NEW n \in Note, row[n].status \in Settled,
                      row'[n].status \in {"pending", "processing"}, n \notin overwritten'
               PROVE  FALSE
    OBVIOUS
  <2>1. row[n] \in Row
    BY DEF Shapes
  <2>2. QED
    BY <2>1, RowFields DEF Settled, Delivered
<1>2. QED
  BY <1>1, StraightHolds, PTL DEF Spec, SettledForCause

(* A cancelled maintenance window comes back only through a process that   *)
(* had read it as scheduled (get_active_maintenance_windows).              *)
THEOREM CancelledWindowStays == Spec => CancelledStays
<1>1. Shapes /\ [Next]_vars =>
        [window.status = "cancelled" /\ window'.status # "cancelled"
           => \E e \in Enqueuer : looked[e] = "scheduled"]_vars
  <2> SUFFICES ASSUME Shapes, [Next]_vars, window.status = "cancelled",
                      window'.status # "cancelled"
               PROVE  \E e \in Enqueuer : looked[e] = "scheduled"
    OBVIOUS
  <2>1. ~ClockMoves /\ ~CancelWindow
    BY DEF ClockMoves, CancelWindow, Shapes
  <2>2. window' # window
    OBVIOUS
  <2>3. PICK e \in Enqueuer, n \in Note, channel \in Channel : Enqueue(e, n, channel)
    BY <2>1, <2>2 DEF Next, MarkAllRead, Deactivate, LookAtWindow, Recover, NothingToClaim,
       Crash, Claim, Finalize, Load, LockAges, Prune, MarkRead, vars, wvars
  <2>4. looked[e] = "scheduled"
    BY <2>2, <2>3 DEF Enqueue, SavedWindow, Shapes
  <2>5. QED
    BY <2>4
<1>2. QED
  BY <1>1, StraightHolds, PTL DEF Spec, CancelledStays
=============================================================================
