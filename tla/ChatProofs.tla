------------------------------ MODULE ChatProofs ------------------------------
(* Proofs about ChatIdempotency, for any number of calls and fingerprints,   *)
(* and about ConversationTurn, for any messages, any number of workers and   *)
(* any number of turns.                                                      *)
EXTENDS ChatIdempotency, ConversationTurn, TLAPS

USE ChatAssumption DEF ChatAssumption

-------------------------------------------------------------------------------
(* An error is not mistaken for a reply. *)
LEMMA ErrorIsNoReply == \A what : [error |-> what] \notin Payload
<1> SUFFICES ASSUME NEW what, [error |-> what] \in Payload
             PROVE  FALSE
  OBVIOUS
<1>1. DOMAIN [error |-> what] = {"error"}
  OBVIOUS
<1>2. \A p \in Payload : DOMAIN p = {"by", "kind"}
  BY DEF Payload
<1> QED
  BY <1>1, <1>2

(* The state is well typed, whatever the calls do. *)
THEOREM TypeCorrect == Spec => []TypeOK
<1>1. Init => TypeOK
  <2> SUFFICES ASSUME Init PROVE TypeOK
    OBVIOUS
  <2>1. expiries \in 0..MaxExpiries /\ takeovers \in Nat
    BY DEF Init
  <2>2. answer \in [Call -> Payload \cup Error \cup {None}]
    BY DEF Init
  <2>3. seen \in [Call -> [status : {"absent", "processing", "completed", "failed"},
                          fingerprint : Fingerprint \cup {None},
                          response : Payload \cup {None}, stale : BOOLEAN]]
    BY DEF Init
  <2> QED
    BY <2>1, <2>2, <2>3 DEF Init, TypeOK
<1>2. TypeOK /\ [Next]_vars => TypeOK'
  <2> SUFFICES ASSUME TypeOK, [Next]_vars PROVE TypeOK'
    OBVIOUS
  <2> USE DEF TypeOK, Payload, Error, Reply, Touch, Finish
  <2>1. ASSUME NEW c \in Call, Reserve(c) PROVE TypeOK'
    BY <2>1 DEF Reserve
  <2>2. ASSUME NEW c \in Call, ReadExisting(c) PROVE TypeOK'
    BY <2>2 DEF ReadExisting
  <2>3. ASSUME NEW c \in Call, AnswerAtOnce(c) PROVE TypeOK'
    <3>1. seen[c].response \in Payload \cup {None}
      OBVIOUS
    <3>2. pc' \in [Call -> {"new", "decide", "process", "refine", "done"}]
      BY <2>3 DEF AnswerAtOnce
    <3>3. answer' \in [Call -> Payload \cup Error \cup {None}]
      BY <2>3, <3>1 DEF AnswerAtOnce
    <3> QED
      BY <2>3, <3>2, <3>3 DEF AnswerAtOnce, rowVars
  <2>4. ASSUME NEW c \in Call, TakeOver(c) PROVE TypeOK'
    <3>1. takeovers + 1 \in Nat
      OBVIOUS
    <3>2. /\ pc' \in [Call -> {"new", "decide", "process", "refine", "done"}]
          /\ unchanged' \in [Call -> BOOLEAN]
          /\ stale' \in BOOLEAN
      BY <2>4 DEF TakeOver
    <3> QED
      BY <2>4, <3>1, <3>2 DEF TakeOver
  <2>5. ASSUME NEW c \in Call, RetryFailed(c) PROVE TypeOK'
    BY <2>5 DEF RetryFailed
  <2>6. ASSUME NEW c \in Call, Block(c) PROVE TypeOK'
    BY <2>6 DEF Block
  <2>7. ASSUME NEW c \in Call, Persist(c) PROVE TypeOK'
    BY <2>7 DEF Persist
  <2>8. ASSUME NEW c \in Call, KeepDraft(c) PROVE TypeOK'
    BY <2>8 DEF KeepDraft, rowVars
  <2>9. ASSUME NEW c \in Call, Refine(c) PROVE TypeOK'
    BY <2>9 DEF Refine, Reworded
  <2>10. ASSUME NEW c \in Call, Fail(c) PROVE TypeOK'
    BY <2>10 DEF Fail
  <2>11. ASSUME NEW c \in Call, Crash(c) PROVE TypeOK'
    BY <2>11 DEF Crash, rowVars
  <2>12. CASE TimeoutElapses
    BY <2>12 DEF TimeoutElapses
  <2>13. CASE UNCHANGED vars
    BY <2>13 DEF vars, rowVars
  <2> QED
    BY <2>1, <2>2, <2>3, <2>4, <2>5, <2>6, <2>7, <2>8, <2>9, <2>10, <2>11, <2>12,
       <2>13 DEF Next, Done
<1> QED
  BY <1>1, <1>2, PTL DEF Spec

-------------------------------------------------------------------------------
(* What is in the row answers the row's own message, and what a call read    *)
(* of it does too.                                                           *)
RowsOwn ==
  /\ row = "absent" =>
       /\ response = None
       /\ \A c \in Call : pc[c] = "new" /\ message[c] = "none" /\ answer[c] = None
  /\ response \in Payload => FpOf[response.by] = fingerprint
  /\ \A c \in Call :
       /\ pc[c] \in {"process", "refine"} => FpOf[c] = fingerprint
       /\ pc[c] = "decide" =>
            /\ seen[c].fingerprint = fingerprint
            /\ seen[c].response \in Payload => FpOf[seen[c].response.by] = fingerprint

(* No message is answered with the reply to another one, in the row, in what *)
(* callers hear, or in the turns that are committed.                         *)
THEOREM NoCrossing == Spec => []NoCrossReplay
<1> DEFINE IInv == TypeOK /\ RowsOwn /\ NoCrossReplay
<1>1. Init => RowsOwn /\ NoCrossReplay
  BY DEF Init, RowsOwn, NoCrossReplay, Turns
<1>2. TypeOK /\ TypeOK' /\ RowsOwn /\ NoCrossReplay /\ [Next]_vars
        => (RowsOwn /\ NoCrossReplay)'
  <2> SUFFICES ASSUME TypeOK, TypeOK', RowsOwn, NoCrossReplay, [Next]_vars
               PROVE  (RowsOwn /\ NoCrossReplay)'
    OBVIOUS
  <2> USE DEF TypeOK, RowsOwn, NoCrossReplay, Turns, Payload, Error, Reply, Touch, Finish
  <2>1. ASSUME NEW c \in Call, Reserve(c) PROVE (RowsOwn /\ NoCrossReplay)'
    BY <2>1 DEF Reserve
  <2>2. ASSUME NEW c \in Call, ReadExisting(c) PROVE (RowsOwn /\ NoCrossReplay)'
    BY <2>2 DEF ReadExisting
  <2>3. ASSUME NEW c \in Call, AnswerAtOnce(c) PROVE (RowsOwn /\ NoCrossReplay)'
    <3> HIDE DEF Payload, Error
    <3>1. answer'[c] \in Payload => FpOf[answer'[c].by] = FpOf[c]
      <4>1. /\ seen[c].fingerprint = fingerprint
            /\ seen[c].response \in Payload => FpOf[seen[c].response.by] = fingerprint
        BY <2>3 DEF AnswerAtOnce
      <4>2. CASE SameMessage(c) /\ answer'[c] = seen[c].response
        BY <4>1, <4>2 DEF SameMessage
      <4>3. CASE \E what : answer'[c] = [error |-> what]
        BY <4>3, ErrorIsNoReply
      <4> QED
        BY <2>3, <4>2, <4>3 DEF AnswerAtOnce
    <3>2. \A d \in Call : d # c => pc'[d] = pc[d] /\ answer'[d] = answer[d]
      BY <2>3 DEF AnswerAtOnce
    <3>3. pc'[c] = "done" /\ pc[c] = "decide"
      BY <2>3 DEF AnswerAtOnce
    <3>4. UNCHANGED <<row, fingerprint, response, seen, message>>
      BY <2>3 DEF AnswerAtOnce, rowVars
    <3>5. RowsOwn'
      BY <3>2, <3>3, <3>4
    <3>6. NoCrossReplay'
      BY <3>1, <3>2, <3>4
    <3> QED
      BY <3>5, <3>6
  <2>4. ASSUME NEW c \in Call, TakeOver(c) PROVE (RowsOwn /\ NoCrossReplay)'
    BY <2>4 DEF TakeOver, SameMessage
  <2>5. ASSUME NEW c \in Call, RetryFailed(c) PROVE (RowsOwn /\ NoCrossReplay)'
    BY <2>5 DEF RetryFailed, SameMessage
  <2>6. ASSUME NEW c \in Call, Block(c) PROVE (RowsOwn /\ NoCrossReplay)'
    BY <2>6 DEF Block
  <2>7. ASSUME NEW c \in Call, Persist(c) PROVE (RowsOwn /\ NoCrossReplay)'
    BY <2>7 DEF Persist
  <2>8. ASSUME NEW c \in Call, KeepDraft(c) PROVE (RowsOwn /\ NoCrossReplay)'
    BY <2>8 DEF KeepDraft, rowVars
  <2>9. ASSUME NEW c \in Call, Refine(c) PROVE (RowsOwn /\ NoCrossReplay)'
    BY <2>9 DEF Refine, Reworded
  <2>10. ASSUME NEW c \in Call, Fail(c) PROVE (RowsOwn /\ NoCrossReplay)'
    <3> HIDE DEF Payload, Error
    <3>1. answer'[c] \notin Payload
      BY <2>10, ErrorIsNoReply DEF Fail
    <3> QED
      BY <2>10, <3>1 DEF Fail
  <2>11. ASSUME NEW c \in Call, Crash(c) PROVE (RowsOwn /\ NoCrossReplay)'
    BY <2>11 DEF Crash, rowVars
  <2>12. CASE TimeoutElapses
    BY <2>12 DEF TimeoutElapses
  <2>13. CASE UNCHANGED vars
    BY <2>13 DEF vars, rowVars
  <2> QED
    BY <2>1, <2>2, <2>3, <2>4, <2>5, <2>6, <2>7, <2>8, <2>9, <2>10, <2>11, <2>12,
       <2>13 DEF Next, Done
<1> QED
  BY <1>1, <1>2, TypeCorrect, PTL DEF Spec
-------------------------------------------------------------------------------
(* The payload kept for retries is the reply the conversation shows: the two *)
(* are written together, whichever calls interleave.                         *)
THEOREM ReplaysAreStored == Spec => []ReplayIsStored
<1>1. Init => ReplayIsStored
  BY DEF Init, ReplayIsStored
<1>2. TypeOK /\ ReplayIsStored /\ [Next]_vars => ReplayIsStored'
  <2> SUFFICES ASSUME TypeOK, ReplayIsStored, [Next]_vars PROVE ReplayIsStored'
    OBVIOUS
  <2> USE DEF TypeOK, ReplayIsStored, Payload, Reply, Touch, Finish
  <2>1. ASSUME NEW c \in Call, Reserve(c) PROVE ReplayIsStored'
    BY <2>1 DEF Reserve
  <2>2. ASSUME NEW c \in Call, ReadExisting(c) PROVE ReplayIsStored'
    BY <2>2 DEF ReadExisting
  <2>3. ASSUME NEW c \in Call, AnswerAtOnce(c) PROVE ReplayIsStored'
    BY <2>3 DEF AnswerAtOnce, rowVars
  <2>4. ASSUME NEW c \in Call, TakeOver(c) PROVE ReplayIsStored'
    BY <2>4 DEF TakeOver, SameAsRead
  <2>5. ASSUME NEW c \in Call, RetryFailed(c) PROVE ReplayIsStored'
    BY <2>5 DEF RetryFailed, FailureExpired
  <2>6. ASSUME NEW c \in Call, Block(c) PROVE ReplayIsStored'
    BY <2>6 DEF Block
  <2>7. ASSUME NEW c \in Call, Persist(c) PROVE ReplayIsStored'
    BY <2>7 DEF Persist
  <2>8. ASSUME NEW c \in Call, KeepDraft(c) PROVE ReplayIsStored'
    BY <2>8 DEF KeepDraft, rowVars
  <2>9. ASSUME NEW c \in Call, Refine(c) PROVE ReplayIsStored'
    BY <2>9 DEF Refine, Reworded
  <2>10. ASSUME NEW c \in Call, Fail(c) PROVE ReplayIsStored'
    BY <2>10 DEF Fail
  <2>11. ASSUME NEW c \in Call, Crash(c) PROVE ReplayIsStored'
    BY <2>11 DEF Crash, rowVars
  <2>12. CASE TimeoutElapses
    BY <2>12 DEF TimeoutElapses
  <2>13. CASE UNCHANGED vars
    BY <2>13 DEF vars, rowVars
  <2> QED
    BY <2>1, <2>2, <2>3, <2>4, <2>5, <2>6, <2>7, <2>8, <2>9, <2>10, <2>11, <2>12,
       <2>13 DEF Next, Done
<1> QED
  BY <1>1, <1>2, TypeCorrect, PTL DEF Spec

-------------------------------------------------------------------------------
(* A take-over spends the timeout: while the row is as a call read it, what  *)
(* the call saw expired still is, and the take-over clears that.             *)
TimeoutSpent ==
  /\ \A c \in Call : unchanged[c] /\ seen[c].stale => stale
  /\ takeovers <= expiries
  /\ stale => takeovers < expiries

(* Abandoned rows are taken over once for each time the timeout passed.      *)
THEOREM TakeoversBounded == Spec => []TakeoverNeedsTimeout
<1>1. Init => TimeoutSpent
  BY DEF Init, TimeoutSpent
<1>2. TypeOK /\ TimeoutSpent /\ [Next]_vars => TimeoutSpent'
  <2> SUFFICES ASSUME TypeOK, TimeoutSpent, [Next]_vars PROVE TimeoutSpent'
    OBVIOUS
  <2> USE DEF TypeOK, TimeoutSpent, Touch
  <2>1. ASSUME NEW c \in Call, Reserve(c) PROVE TimeoutSpent'
    BY <2>1 DEF Reserve
  <2>2. ASSUME NEW c \in Call, ReadExisting(c) PROVE TimeoutSpent'
    BY <2>2 DEF ReadExisting
  <2>3. ASSUME NEW c \in Call, AnswerAtOnce(c) PROVE TimeoutSpent'
    BY <2>3 DEF AnswerAtOnce, rowVars
  <2>4. ASSUME NEW c \in Call, TakeOver(c) PROVE TimeoutSpent'
    BY <2>4 DEF TakeOver, SameAsRead
  <2>5. ASSUME NEW c \in Call, RetryFailed(c) PROVE TimeoutSpent'
    BY <2>5 DEF RetryFailed, FailureExpired
  <2>6. ASSUME NEW c \in Call, Block(c) PROVE TimeoutSpent'
    BY <2>6 DEF Block
  <2>7. ASSUME NEW c \in Call, Persist(c) PROVE TimeoutSpent'
    BY <2>7 DEF Persist
  <2>8. ASSUME NEW c \in Call, KeepDraft(c) PROVE TimeoutSpent'
    BY <2>8 DEF KeepDraft, rowVars
  <2>9. ASSUME NEW c \in Call, Refine(c) PROVE TimeoutSpent'
    BY <2>9 DEF Refine, Reworded
  <2>10. ASSUME NEW c \in Call, Fail(c) PROVE TimeoutSpent'
    BY <2>10 DEF Fail
  <2>11. ASSUME NEW c \in Call, Crash(c) PROVE TimeoutSpent'
    BY <2>11 DEF Crash, rowVars
  <2>12. CASE TimeoutElapses
    BY <2>12 DEF TimeoutElapses
  <2>13. CASE UNCHANGED vars
    BY <2>13 DEF vars, rowVars
  <2> QED
    BY <2>1, <2>2, <2>3, <2>4, <2>5, <2>6, <2>7, <2>8, <2>9, <2>10, <2>11, <2>12,
       <2>13 DEF Next, Done
<1>3. TimeoutSpent => TakeoverNeedsTimeout
  BY DEF TimeoutSpent, TakeoverNeedsTimeout
<1> QED
  BY <1>1, <1>2, <1>3, TypeCorrect, PTL DEF Spec
-------------------------------------------------------------------------------
(* What is kept, read or told is the reply of a committed turn, and a turn   *)
(* that is not committed yet belongs to a call still on its way.             *)
AllStand ==
  /\ row = "absent" => \A c \in Call : pc[c] = "new"
  /\ response \in Payload => Stands(response)
  /\ \A c \in Call :
       /\ pc[c] \in {"new", "decide", "process"} => message[c] = "none"
       /\ pc[c] = "refine" => message[c] = "draft"
       /\ pc[c] = "decide" /\ seen[c].response \in Payload => Stands(seen[c].response)

(* Every reply a caller gets stands in a committed turn.                     *)
THEOREM AnswersStand == Spec => []AnswersAreCommitted
<1>1. Init => AllStand /\ AnswersAreCommitted
  BY DEF Init, AllStand, AnswersAreCommitted, Stands
<1>2. TypeOK /\ TypeOK' /\ AllStand /\ AnswersAreCommitted /\ [Next]_vars
        => (AllStand /\ AnswersAreCommitted)'
  <2> SUFFICES ASSUME TypeOK, TypeOK', AllStand, AnswersAreCommitted, [Next]_vars
               PROVE  (AllStand /\ AnswersAreCommitted)'
    OBVIOUS
  <2> USE DEF TypeOK, AllStand, AnswersAreCommitted, Stands, Turns, Payload, Error,
              Reply, Touch, Finish
  <2>1. ASSUME NEW c \in Call, Reserve(c) PROVE (AllStand /\ AnswersAreCommitted)'
    BY <2>1 DEF Reserve
  <2>2. ASSUME NEW c \in Call, ReadExisting(c) PROVE (AllStand /\ AnswersAreCommitted)'
    BY <2>2 DEF ReadExisting
  <2>3. ASSUME NEW c \in Call, AnswerAtOnce(c) PROVE (AllStand /\ AnswersAreCommitted)'
    <3> HIDE DEF Payload, Error
    <3>1. answer'[c] \in Payload => answer'[c] = seen[c].response
      <4>1. ASSUME NEW what, answer'[c] = [error |-> what] PROVE answer'[c] \notin Payload
        BY <4>1, ErrorIsNoReply
      <4> QED
        BY <2>3, <4>1 DEF AnswerAtOnce
    <3>2. pc[c] = "decide" /\ pc'[c] = "done"
      BY <2>3 DEF AnswerAtOnce
    <3> QED
      BY <2>3, <3>1, <3>2 DEF AnswerAtOnce, rowVars
  <2>4. ASSUME NEW c \in Call, TakeOver(c) PROVE (AllStand /\ AnswersAreCommitted)'
    BY <2>4 DEF TakeOver, SameAsRead
  <2>5. ASSUME NEW c \in Call, RetryFailed(c) PROVE (AllStand /\ AnswersAreCommitted)'
    BY <2>5 DEF RetryFailed, FailureExpired
  <2>6. ASSUME NEW c \in Call, Block(c) PROVE (AllStand /\ AnswersAreCommitted)'
    BY <2>6 DEF Block
  <2>7. ASSUME NEW c \in Call, Persist(c) PROVE (AllStand /\ AnswersAreCommitted)'
    BY <2>7 DEF Persist
  <2>8. ASSUME NEW c \in Call, KeepDraft(c) PROVE (AllStand /\ AnswersAreCommitted)'
    BY <2>8 DEF KeepDraft, rowVars
  <2>9. ASSUME NEW c \in Call, Refine(c) PROVE (AllStand /\ AnswersAreCommitted)'
    BY <2>9 DEF Refine, Reworded
  <2>10. ASSUME NEW c \in Call, Fail(c) PROVE (AllStand /\ AnswersAreCommitted)'
    <3> HIDE DEF Payload, Error
    <3>1. answer'[c] \notin Payload
      BY <2>10, ErrorIsNoReply DEF Fail
    <3> QED
      BY <2>10, <3>1 DEF Fail
  <2>11. ASSUME NEW c \in Call, Crash(c) PROVE (AllStand /\ AnswersAreCommitted)'
    BY <2>11 DEF Crash, rowVars
  <2>12. CASE TimeoutElapses
    BY <2>12 DEF TimeoutElapses
  <2>13. CASE UNCHANGED vars
    BY <2>13 DEF vars, rowVars
  <2> QED
    BY <2>1, <2>2, <2>3, <2>4, <2>5, <2>6, <2>7, <2>8, <2>9, <2>10, <2>11, <2>12,
       <2>13 DEF Next, Done
<1> QED
  BY <1>1, <1>2, TypeCorrect, PTL DEF Spec

-------------------------------------------------------------------------------
(* The calls that are being processed, or whose reply can still be heard.    *)
Granted(c) ==
  \/ pc[c] \in {"process", "refine"}
  \/ message[c] # "none"
  \/ response \in Payload /\ response.by = c
  \/ \E d \in Call :
       \/ pc[d] = "decide" /\ seen[d].response \in Payload /\ seen[d].response.by = c
       \/ answer[d] \in Payload /\ answer[d].by = c

(* Before the first timeout one call alone is granted: the row can only be   *)
(* inserted once, and nothing else grants it without having seen it expired. *)
OneGranted ==
  /\ row = "absent" => \A c \in Call : ~Granted(c) /\ pc[c] = "new"
  /\ stale => expiries > 0
  /\ \A c \in Call : pc[c] = "decide" /\ seen[c].stale => expiries > 0
  /\ expiries = 0 => \A c, d \in Call : Granted(c) /\ Granted(d) => c = d

(* Without a timeout no turn is processed twice, and all callers that get a  *)
(* reply get that of the same processing.                                    *)
THEOREM NoDuplicate == Spec => []NoTimeoutNoDuplicate
<1>1. Init => OneGranted
  BY DEF Init, OneGranted, Granted
<1>2. TypeOK /\ TypeOK' /\ OneGranted /\ [Next]_vars => OneGranted'
  <2> SUFFICES ASSUME TypeOK, TypeOK', OneGranted, [Next]_vars PROVE OneGranted'
    OBVIOUS
  <2> USE DEF TypeOK, OneGranted, Granted, Payload, Error, Reply, Touch, Finish
  <2>1. ASSUME NEW c \in Call, Reserve(c) PROVE OneGranted'
    BY <2>1 DEF Reserve
  <2>2. ASSUME NEW c \in Call, ReadExisting(c) PROVE OneGranted'
    BY <2>2 DEF ReadExisting
  <2>3. ASSUME NEW c \in Call, AnswerAtOnce(c) PROVE OneGranted'
    <3> HIDE DEF Payload, Error
    <3>1. answer'[c] \in Payload => answer'[c] = seen[c].response
      <4>1. ASSUME NEW what, answer'[c] = [error |-> what] PROVE answer'[c] \notin Payload
        BY <4>1, ErrorIsNoReply
      <4> QED
        BY <2>3, <4>1 DEF AnswerAtOnce
    <3>2. pc[c] = "decide" /\ pc'[c] = "done"
      BY <2>3 DEF AnswerAtOnce
    <3> QED
      BY <2>3, <3>1, <3>2 DEF AnswerAtOnce, rowVars
  <2>4. ASSUME NEW c \in Call, TakeOver(c) PROVE OneGranted'
    BY <2>4 DEF TakeOver, SameAsRead
  <2>5. ASSUME NEW c \in Call, RetryFailed(c) PROVE OneGranted'
    BY <2>5 DEF RetryFailed, FailureExpired
  <2>6. ASSUME NEW c \in Call, Block(c) PROVE OneGranted'
    BY <2>6 DEF Block
  <2>7. ASSUME NEW c \in Call, Persist(c) PROVE OneGranted'
    BY <2>7 DEF Persist
  <2>8. ASSUME NEW c \in Call, KeepDraft(c) PROVE OneGranted'
    BY <2>8 DEF KeepDraft, rowVars
  <2>9. ASSUME NEW c \in Call, Refine(c) PROVE OneGranted'
    BY <2>9 DEF Refine, Reworded
  <2>10. ASSUME NEW c \in Call, Fail(c) PROVE OneGranted'
    <3> HIDE DEF Payload, Error
    <3>1. answer'[c] \notin Payload
      BY <2>10, ErrorIsNoReply DEF Fail
    <3> QED
      BY <2>10, <3>1 DEF Fail
  <2>11. ASSUME NEW c \in Call, Crash(c) PROVE OneGranted'
    BY <2>11 DEF Crash, rowVars
  <2>12. CASE TimeoutElapses
    BY <2>12 DEF TimeoutElapses
  <2>13. CASE UNCHANGED vars
    BY <2>13 DEF vars, rowVars
  <2> QED
    BY <2>1, <2>2, <2>3, <2>4, <2>5, <2>6, <2>7, <2>8, <2>9, <2>10, <2>11, <2>12,
       <2>13 DEF Next, Done
<1>3. TypeOK /\ OneGranted => NoTimeoutNoDuplicate
  <2> SUFFICES ASSUME TypeOK, OneGranted, expiries = 0,
                      NEW c \in Heard, NEW d \in Heard
               PROVE  c = d
    BY DEF NoTimeoutNoDuplicate
  <2>1. c \in Call /\ Granted(c)
    BY DEF Heard, Turns, Granted, TypeOK, Payload
  <2>2. d \in Call /\ Granted(d)
    BY DEF Heard, Turns, Granted, TypeOK, Payload
  <2> QED
    BY <2>1, <2>2 DEF OneGranted
<1> QED
  BY <1>1, <1>2, <1>3, TypeCorrect, PTL DEF Spec

-------------------------------------------------------------------------------
(* Livia's turns.  A turn is proved stage by stage: each stage of            *)
(* generate_reply keeps what the ones before it promise (Carries, FullKept), *)
(* whatever the message says.                                                *)
USE SignalsAssumption, TriggersAssumption, DiscoveryAssumption, TurnAssumption

-------------------------------------------------------------------------------
(* What the policies make of a lead. *)
LEMMA Texts ==
  /\ Silence \in Text /\ Message \subseteq Text /\ ~Trigger(Silence) /\ Says[Silence] = {}
  /\ Fills \in [Text -> SUBSET (ContactField \cup {"need"})] /\ Gives \in [Text -> SUBSET ContactField]
<1>1. TriggerKind(Silence) = "none"
  BY DEF SignalsAssumption, TriggerKind, PriceQuestion, Actionable
<1>2. QED
  BY <1>1 DEF SignalsAssumption, TriggersAssumption, Text, Trigger

(* The flags of the collection, apart from the offer and the name's.         *)
Flag == {"active", "paused", "deferred", "reason", "intent"}
SameFlags(d, e) == \A f \in Flag : d[f] = e[f]

(* The collection is open by its flags. *)
OpenData(d) == d.active /\ ~d.paused /\ ~d.deferred

(* Opening a collection and pausing it. *)
LEMMA Flags ==
  ASSUME NEW d \in Data
  PROVE  /\ Opened(d, TRUE) \in Data /\ OpenData(Opened(d, TRUE)) /\ Opened(d, TRUE).reason
         /\ PausedBy(d) \in Data /\ ~PausedBy(d).active /\ PausedBy(d).paused
<1>1. OpenData(Opened(d, TRUE)) /\ Opened(d, TRUE).reason
  BY DEF Opened, Data, OpenData
<1>2. ~PausedBy(d).active /\ PausedBy(d).paused
  BY DEF PausedBy, Data
<1>3. Opened(d, TRUE) \in Data
  <2> DEFINE a == [d EXCEPT !.active = TRUE]
             p == [a EXCEPT !.paused = FALSE]
             f == [p EXCEPT !.deferred = FALSE]
             o == [f EXCEPT !.reason = TRUE]
  <2>1. Opened(d, TRUE) = o
    BY DEF Opened, Data
  <2>2. a \in Data
    BY DEF Data
  <2> HIDE DEF a
  <2>3. p \in Data
    BY <2>2 DEF Data
  <2> HIDE DEF p
  <2>4. f \in Data
    BY <2>3 DEF Data
  <2> HIDE DEF f
  <2>5. o \in Data
    BY <2>4 DEF Data
  <2> HIDE DEF o
  <2>6. QED
    BY <2>1, <2>5
<1>4. PausedBy(d) \in Data
  <2> DEFINE a == [d EXCEPT !.active = FALSE]
             p == [a EXCEPT !.paused = TRUE]
             f == [p EXCEPT !.deferred = TRUE]
  <2>1. PausedBy(d) = f
    BY DEF PausedBy, Data
  <2>2. a \in Data
    BY DEF Data
  <2> HIDE DEF a
  <2>3. p \in Data
    BY <2>2 DEF Data
  <2> HIDE DEF p
  <2>4. f \in Data
    BY <2>3 DEF Data
  <2> HIDE DEF f
  <2>5. QED
    BY <2>1, <2>4
<1>5. QED
  BY <1>1, <1>2, <1>3, <1>4

(* A lead is created with what it has, and carries the same flags. *)
LEMMA Creation ==
  ASSUME NEW l \in Lead
  PROVE  /\ Created(l) \in Lead /\ Exists(Created(l))
         /\ Created(l).has = l.has /\ Created(l).need = l.need /\ Created(l).data = l.data
<1> DEFINE n == [l EXCEPT !.status = "draft"]
<1>1. n \in Lead /\ n.status = "draft" /\ n.has = l.has /\ n.need = l.need /\ n.data = l.data
  BY DEF Lead, LeadStatus
<1>2. Created(l) = (IF Exists(l) THEN l ELSE n)
  BY DEF Created
<1> HIDE DEF n
<1>3. QED
  BY <1>1, <1>2 DEF Exists

(* The offer leaves the flags of the collection alone. *)
LEMMA Offering ==
  ASSUME NEW l \in Lead
  PROVE  WithOffer(l) \in Lead /\ Exists(WithOffer(l)) /\ SameFlags(WithOffer(l).data, l.data)
<1> DEFINE c == Created(l)
           d == [c.data EXCEPT !.offer = "pending"]
           n == [c EXCEPT !.need = "valid"]
           u == [n EXCEPT !.data = d]
<1>1. c \in Lead /\ Exists(c) /\ c.data = l.data
  BY Creation
<1>2. WithOffer(l) = u
  BY <1>1 DEF WithOffer, Lead, Data
<1> HIDE DEF c
<1>3. d \in Data /\ SameFlags(d, l.data)
  BY <1>1 DEF Lead, Data, Offer, SameFlags, Flag
<1> HIDE DEF d
<1>4. n \in Lead /\ n.status = c.status
  BY <1>1 DEF Lead, Need
<1> HIDE DEF n
<1>5. u \in Lead /\ u.status = c.status /\ u.data = d
  BY <1>3, <1>4 DEF Lead
<1> HIDE DEF u
<1>6. QED
  BY <1>1, <1>2, <1>3, <1>5 DEF Exists

(* What is captured outside of a collection leaves its flags alone, and an   *)
(* open collection takes nothing passively.                                  *)
LEMMA Passive ==
  ASSUME NEW l \in Lead, NEW m \in Text
  PROVE  /\ CapturedPassively(l, m) \in Lead
         /\ CapturedPassively(l, m).status = l.status
         /\ SameFlags(CapturedPassively(l, m).data, l.data)
         /\ l.data.active => CapturedPassively(l, m) = l
<1> DEFINE asked == l.data.nameAsked /\ "name" \in Fills[m]
           named == "selfNamed" \in Says[m] /\ "name" \in Fills[m]
           name == IF "name" \notin l.has /\ (asked \/ named) THEN {"name"} ELSE {}
           c == [l.data EXCEPT !.nameCaptured = @ \/ name # {}]
           b == l.data.nameAsked /\ ~(name # {} /\ asked)
           a == [c EXCEPT !.nameAsked = b]
           k == l.has \cup name \cup (Fills[m] \cap {"phone", "email"})
           h == [l EXCEPT !.has = k]
           r == [h EXCEPT !.data = a]
<1>1. name \subseteq ContactField
  BY DEF ContactField
<1>2. CapturedPassively(l, m) = (IF ~Exists(l) \/ l.data.active THEN l ELSE r)
  BY DEF CapturedPassively, Lead, Data
<1>3. c \in Data /\ SameFlags(c, l.data)
  BY DEF Lead, Data, SameFlags, Flag
<1>4. b \in BOOLEAN
  OBVIOUS
<1> HIDE DEF c, name, asked, b
<1>5. a \in Data /\ SameFlags(a, l.data)
  <2>1. a \in Data
    BY <1>3, <1>4 DEF Data
  <2>2. SameFlags(a, c)
    BY <1>3 DEF Data, SameFlags, Flag
  <2>3. QED
    BY <1>3, <2>1, <2>2 DEF SameFlags
<1> HIDE DEF a
<1>6. k \in SUBSET ContactField
  BY <1>1 DEF ContactField, Lead
<1> HIDE DEF k
<1>7. h \in Lead /\ h.status = l.status
  BY <1>6 DEF Lead
<1> HIDE DEF h
<1>8. r \in Lead /\ r.status = l.status /\ r.data = a
  BY <1>5, <1>7 DEF Lead
<1> HIDE DEF r
<1>9. QED
  BY <1>2, <1>5, <1>8 DEF SameFlags

(* A lead that is qualified exists, and keeps its flags. *)
LEMMA Standing ==
  ASSUME NEW l \in Lead
  PROVE  /\ WithStatus(l) \in Lead /\ (Exists(l) => Exists(WithStatus(l)))
         /\ WithStatus(l).data = l.data
<1> DEFINE v == IF l.status \in {"sent_to_crm", "failed"} THEN l.status
                ELSE IF Missing(l) = {} THEN "qualified" ELSE "draft"
           r == [l EXCEPT !.status = v]
<1>1. v \in LeadStatus /\ v # "none"
  BY DEF LeadStatus
<1>2. WithStatus(l) = r
  BY DEF WithStatus, Lead
<1> HIDE DEF v
<1>3. r \in Lead /\ r.status = v /\ r.data = l.data
  BY <1>1 DEF Lead
<1> HIDE DEF r
<1>4. QED
  BY <1>1, <1>2, <1>3 DEF Exists

LEMMA NamedQualified ==
  ASSUME NEW l \in Lead, NEW S \in SUBSET Message, NEW m \in Text
  PROVE  /\ QualifyNamed(l, S, m) \in Lead
         /\ Exists(l) => Exists(QualifyNamed(l, S, m))
         /\ QualifyNamed(l, S, m).data = l.data
<1> DEFINE k == l.has \cup Inferred(l, m)
           n == NeedAfter(l, S, m)
           h == [l EXCEPT !.has = k]
           u == [h EXCEPT !.need = n]
<1>1. Inferred(l, m) \subseteq ContactField
  BY DEF Inferred
<1>2. k \in SUBSET ContactField
  BY <1>1 DEF Lead
<1>3. n \in Need
  BY DEF NeedAfter, Need, Lead
<1>4. QualifyNamed(l, S, m) = WithStatus(u)
  BY DEF QualifyNamed, Lead
<1> HIDE DEF k, n
<1>5. h \in Lead /\ h.status = l.status /\ h.data = l.data
  BY <1>2 DEF Lead
<1> HIDE DEF h
<1>6. u \in Lead /\ u.status = l.status /\ u.data = l.data
  BY <1>3, <1>5 DEF Lead
<1> HIDE DEF u
<1>7. QED
  BY <1>4, <1>6, Standing DEF Exists

LEMMA Qualified ==
  ASSUME NEW l \in Lead, NEW S \in SUBSET Message, NEW m \in Text
  PROVE  /\ Qualify(l, S, m) \in Lead /\ Exists(Qualify(l, S, m))
         /\ SameFlags(Qualify(l, S, m).data, l.data)
<1> DEFINE c == Created(l)
           b == c.data.nameDeferred \/ "noName" \in Says[m]
           d == [c.data EXCEPT !.nameDeferred = b]
           k == c.has \cup UNION {Gives[h] : h \in S \cup {m}}
           n == [c EXCEPT !.data = d]
           u == [n EXCEPT !.has = k]
<1>1. c \in Lead /\ Exists(c) /\ c.data = l.data
  BY Creation
<1>2. Qualify(l, S, m) = QualifyNamed(u, S, m)
  BY <1>1 DEF Qualify, Lead, Data
<1> HIDE DEF c
<1>3. k \in SUBSET ContactField
  BY <1>1, Texts DEF Lead, Text
<1>4. b \in BOOLEAN
  OBVIOUS
<1> HIDE DEF k, b
<1>5. d \in Data
  BY <1>1, <1>4 DEF Data, Lead
<1>6. SameFlags(d, l.data)
  BY <1>1 DEF Data, Lead, SameFlags, Flag
<1> HIDE DEF d
<1>7. n \in Lead /\ n.status = c.status /\ n.data = d
  BY <1>1, <1>5 DEF Lead
<1> HIDE DEF n
<1>8. u \in Lead /\ u.status = c.status /\ u.data = d
  BY <1>3, <1>7 DEF Lead
<1> HIDE DEF u
<1>9. Exists(u)
  BY <1>1, <1>8 DEF Exists
<1>10. QED
  BY <1>2, <1>6, <1>8, <1>9, NamedQualified

-------------------------------------------------------------------------------
TurnKinds == {"other", "name_deferred", "direct_question", "need_enrichment"}
Handlers ==
  {"declined", "locked", "qualifies", "defers", "context", "greets", "replies", "asks",
   "informs", "consults"}
Actions == {"", "accepted", "declined", "offered"}

(* What the stages of a turn hand on. *)
Stage ==
  [conv : Conversation, lead : Lead, handoff : {"none", "active", "closed"},
   events : SUBSET {"lead.qualified", "handoff.created"},
   m : Text, text : Text, said : SUBSET Message, last : Text, turned : 0..2,
   asked : BOOLEAN, kb : BOOLEAN, wording : Wording, kind : TurnKinds, handler : Handlers,
   open : BOOLEAN, prompt : BOOLEAN, action : Actions, passes : BOOLEAN,
   explicit : BOOLEAN, names : BOOLEAN]

Field == {"conv", "lead", "handoff", "events", "m", "text", "said", "last", "turned", "asked",
  "kb", "wording", "kind", "handler", "open", "prompt", "action", "passes", "explicit", "names"}

-------------------------------------------------------------------------------
(* A message that asks for contact, and a collection that one has opened.    *)
Cause(h) == Trigger(h) \/ Volunteers(h) \/ Says[h] \cap {"yes", "register"} # {}
OpenState == {"collect_contact", "offer_handoff"}
CalledIn(s) == s.lead.data.active \/ s.conv.state \in OpenState \/ "lead.qualified" \in s.events
Quiet(c, l) == ~l.data.active /\ c.state \notin OpenState
Full(l) == l.data.active /\ Missing(l) = {}

(* What a turn starts from, and what its stages keep of it. *)
Entry(i) ==
  /\ i \in Stage /\ i.m \in Message /\ i.text = i.m /\ i.handler = "replies" /\ i.action = ""
  /\ i.kind = "other" /\ ~i.explicit /\ ~i.names
  /\ i.lead.data.active => i.lead.data.reason
  /\ ~Exists(i.lead) => Quiet(i.conv, i.lead)

Carries(i, s) ==
  /\ s \in Stage /\ s.m = i.m /\ s.text \in {i.m, Silence} /\ s.said = i.said
  /\ s.lead.data.active => s.lead.data.reason
  /\ ~Exists(s.lead) => Quiet(s.conv, s.lead)
  /\ Exists(i.lead) => Exists(s.lead)
  /\ CalledIn(s) => CalledIn(i) \/ Cause(i.m)
  /\ "lead.qualified" \in i.events => "lead.qualified" \in s.events
  /\ s.action = "accepted" => Cause(i.m)
  /\ s.kind = "name_deferred" => "noName" \in Says[i.m] \/ Declines(i.m)
  /\ s.handler = "defers" => "noName" \in Says[i.m] \/ Declines(i.m)
  /\ s.handler = "qualifies" => CalledIn(i) \/ Cause(i.m)
  /\ s.handler # "qualifies" => /\ i.lead.data.paused => s.lead.data.paused
                                /\ Quiet(i.conv, i.lead) => Quiet(s.conv, s.lead)
  /\ s.handler \notin {"qualifies", "defers"} /\ ~Declines(i.m) =>
       (OpenData(i.lead.data) => OpenData(s.lead.data))
  /\ s.explicit => ~Declines(i.m)

(* Complete and asked for, a lead is told of. *)
FullKept(i, s) == Full(s.lead) => Full(i.lead) \/ "lead.qualified" \in s.events

(* Settled: the passive capture and the answer to the offer. *)
LEMMA Settling ==
  ASSUME NEW i, Entry(i), NEW a, a = OfferAnswer(i)
  PROVE  LET s == Settled(i, a)
         IN Carries(i, s) /\ FullKept(i, s) /\ s.handler = "replies" /\ ~s.names
<1> DEFINE P == CapturedPassively(i.lead, i.m)
           d == [P.data EXCEPT !.offer = a]
           l == [P EXCEPT !.data = d]
           L == IF a = "" THEN P ELSE l
           A == IF a = "accepted" /\ Trigger(i.m) THEN "" ELSE a
           T == IF a = "accepted" /\ ~Trigger(i.m) THEN Silence ELSE i.m
           x == [i EXCEPT !.lead = L]
           y == [x EXCEPT !.action = A]
           s == [y EXCEPT !.text = T]
<1>1. /\ i \in Stage /\ i.lead \in Lead /\ i.m \in Text /\ i.conv \in Conversation
  BY Texts DEF Entry, Stage
<1>2. /\ P \in Lead /\ P.status = i.lead.status /\ SameFlags(P.data, i.lead.data)
      /\ i.lead.data.active => P = i.lead
  BY <1>1, Passive
<1>3. a \in {"", "accepted", "declined"} /\ a \in Offer /\ (A = "accepted" => Cause(i.m))
  BY DEF OfferAnswer, Cause, Offer
<1>4. Settled(i, a) = s
  BY <1>1, <1>2 DEF Settled, Stage, Lead
<1> HIDE DEF P
<1>5. d \in Data /\ SameFlags(d, i.lead.data)
  <2>1. d \in Data
    BY <1>2, <1>3 DEF Data, Lead
  <2>2. SameFlags(d, P.data)
    BY <1>2 DEF Data, Lead, SameFlags, Flag
  <2>3. QED
    BY <1>2, <2>1, <2>2 DEF SameFlags
<1> HIDE DEF d
<1>6. l \in Lead /\ l.status = P.status /\ l.has = P.has /\ l.need = P.need /\ l.data = d
  BY <1>2, <1>5 DEF Lead
<1> HIDE DEF l
<1>7. /\ L \in Lead /\ L.status = i.lead.status /\ SameFlags(L.data, i.lead.data)
      /\ i.lead.data.active => L.has = i.lead.has /\ L.need = i.lead.need
  BY <1>2, <1>5, <1>6
<1> HIDE DEF L, A, T
<1>8. A \in Actions /\ T \in {i.m, Silence} /\ T \in Text
  BY <1>1, <1>3, Texts DEF A, T, Actions
<1>9. x \in Stage /\ x.lead = L /\ \A f \in Field \ {"lead"} : x[f] = i[f]
  BY <1>1, <1>7 DEF Stage, Field
<1> HIDE DEF x
<1>10. y \in Stage /\ y.action = A /\ \A f \in Field \ {"action"} : y[f] = x[f]
  BY <1>8, <1>9 DEF Stage, Field
<1> HIDE DEF y
<1>11. s \in Stage /\ s.text = T /\ \A f \in Field \ {"text"} : s[f] = y[f]
  BY <1>8, <1>10 DEF Stage, Field
<1> HIDE DEF s
<1>12. /\ s.lead = L /\ s.action = A /\ s.text = T /\ s.conv = i.conv /\ s.events = i.events
       /\ s.m = i.m /\ s.said = i.said /\ s.kind = i.kind /\ s.handler = i.handler
       /\ s.explicit = i.explicit /\ s.names = i.names
  BY <1>9, <1>10, <1>11 DEF Stage, Field
<1>13. /\ s.lead.data.active = i.lead.data.active /\ s.lead.data.paused = i.lead.data.paused
       /\ s.lead.data.deferred = i.lead.data.deferred /\ s.lead.data.reason = i.lead.data.reason
       /\ Exists(s.lead) = Exists(i.lead)
  BY <1>7, <1>12 DEF SameFlags, Flag, Exists
<1>14. Carries(i, s)
  BY <1>3, <1>8, <1>11, <1>12, <1>13 DEF Carries, Entry, CalledIn, Quiet, OpenData
<1>15. FullKept(i, s)
  BY <1>7, <1>12, <1>13 DEF FullKept, Full, Missing
<1>16. QED
  BY <1>4, <1>12, <1>14, <1>15 DEF Entry

(* Paused: one who declines pauses the collection. *)
LEMMA Pausing ==
  ASSUME NEW i, Entry(i), NEW t, Carries(i, t), FullKept(i, t), t.handler = "replies", ~t.names
  PROVE  LET s == Paused(t)
         IN Carries(i, s) /\ FullKept(i, s) /\ s.handler = "replies" /\ ~s.names
<1> DEFINE k == TurnKind(t.conv, t.lead, t.said, t.m)
           pauses == /\ t.action = "" /\ Exists(t.lead)
                     /\ Declines(t.m) /\ ~Blocked(t.conv, t.m, t.m)
           d == IF pauses THEN PausedBy(t.lead.data) ELSE t.lead.data
           l == [t.lead EXCEPT !.data = d]
           x == [t EXCEPT !.kind = k]
           s == [x EXCEPT !.lead = l]
<1>1. t \in Stage /\ t.lead \in Lead /\ t.lead.data \in Data /\ t.m = i.m
  BY DEF Carries, Stage, Lead
<1>2. k \in TurnKinds /\ (k = "name_deferred" => "noName" \in Says[i.m] \/ Declines(i.m))
  BY <1>1 DEF TurnKind, TurnKinds
<1>3. Paused(t) = s
  BY <1>1 DEF Paused, Stage, Lead
<1>4. /\ d \in Data
      /\ \/ d = t.lead.data
         \/ ~d.active /\ d.paused /\ Declines(i.m)
  BY <1>1, Flags
<1> HIDE DEF d, k
<1>5. /\ l \in Lead /\ l.status = t.lead.status /\ l.has = t.lead.has /\ l.need = t.lead.need
      /\ l.data = d
  BY <1>1, <1>4 DEF Lead
<1> HIDE DEF l
<1>6. x \in Stage /\ x.kind = k /\ \A f \in Field \ {"kind"} : x[f] = t[f]
  BY <1>1, <1>2 DEF Stage, Field
<1> HIDE DEF x
<1>7. s \in Stage /\ s.lead = l /\ \A f \in Field \ {"lead"} : s[f] = x[f]
  BY <1>5, <1>6 DEF Stage, Field
<1> HIDE DEF s
<1>8. /\ s.lead = l /\ s.action = t.action /\ s.text = t.text /\ s.conv = t.conv
      /\ s.events = t.events /\ s.m = t.m /\ s.said = t.said /\ s.kind = k
      /\ s.handler = t.handler /\ s.explicit = t.explicit /\ s.names = t.names
  BY <1>6, <1>7 DEF Stage, Field
<1>9. Carries(i, s)
  BY <1>2, <1>4, <1>5, <1>7, <1>8 DEF Carries, CalledIn, Quiet, OpenData, Exists
<1>10. FullKept(i, s)
  BY <1>4, <1>5, <1>8 DEF FullKept, Full, Missing
<1>11. QED
  BY <1>3, <1>8, <1>9, <1>10

(* Routed: a handler that opens the collection was asked to. *)
LEMMA Routing ==
  ASSUME NEW i, Entry(i), NEW t, Carries(i, t), FullKept(i, t), t.handler = "replies", ~t.names
  PROVE  LET s == Routed(t)
         IN Carries(i, s) /\ FullKept(i, s) /\ ~s.names
<1> DEFINE o == CollectionOpen(t.conv, t.lead)
           h == IF t.action = "declined" THEN "declined"
                ELSE IF Blocked(t.conv, t.text, t.m) THEN "locked"
                ELSE IF t.action = "accepted" THEN "qualifies"
                ELSE IF Handler(t) # "consults" THEN Handler(t)
                ELSE IF Informs(t) THEN "informs"
                ELSE "consults"
           x == [t EXCEPT !.open = o]
           s == [x EXCEPT !.handler = h]
<1>1. t \in Stage /\ t.m = i.m
  BY DEF Carries
<1>2. o \in BOOLEAN
  BY DEF CollectionOpen
<1>3. /\ Handler(t) \in Handlers
      /\ Handler(t) = "qualifies" => Collects(t.conv, t.lead, t.m)
      /\ Handler(t) = "defers" => t.kind = "name_deferred"
  BY DEF Handler, Handlers
<1>4. Collects(t.conv, t.lead, t.m) => CalledIn(t) \/ Cause(i.m)
  BY <1>1 DEF Collects, CollectionOpen, CalledIn, Cause, OpenState
<1>5. h \in Handlers
  BY <1>3 DEF Handlers
<1>6. h = "qualifies" => CalledIn(i) \/ Cause(i.m)
  BY <1>3, <1>4 DEF Carries
<1>7. h = "defers" => "noName" \in Says[i.m] \/ Declines(i.m)
  BY <1>3 DEF Carries
<1>8. Routed(t) = s
  BY <1>1 DEF Routed, Stage
<1> HIDE DEF o, h
<1>9. x \in Stage /\ \A f \in Field \ {"open"} : x[f] = t[f]
  BY <1>1, <1>2 DEF Stage, Field
<1> HIDE DEF x
<1>10. s \in Stage /\ s.handler = h /\ \A f \in Field \ {"handler"} : s[f] = x[f]
  BY <1>5, <1>9 DEF Stage, Field
<1> HIDE DEF s
<1>11. /\ s.lead = t.lead /\ s.action = t.action /\ s.text = t.text /\ s.conv = t.conv
       /\ s.events = t.events /\ s.m = t.m /\ s.said = t.said /\ s.kind = t.kind
       /\ s.explicit = t.explicit /\ s.names = t.names
  BY <1>9, <1>10 DEF Stage, Field
<1>12. Carries(i, s)
  BY <1>6, <1>7, <1>10, <1>11 DEF Carries, CalledIn
<1>13. QED
  BY <1>8, <1>11, <1>12 DEF FullKept

(* A handler that qualifies leaves the collection open. *)
Prompted(s) == s.handler = "qualifies" => OpenData(s.lead.data)

(* Qualifies: the lead may become complete here, before it is told of. *)
LEMMA Qualifying ==
  ASSUME NEW i, Entry(i), NEW t, Carries(i, t), FullKept(i, t), ~t.names
  PROVE  LET s == Qualifies(t)
         IN /\ Carries(i, s) /\ Prompted(s) /\ ~s.names
            /\ IF Capturing(s) THEN Exists(s.lead) ELSE FullKept(i, s)
<1> DEFINE c == Created(t.lead)
           d == Opened(c.data, TRUE)
           o == [c EXCEPT !.data = d]
           q == Qualify(o, t.said, t.text)
           p == Qualify(t.lead, t.said, t.text)
           u == [t EXCEPT !.lead = q]
           v == [t EXCEPT !.lead = p]
           s == Qualifies(t)
<1>1. /\ t \in Stage /\ t.lead \in Lead /\ t.m = i.m /\ t.text \in Text
      /\ t.said \in SUBSET Message /\ t.lead.data \in Data
  BY DEF Carries, Stage, Lead
<1>2. c \in Lead /\ Exists(c) /\ c.data \in Data
  BY <1>1, Creation DEF Lead
<1>3. s = (IF t.handler = "qualifies" THEN u ELSE IF Capturing(t) THEN v ELSE t)
  BY <1>1, <1>2 DEF Qualifies, Stage, Lead
<1> SUFFICES /\ Carries(i, s) /\ Prompted(s) /\ ~s.names
             /\ IF Capturing(s) THEN Exists(s.lead) ELSE FullKept(i, s)
  OBVIOUS
<1> HIDE DEF s, c
<1>4. d \in Data /\ OpenData(d) /\ d.reason
  BY <1>2, Flags
<1> HIDE DEF d
<1>5. o \in Lead /\ o.data = d
  BY <1>2, <1>4 DEF Lead
<1> HIDE DEF o
<1>6. q \in Lead /\ Exists(q) /\ OpenData(q.data) /\ q.data.reason
  BY <1>1, <1>4, <1>5, Qualified DEF SameFlags, Flag, OpenData
<1>7. p \in Lead /\ Exists(p) /\ SameFlags(p.data, t.lead.data)
  BY <1>1, Qualified
<1> HIDE DEF q, p
<1>8. u \in Stage /\ u.lead = q /\ \A f \in Field \ {"lead"} : u[f] = t[f]
  BY <1>1, <1>6 DEF Stage, Field
<1>9. v \in Stage /\ v.lead = p /\ \A f \in Field \ {"lead"} : v[f] = t[f]
  BY <1>1, <1>7 DEF Stage, Field
<1> HIDE DEF u, v
<1>10. CASE t.handler = "qualifies"
  <2>1. s = u
    BY <1>3, <1>10
  <2>2. /\ s.action = t.action /\ s.text = t.text /\ s.conv = t.conv
        /\ s.events = t.events /\ s.m = t.m /\ s.said = t.said /\ s.kind = t.kind
        /\ s.explicit = t.explicit /\ s.names = t.names /\ s.handler = t.handler
    BY <1>8, <2>1 DEF Stage, Field
  <2>3. Carries(i, s)
    BY <1>6, <1>8, <1>10, <2>1, <2>2 DEF Carries, CalledIn
  <2>4. QED
    BY <1>6, <1>8, <1>10, <2>1, <2>2, <2>3 DEF Prompted, Capturing, PassesLead
<1>11. CASE t.handler # "qualifies" /\ Capturing(t)
  <2>1. s = v
    BY <1>3, <1>11
  <2>2. /\ s.action = t.action /\ s.text = t.text /\ s.conv = t.conv /\ s.lead = p
        /\ s.events = t.events /\ s.m = t.m /\ s.said = t.said /\ s.kind = t.kind
        /\ s.explicit = t.explicit /\ s.names = t.names /\ s.handler = t.handler
        /\ s.open = t.open
    BY <1>9, <2>1 DEF Stage, Field
  <2>3. /\ s.lead.data.active = t.lead.data.active /\ s.lead.data.paused = t.lead.data.paused
        /\ s.lead.data.deferred = t.lead.data.deferred /\ s.lead.data.reason = t.lead.data.reason
    BY <1>7, <2>2 DEF SameFlags, Flag
  <2>4. Carries(i, s)
    BY <1>7, <1>9, <1>11, <2>1, <2>2, <2>3 DEF Carries, CalledIn, Quiet, OpenData
  <2>5. QED
    BY <1>7, <1>11, <2>2, <2>4 DEF Prompted, Capturing
<1>12. CASE t.handler # "qualifies" /\ ~Capturing(t)
  <2>1. s = t
    BY <1>3, <1>12
  <2>2. QED
    BY <1>12, <2>1 DEF Prompted
<1>13. QED
  BY <1>10, <1>11, <1>12

(* The capture opens nothing that was not open, and tells of a ready lead. *)
LEMMA NextStates ==
  ASSUME NEW c \in Conversation, NEW l \in Lead
  PROVE  /\ Captured(c, l).state \in LeadState /\ Captured(c, l).qualified \in BOOLEAN
         /\ Captured(c, l).state \in OpenState => l.data.active \/ c.state \in OpenState
         /\ Captured(c, l).told <=> Missing(l) = {} /\ Ready(l)
<1> DEFINE k == [c EXCEPT !.qualified = Missing(l) = {}]
           f == FirstMissing(l)
           n == CASE f = "none" -> "discovery"
                  [] f = "need" -> "collect_need"
                  [] f = "name" -> "collect_name_company"
                  [] OTHER -> "collect_contact"
<1>1. k.state = c.state
  BY DEF Conversation
<1>2. n \in LeadState
  BY DEF LeadState
<1>3. NextState(k, l) = (IF l.status \in {"sent_to_crm", "qualified"} \/ k.qualified THEN "qualified"
                         ELSE IF ~l.data.active /\ ~CollectionOpen(k, l) THEN "discovery" ELSE n)
  BY DEF NextState
<1> HIDE DEF n, f
<1>4. /\ NextState(k, l) \in LeadState
      /\ NextState(k, l) \in OpenState => l.data.active \/ c.state \in OpenState
  BY <1>1, <1>2, <1>3 DEF CollectionOpen, OpenState, LeadState
<1>5. Captured(c, l).state = NextState(k, l)
  BY DEF Captured
<1>6. Captured(c, l).qualified \in BOOLEAN
  BY DEF Captured
<1>7. Captured(c, l).told <=> Missing(l) = {} /\ Ready(l)
  BY DEF Captured
<1> HIDE DEF k
<1>8. QED
  BY <1>4, <1>5, <1>6, <1>7

(* Captures: a lead that became ready is told of. *)
LEMMA Telling ==
  ASSUME NEW i, Entry(i), NEW t, Carries(i, t), Prompted(t), ~t.names,
         IF Capturing(t) THEN Exists(t.lead) ELSE FullKept(i, t)
  PROVE  LET s == Captures(t)
         IN Carries(i, s) /\ Prompted(s) /\ FullKept(i, s) /\ ~s.names
<1> DEFINE g == Captured(t.conv, t.lead)
           c == [state |-> g.state, qualified |-> g.qualified]
           e == IF g.told THEN t.events \cup {"lead.qualified"} ELSE t.events
           x == [t EXCEPT !.conv = c]
           v == [x EXCEPT !.events = e]
           s == Captures(t)
<1>1. /\ t \in Stage /\ t.lead \in Lead /\ t.conv \in Conversation
      /\ t.events \in SUBSET {"lead.qualified", "handoff.created"}
  BY DEF Carries, Stage
<1>2. s = IF Capturing(t) THEN v ELSE t
  BY <1>1 DEF Captures, Stage
<1> SUFFICES Carries(i, s) /\ Prompted(s) /\ FullKept(i, s) /\ ~s.names
  OBVIOUS
<1> HIDE DEF s
<1>3. CASE ~Capturing(t)
  BY <1>2, <1>3
<1>4. CASE Capturing(t)
  <2>1. /\ g.state \in LeadState /\ g.qualified \in BOOLEAN
        /\ g.state \in OpenState => t.lead.data.active \/ t.conv.state \in OpenState
        /\ g.told <=> Missing(t.lead) = {} /\ Ready(t.lead)
    BY <1>1, NextStates
  <2> HIDE DEF g
  <2>2. c \in Conversation /\ c.state = g.state
    BY <2>1 DEF Conversation
  <2> HIDE DEF c
  <2>3. /\ e \in SUBSET {"lead.qualified", "handoff.created"}
        /\ "lead.qualified" \in e <=> "lead.qualified" \in t.events \/ g.told
    BY <1>1
  <2> HIDE DEF e
  <2>4. x \in Stage /\ x.conv = c /\ \A f \in Field \ {"conv"} : x[f] = t[f]
    BY <1>1, <2>2 DEF Stage, Field
  <2> HIDE DEF x
  <2>5. v \in Stage /\ v.events = e /\ \A f \in Field \ {"events"} : v[f] = x[f]
    BY <2>3, <2>4 DEF Stage, Field
  <2> HIDE DEF v
  <2>6. s = v
    BY <1>2, <1>4
  <2>7. /\ s \in Stage /\ s.conv = c /\ s.events = e /\ s.action = t.action /\ s.text = t.text
        /\ s.lead = t.lead /\ s.m = t.m /\ s.said = t.said /\ s.kind = t.kind
        /\ s.explicit = t.explicit /\ s.names = t.names /\ s.handler = t.handler
    BY <2>4, <2>5, <2>6 DEF Stage, Field
  <2>8. t.lead.data.active => t.lead.data.reason
    BY DEF Carries
  <2>9. /\ Exists(s.lead) /\ (CalledIn(s) => CalledIn(t))
        /\ Quiet(t.conv, t.lead) => Quiet(s.conv, s.lead)
        /\ "lead.qualified" \in t.events => "lead.qualified" \in s.events
    BY <1>4, <2>1, <2>2, <2>3, <2>7 DEF CalledIn, Quiet, Ready
  <2>10. Carries(i, s)
    BY <2>7, <2>9 DEF Carries
  <2>11. FullKept(i, s)
    BY <2>1, <2>3, <2>7, <2>8 DEF FullKept, Full, Ready
  <2>12. QED
    BY <2>7, <2>10, <2>11 DEF Prompted
<1>5. QED
  BY <1>3, <1>4

(* After the capture a turn prompts if its handler qualifies. *)
Worked(i, s) ==
  /\ Carries(i, s) /\ Prompted(s) /\ FullKept(i, s)
  /\ s.prompt <=> s.handler = "qualifies"

(* Adds: a deferred name pauses the collection. *)
LEMMA Adding ==
  ASSUME NEW i, Entry(i), NEW t, Carries(i, t), Prompted(t), FullKept(i, t), ~t.names
  PROVE  LET s == Adds(t) IN Worked(i, s) /\ ~s.names
<1> DEFINE b == PausedBy(t.lead.data)
           n == [b EXCEPT !.nameDeferred = TRUE]
           d == IF t.handler = "defers" THEN n ELSE t.lead.data
           l == [t.lead EXCEPT !.data = d]
           p == t.handler = "qualifies"
           x == [t EXCEPT !.prompt = p]
           s == [x EXCEPT !.lead = l]
<1>1. t \in Stage /\ t.lead \in Lead /\ t.lead.data \in Data /\ p \in BOOLEAN
  BY DEF Carries, Stage, Lead
<1>2. Adds(t) = s
  BY <1>1 DEF Adds, Stage, Lead
<1>3. b \in Data /\ ~b.active /\ b.paused
  BY <1>1, Flags
<1> HIDE DEF b
<1>4. n \in Data /\ ~n.active /\ n.paused
  BY <1>3 DEF Data
<1> HIDE DEF n
<1>5. /\ d \in Data
      /\ d = t.lead.data \/ (~d.active /\ d.paused /\ t.handler = "defers")
  BY <1>1, <1>4
<1> HIDE DEF d
<1>6. /\ l \in Lead /\ l.status = t.lead.status /\ l.has = t.lead.has /\ l.need = t.lead.need
      /\ l.data = d
  BY <1>1, <1>5 DEF Lead
<1> HIDE DEF l
<1>7. x \in Stage /\ (x.prompt <=> t.handler = "qualifies") /\ \A f \in Field \ {"prompt"} : x[f] = t[f]
  BY <1>1 DEF Stage, Field
<1> HIDE DEF x
<1>8. s \in Stage /\ s.lead = l /\ \A f \in Field \ {"lead"} : s[f] = x[f]
  BY <1>6, <1>7 DEF Stage, Field
<1> HIDE DEF s
<1>9. /\ s.action = t.action /\ s.text = t.text /\ s.conv = t.conv /\ s.events = t.events
      /\ s.m = t.m /\ s.said = t.said /\ s.kind = t.kind /\ s.handler = t.handler
      /\ s.explicit = t.explicit /\ s.names = t.names /\ s.prompt = x.prompt
  BY <1>7, <1>8 DEF Stage, Field
<1>10. Carries(i, s)
  BY <1>5, <1>6, <1>8, <1>9 DEF Carries, CalledIn, Quiet, OpenData, Exists
<1>11. FullKept(i, s) /\ Prompted(s)
  BY <1>5, <1>6, <1>8, <1>9 DEF FullKept, Full, Missing, Prompted
<1>12. QED
  BY <1>2, <1>7, <1>8, <1>9, <1>10, <1>11 DEF Worked

(* Moves: the handlers move to states that open nothing. *)
LEMMA Moving ==
  ASSUME NEW i, Entry(i), NEW t, Worked(i, t), ~t.names
  PROVE  LET s == Moves(t) IN Worked(i, s) /\ ~s.names
<1> DEFINE discovers == t.handler = "consults" \/ (t.handler = "informs" /\ ~Exists(t.lead))
           n == IF t.handler = "asks" THEN "collect_need"
                ELSE IF discovers /\ ~t.open THEN "discovery" ELSE t.conv.state
           c == [t.conv EXCEPT !.state = n]
           s == [t EXCEPT !.conv = c]
<1>1. t \in Stage /\ t.conv \in Conversation
  BY DEF Worked, Carries, Stage
<1>2. Moves(t) = s
  BY <1>1 DEF Moves, Stage, Conversation
<1>3. n \in LeadState /\ (n \in OpenState => n = t.conv.state)
  BY <1>1 DEF Conversation, LeadState, OpenState
<1> HIDE DEF n
<1>4. c \in Conversation /\ c.state = n
  BY <1>1, <1>3 DEF Conversation
<1> HIDE DEF c
<1>5. s \in Stage /\ s.conv = c /\ \A f \in Field \ {"conv"} : s[f] = t[f]
  BY <1>1, <1>4 DEF Stage, Field
<1> HIDE DEF s
<1>6. /\ s.action = t.action /\ s.text = t.text /\ s.lead = t.lead /\ s.events = t.events
      /\ s.m = t.m /\ s.said = t.said /\ s.kind = t.kind /\ s.handler = t.handler
      /\ s.explicit = t.explicit /\ s.names = t.names /\ s.prompt = t.prompt
  BY <1>5 DEF Stage, Field
<1>7. Carries(i, s)
  BY <1>3, <1>4, <1>5, <1>6 DEF Worked, Carries, CalledIn, Quiet
<1>8. QED
  BY <1>2, <1>6, <1>7 DEF Worked, Prompted, FullKept

(* HandsOff: a visitor who declines is not handed over on request. *)
LEMMA HandingOff ==
  ASSUME NEW i, Entry(i), NEW t, Worked(i, t), ~t.names
  PROVE  LET s == HandsOff(t) IN Worked(i, s) /\ ~s.names
<1> DEFINE o == HandoffReason(t) = "explicit"
           e == IF t.handoff = "active" THEN t.events ELSE t.events \cup {"handoff.created"}
           x == [t EXCEPT !.handoff = "active"]
           y == [x EXCEPT !.passes = TRUE]
           z == [y EXCEPT !.explicit = o]
           v == [z EXCEPT !.events = e]
           s == HandsOff(t)
<1>1. t \in Stage /\ t.events \in SUBSET {"lead.qualified", "handoff.created"}
  BY DEF Worked, Carries, Stage
<1>2. s = v \/ s = t
  BY <1>1 DEF HandsOff, Stage
<1>3. o \in BOOLEAN /\ (o => ~Declines(i.m))
  BY <1>1, Texts DEF HandoffReason, Worked, Carries, Declines
<1>4. /\ e \in SUBSET {"lead.qualified", "handoff.created"}
      /\ "lead.qualified" \in e <=> "lead.qualified" \in t.events
  BY <1>1
<1> SUFFICES Worked(i, s) /\ ~s.names
  OBVIOUS
<1> HIDE DEF s, o, e
<1>5. x \in Stage /\ \A f \in Field \ {"handoff"} : x[f] = t[f]
  BY <1>1 DEF Stage, Field
<1> HIDE DEF x
<1>6. y \in Stage /\ \A f \in Field \ {"passes"} : y[f] = x[f]
  BY <1>5 DEF Stage, Field
<1> HIDE DEF y
<1>7. z \in Stage /\ z.explicit = o /\ \A f \in Field \ {"explicit"} : z[f] = y[f]
  BY <1>3, <1>6 DEF Stage, Field
<1> HIDE DEF z
<1>8. v \in Stage /\ v.events = e /\ \A f \in Field \ {"events"} : v[f] = z[f]
  BY <1>4, <1>7 DEF Stage, Field
<1> HIDE DEF v
<1>9. CASE s = v
  <2>1. /\ s.action = t.action /\ s.text = t.text /\ s.lead = t.lead /\ s.conv = t.conv
        /\ s.m = t.m /\ s.said = t.said /\ s.kind = t.kind /\ s.handler = t.handler
        /\ s.names = t.names /\ s.prompt = t.prompt /\ s.explicit = o /\ s.events = e
    BY <1>5, <1>6, <1>7, <1>8, <1>9 DEF Stage, Field
  <2>2. Carries(i, s)
    BY <1>3, <1>4, <1>8, <1>9, <2>1 DEF Worked, Carries, CalledIn
  <2>3. QED
    BY <1>4, <2>1, <2>2 DEF Worked, Prompted, FullKept
<1>10. QED
  BY <1>2, <1>9

(* What the turn ends with: one that asks for the name has no open collection. *)
Ended(i, s) ==
  /\ Worked(i, s)
  /\ s.names => Exists(s.lead) /\ ~OpenData(s.lead.data)

(* Finalized: the offer and the name come where nothing is open. *)
LEMMA Finalizing ==
  ASSUME NEW i, Entry(i), NEW t, Worked(i, t), ~t.names
  PROVE  Ended(i, Finalized(t))
<1> DEFINE offers == Offerable(t.conv, t.lead, t.text, ConcreteNeed(t.text, t.said),
                               t.passes, t.kb, t.wording)
           w == WithOffer(t.lead)
           x == [t EXCEPT !.lead = w]
           u == [x EXCEPT !.action = "offered"]
           d == [t.lead.data EXCEPT !.nameAsked = TRUE]
           l == [t.lead EXCEPT !.data = d]
           y == [t EXCEPT !.lead = l]
           v == [y EXCEPT !.names = TRUE]
           s == Finalized(t)
<1>1. t \in Stage /\ t.lead \in Lead /\ t.lead.data \in Data
  BY DEF Worked, Carries, Stage, Lead
<1>2. \/ s = t
      \/ s = u /\ offers
      \/ s = v /\ NameAskable(t)
  BY <1>1 DEF Finalized, Stage, Lead
<1>3. offers => ~t.lead.data.active
  BY DEF Offerable, CollectionOpen
<1> SUFFICES Ended(i, s)
  OBVIOUS
<1> HIDE DEF s, offers
<1>4. CASE s = t
  BY <1>4 DEF Ended
<1>5. CASE s = u /\ offers
  <2>1. w \in Lead /\ Exists(w) /\ SameFlags(w.data, t.lead.data)
    BY <1>1, Offering
  <2> HIDE DEF w
  <2>2. x \in Stage /\ x.lead = w /\ \A f \in Field \ {"lead"} : x[f] = t[f]
    BY <1>1, <2>1 DEF Stage, Field
  <2> HIDE DEF x
  <2>3. u \in Stage /\ u.action = "offered" /\ \A f \in Field \ {"action"} : u[f] = x[f]
    BY <2>2 DEF Stage, Field, Actions
  <2> HIDE DEF u
  <2>4. /\ s \in Stage /\ s.action = "offered" /\ s.text = t.text /\ s.lead = w
        /\ s.conv = t.conv /\ s.events = t.events /\ s.m = t.m /\ s.said = t.said
        /\ s.kind = t.kind /\ s.handler = t.handler /\ s.names = t.names
        /\ s.prompt = t.prompt /\ s.explicit = t.explicit
    BY <1>5, <2>2, <2>3 DEF Stage, Field
  <2>5. /\ s.lead.data.active = t.lead.data.active /\ s.lead.data.paused = t.lead.data.paused
        /\ s.lead.data.deferred = t.lead.data.deferred /\ s.lead.data.reason = t.lead.data.reason
    BY <2>1, <2>4 DEF SameFlags, Flag
  <2>6. Carries(i, s)
    BY <2>1, <2>4, <2>5 DEF Worked, Carries, CalledIn, Quiet, OpenData
  <2>7. FullKept(i, s) /\ Prompted(s)
    BY <1>3, <1>5, <2>4, <2>5 DEF Worked, FullKept, Full, Prompted, OpenData
  <2>8. QED
    BY <2>4, <2>6, <2>7 DEF Ended, Worked
<1>6. CASE s = v /\ NameAskable(t)
  <2>1. d \in Data /\ SameFlags(d, t.lead.data)
    BY <1>1 DEF Data, SameFlags, Flag
  <2> HIDE DEF d
  <2>2. /\ l \in Lead /\ l.status = t.lead.status /\ l.has = t.lead.has
        /\ l.need = t.lead.need /\ l.data = d
    BY <1>1, <2>1 DEF Lead
  <2> HIDE DEF l
  <2>3. y \in Stage /\ y.lead = l /\ \A f \in Field \ {"lead"} : y[f] = t[f]
    BY <1>1, <2>2 DEF Stage, Field
  <2> HIDE DEF y
  <2>4. v \in Stage /\ \A f \in Field \ {"names"} : v[f] = y[f]
    BY <2>3 DEF Stage, Field
  <2> HIDE DEF v
  <2>5. /\ s \in Stage /\ s.action = t.action /\ s.text = t.text /\ s.lead = l
        /\ s.conv = t.conv /\ s.events = t.events /\ s.m = t.m /\ s.said = t.said
        /\ s.kind = t.kind /\ s.handler = t.handler
        /\ s.prompt = t.prompt /\ s.explicit = t.explicit
    BY <1>6, <2>3, <2>4 DEF Stage, Field
  <2>6. /\ s.lead.data.active = t.lead.data.active /\ s.lead.data.paused = t.lead.data.paused
        /\ s.lead.data.deferred = t.lead.data.deferred /\ s.lead.data.reason = t.lead.data.reason
        /\ Exists(s.lead) /\ Exists(t.lead) /\ Missing(s.lead) = Missing(t.lead)
    BY <1>6, <2>1, <2>2, <2>5 DEF SameFlags, Flag, NameAskable, Exists, Missing
  <2>7. Carries(i, s)
    BY <2>5, <2>6 DEF Worked, Carries, CalledIn, Quiet, OpenData
  <2>8. FullKept(i, s) /\ Prompted(s)
    BY <2>5, <2>6 DEF Worked, FullKept, Full, Prompted, OpenData
  <2>9. ~OpenData(s.lead.data)
    BY <1>6, <2>6 DEF NameAskable, CollectionOpen, OpenData
  <2>10. QED
    BY <2>5, <2>6, <2>7, <2>8, <2>9 DEF Ended, Worked
<1>7. QED
  BY <1>2, <1>4, <1>5, <1>6

(* The whole of a turn. *)
LEMMA Generating ==
  ASSUME NEW i, Entry(i), NEW s \in Generated(i)
  PROVE  Ended(i, s)
<1> DEFINE a == Settled(i, OfferAnswer(i))
           b == Paused(a)
           c == Routed(b)
           d == Qualifies(c)
           e == Captures(d)
           f == Adds(e)
           g == Moves(f)
           h == HandsOff(g)
<1>1. s = Finalized(h)
  BY DEF Generated
<1>2. Carries(i, a) /\ FullKept(i, a) /\ a.handler = "replies" /\ ~a.names
  BY Settling
<1> HIDE DEF a
<1>3. Carries(i, b) /\ FullKept(i, b) /\ b.handler = "replies" /\ ~b.names
  BY <1>2, Pausing
<1> HIDE DEF b
<1>4. Carries(i, c) /\ FullKept(i, c) /\ ~c.names
  BY <1>3, Routing
<1> HIDE DEF c
<1>5. /\ Carries(i, d) /\ Prompted(d) /\ ~d.names
      /\ IF Capturing(d) THEN Exists(d.lead) ELSE FullKept(i, d)
  BY <1>4, Qualifying
<1> HIDE DEF d
<1>6. Carries(i, e) /\ Prompted(e) /\ FullKept(i, e) /\ ~e.names
  BY <1>5, Telling
<1> HIDE DEF e
<1>7. Worked(i, f) /\ ~f.names
  BY <1>6, Adding
<1> HIDE DEF f
<1>8. Worked(i, g) /\ ~g.names
  BY <1>7, Moving
<1> HIDE DEF g
<1>9. Worked(i, h) /\ ~h.names
  BY <1>8, HandingOff
<1> HIDE DEF h
<1>10. QED
  BY <1>1, <1>9, Finalizing

-------------------------------------------------------------------------------
(* What a worker holds, and the states of the conversation between turns.    *)
Held ==
  [pc : {"idle", "read", "committed"}, m : Text, kb : BOOLEAN, memory : Memory,
   conv : Conversation, data : Data, named : BOOLEAN, concrete : BOOLEAN]

Caused == \E h \in said : Cause(h)
Called == lead.data.active \/ conv.state \in OpenState \/ "lead.qualified" \in events

Reads(w) ==
  turn[w].pc = "read" =>
    turn[w].m \in Message /\ (Declines(turn[w].m) => turn[w].memory.paused)
Names(w) ==
  turn[w].named =>
    /\ turn[w].pc = "committed" /\ Exists(lead)
    /\ turn[w].data.active => Caused /\ turn[w].data.reason

(* A refusal stands by the pause, which every crossing turn carries on, or   *)
(* because nothing is open and nothing can restore it.                       *)
RefusedByPause ==
  /\ lead.data.paused
  /\ \A w \in Worker : /\ turn[w].pc = "read" => turn[w].memory.paused
                       /\ turn[w].named => turn[w].data.paused
RefusedByQuiet ==
  /\ Quiet(conv, lead)
  /\ \A w \in Worker : turn[w].named => ~turn[w].data.active
Refused == RefusedByPause \/ RefusedByQuiet

(* A request stands, and no crossing turn can pause it but by a refusal.     *)
Asked ==
  /\ OpenData(lead.data)
  /\ \A w \in Worker : /\ ~turn[w].named
                       /\ turn[w].pc = "read" /\ ~Declines(turn[w].m) => ~turn[w].memory.paused

TurnsInv ==
  /\ TurnTypeOK
  /\ Called => Caused
  /\ \A w \in Worker : Reads(w) /\ Names(w)
  /\ lead.data.active => lead.data.reason
  /\ ~Exists(lead) => Quiet(conv, lead)
  /\ Full(lead) => "lead.qualified" \in events \/ reopened
  /\ word = "refused" => Refused
  /\ word = "asked" => Asked

(* The memory saved over the flags keeps a pause it remembers. *)
LEMMA Saving ==
  ASSUME NEW l \in Lead, NEW mem \in Memory
  PROVE  LET u == [l EXCEPT !.data = Persisted(@, mem)]
         IN /\ u \in Lead /\ u.status = l.status /\ u.has = l.has /\ u.need = l.need
            /\ u.data.active = l.data.active /\ u.data.reason = l.data.reason
            /\ mem.paused => u.data.paused
            /\ OpenData(l.data) /\ ~mem.paused => OpenData(u.data)
<1> DEFINE d == l.data
           b == mem.intent
           x == [d EXCEPT !.paused = FALSE]
           y == [x EXCEPT !.intent = b]
           f == mem.deferred
           p == mem.paused
           e == [d EXCEPT !.deferred = f]
           g == [e EXCEPT !.paused = p]
           h == [g EXCEPT !.intent = b]
           v == IF d.active /\ ~p THEN y ELSE h
           u == [l EXCEPT !.data = v]
<1>1. d \in Data /\ b \in BOOLEAN /\ f \in BOOLEAN /\ p \in BOOLEAN
  BY DEF Lead, Memory
<1>2. [l EXCEPT !.data = Persisted(@, mem)] = u
  BY DEF Persisted, Lead, Data
<1> HIDE DEF b, f, p
<1>3. y \in Data /\ y.active = d.active /\ y.reason = d.reason /\ y.deferred = d.deferred /\ ~y.paused
  BY <1>1 DEF Data
<1>4. h \in Data /\ h.active = d.active /\ h.reason = d.reason /\ h.paused = p
  BY <1>1 DEF Data
<1> HIDE DEF y, h
<1>5. /\ v \in Data /\ v.active = d.active /\ v.reason = d.reason /\ (p => v.paused)
      /\ OpenData(d) /\ ~p => OpenData(v)
  BY <1>3, <1>4 DEF OpenData
<1> HIDE DEF v
<1>6. u \in Lead /\ u.status = l.status /\ u.has = l.has /\ u.need = l.need /\ u.data = v
  BY <1>5 DEF Lead
<1> HIDE DEF u
<1>7. QED
  BY <1>2, <1>5, <1>6 DEF p

(* A worker between two turns. *)
LEMMA IdleHeld == Idle \in Held /\ Idle.pc = "idle" /\ ~Idle.named
<1>1. Remembered(NoLead, Silence) \in Memory
  BY DEF Remembered, Memory, NoLead, NoData
<1>2. NewConversation \in Conversation /\ NoData \in Data
  BY DEF NewConversation, Conversation, LeadState, NoData, Data, Offer
<1>3. QED
  BY <1>1, <1>2, Texts DEF Idle, Held

(* A turn that commits starts from the rows as they are. *)
LEMMA Entering ==
  ASSUME TurnsInv, NEW w \in Worker, turn[w].pc = "read", NEW wording \in Wording
  PROVE  LET i == Read(w, wording)
         IN /\ Entry(i) /\ i.m = turn[w].m /\ i.conv = conv /\ i.lead = lead
            /\ i.events = events /\ i.said = said
<1> DEFINE i == Read(w, wording)
<1>1. turn[w] \in Held /\ turn[w].m \in Message
  BY DEF TurnsInv, TurnTypeOK, Held, Reads
<1>2. turn[w].kb \in BOOLEAN /\ turn[w].m \in Text
  BY <1>1 DEF Held
<1>3. /\ i.m = turn[w].m /\ i.conv = conv /\ i.lead = lead /\ i.events = events
      /\ i.said = said /\ i.text = i.m /\ i.handler = "replies" /\ i.action = ""
      /\ i.kind = "other" /\ ~i.explicit /\ ~i.names
  BY DEF Read
<1>4. i \in Stage
  BY <1>2 DEF Read, Stage, TurnsInv, TurnTypeOK, TurnKinds, Handlers, Actions
<1> SUFFICES /\ Entry(i) /\ i.m = turn[w].m /\ i.conv = conv /\ i.lead = lead
             /\ i.events = events /\ i.said = said
  OBVIOUS
<1> HIDE DEF i
<1>5. Entry(i)
  BY <1>1, <1>3, <1>4 DEF Entry, TurnsInv
<1>6. QED
  BY <1>3, <1>5

(* One lemma per action: it keeps the invariant. *)
LEMMA Committing ==
  ASSUME TurnsInv, NEW w \in Worker, Commit(w)
  PROVE  TurnsInv'
<1> DEFINE mem == turn[w].memory
<1>1. turn[w].pc = "read"
  BY DEF Commit
<1>2. PICK wording \in Wording : \E s \in Generated(Read(w, wording)) :
        \E saved \in {IF Exists(s.lead) /\ ~s.explicit
                      THEN [s.lead EXCEPT !.data = Persisted(@, turn[w].memory)]
                      ELSE s.lead} :
          /\ conv' = s.conv /\ lead' = saved
          /\ handoff' = s.handoff /\ events' = s.events
          /\ asks' = (wording = "asks" /\ s.action # "offered")
          /\ turn' = [turn EXCEPT ![w] =
                        IF UsesAI /\ ~s.prompt /\ s.action = ""
                        THEN [@ EXCEPT !.pc = "committed", !.conv = s.conv,
                                       !.named = s.names,
                                       !.data = IF s.names THEN saved.data ELSE NoData,
                                       !.concrete = ConcreteNeed(s.m, said)]
                        ELSE Idle]
          /\ word' = WordAfter(w, s)
  BY DEF Commit
<1> DEFINE i == Read(w, wording)
<1>3. PICK s \in Generated(i) :
        \E saved \in {IF Exists(s.lead) /\ ~s.explicit
                      THEN [s.lead EXCEPT !.data = Persisted(@, turn[w].memory)]
                      ELSE s.lead} :
          /\ conv' = s.conv /\ lead' = saved
          /\ handoff' = s.handoff /\ events' = s.events
          /\ asks' = (wording = "asks" /\ s.action # "offered")
          /\ turn' = [turn EXCEPT ![w] =
                        IF UsesAI /\ ~s.prompt /\ s.action = ""
                        THEN [@ EXCEPT !.pc = "committed", !.conv = s.conv,
                                       !.named = s.names,
                                       !.data = IF s.names THEN saved.data ELSE NoData,
                                       !.concrete = ConcreteNeed(s.m, said)]
                        ELSE Idle]
          /\ word' = WordAfter(w, s)
  BY <1>2
<1> DEFINE saved == IF Exists(s.lead) /\ ~s.explicit
                    THEN [s.lead EXCEPT !.data = Persisted(@, mem)] ELSE s.lead
           d == IF s.names THEN saved.data ELSE NoData
           o == ConcreteNeed(s.m, said)
           k == s.conv
           nm == s.names
           r1 == [turn[w] EXCEPT !.pc = "committed"]
           r2 == [r1 EXCEPT !.conv = k]
           r3 == [r2 EXCEPT !.named = nm]
           r4 == [r3 EXCEPT !.data = d]
           r5 == [r4 EXCEPT !.concrete = o]
           r == IF UsesAI /\ ~s.prompt /\ s.action = "" THEN r5 ELSE Idle
<1>4. turn[w] \in Held /\ turn \in [Worker -> Held]
  BY DEF TurnsInv, TurnTypeOK, Held
<1>5. /\ conv' = s.conv /\ lead' = saved /\ handoff' = s.handoff /\ events' = s.events
      /\ asks' \in BOOLEAN /\ word' = WordAfter(w, s)
  BY <1>3
<1>6. turn' = [turn EXCEPT ![w] = r]
  BY <1>3, <1>4 DEF Held
<1>7. /\ Entry(i) /\ i.m = turn[w].m /\ i.conv = conv /\ i.lead = lead /\ i.events = events
      /\ i.said = said
  BY <1>1, Entering
<1> HIDE DEF i
<1>8. Ended(i, s)
  BY <1>7, Generating
<1>9. /\ s \in Stage /\ s.lead \in Lead /\ s.conv \in Conversation /\ s.names \in BOOLEAN
      /\ s.handoff \in {"none", "active", "closed"} /\ s.m = i.m
      /\ s.events \subseteq {"lead.qualified", "handoff.created"}
  BY <1>8 DEF Ended, Worked, Carries, Stage
<1>10. mem \in Memory
  BY <1>4 DEF Held
<1> HIDE DEF mem
<1>11. /\ saved \in Lead /\ Exists(saved) = Exists(s.lead) /\ Missing(saved) = Missing(s.lead)
       /\ saved.data.active = s.lead.data.active /\ saved.data.reason = s.lead.data.reason
       /\ Exists(s.lead) /\ ~s.explicit /\ mem.paused => saved.data.paused
       /\ mem.paused /\ s.lead.data.paused => saved.data.paused
       /\ OpenData(s.lead.data) /\ ~mem.paused => OpenData(saved.data)
  <2>1. CASE Exists(s.lead) /\ ~s.explicit
    BY <1>9, <1>10, <2>1, Saving DEF Exists, Missing
  <2>2. CASE ~(Exists(s.lead) /\ ~s.explicit)
    BY <1>9, <2>2
  <2>3. QED
    BY <2>1, <2>2
<1> HIDE DEF saved
<1>12. d \in Data /\ o \in BOOLEAN
  BY <1>11 DEF NoData, Data, Lead, Offer, ConcreteNeed
<1> HIDE DEF d, o
<1>13. r5 \in Held /\ r5.pc = "committed" /\ r5.named = s.names /\ r5.data = d
  BY <1>4, <1>9, <1>12 DEF Held
<1>14. Idle \in Held /\ Idle.pc = "idle" /\ ~Idle.named
  BY IdleHeld
<1> HIDE DEF r5, Idle
<1>15. /\ r \in Held /\ r.pc \in {"idle", "committed"}
       /\ r.named => s.names /\ r.data = saved.data /\ r.pc = "committed" /\ ~s.prompt
  BY <1>13, <1>14 DEF d
<1> HIDE DEF r
<1>16. turn'[w] = r /\ \A v \in Worker \ {w} : turn'[v] = turn[v]
  BY <1>4, <1>6
<1>17. said' = said \cup {i.m} /\ i.m \in Message /\ reopened' = reopened
  BY <1>7 DEF Commit, Entry
<1>18. TurnTypeOK'
  <2>1. turn' \in [Worker -> Held]
    BY <1>4, <1>6, <1>15
  <2>2. word' \in {"none", "asked", "refused"}
    BY <1>5 DEF WordAfter, TurnsInv, TurnTypeOK
  <2>3. last' \in Text /\ answered' \in Worker /\ turns' = turns
    BY <1>4 DEF Commit, Held
  <2>4. turned \in 0..2 /\ turned' = IF turned < 2 THEN turned + 1 ELSE turned
    BY DEF Commit, TurnsInv, TurnTypeOK
  <2>5. turned' \in 0..2
    BY <2>4
  <2>6. QED
    BY <1>5, <1>9, <1>11, <1>17, <2>1, <2>2, <2>3, <2>5 DEF TurnTypeOK, TurnsInv, Held
<1>19. (Called => Caused)'
  <2>1. Called' => CalledIn(i) \/ Cause(i.m)
    BY <1>5, <1>8, <1>11 DEF Called, CalledIn, Ended, Worked, Carries
  <2>2. CalledIn(i) => Caused
    BY <1>7 DEF CalledIn, Called, TurnsInv
  <2>3. Caused \/ Cause(i.m) => Caused'
    BY <1>17 DEF Caused
  <2>4. QED
    BY <2>1, <2>2, <2>3
<1>20. \A v \in Worker : Reads(v)' /\ Names(v)'
  <2>1. \A v \in Worker \ {w} : Reads(v)' /\ Names(v)'
    BY <1>5, <1>7, <1>8, <1>11, <1>16, <1>17 DEF TurnsInv, Reads, Names, Ended, Worked, Carries, Caused
  <2>2. Reads(w)'
    BY <1>15, <1>16 DEF Reads
  <2>3. Names(w)'
    BY <1>5, <1>8, <1>11, <1>15, <1>16, <1>19 DEF Names, Called, Ended, Worked, Carries
  <2>4. QED
    BY <2>1, <2>2, <2>3
<1>21. /\ (lead.data.active => lead.data.reason)'
       /\ (~Exists(lead) => Quiet(conv, lead))'
  BY <1>5, <1>8, <1>11 DEF Ended, Worked, Carries, Quiet
<1>22. (Full(lead) => "lead.qualified" \in events \/ reopened)'
  BY <1>5, <1>7, <1>8, <1>11, <1>17 DEF Ended, Worked, Carries, FullKept, Full, TurnsInv
<1> DEFINE alone == \A v \in Worker \ {w} : turn[v].pc = "idle"
<1>23. (word = "refused" => Refused)'
  <2> SUFFICES ASSUME word' = "refused" PROVE Refused'
    OBVIOUS
  <2>1. \/ Declines(i.m) /\ alone
        \/ ~Declines(i.m) /\ ~s.prompt /\ word = "refused"
    BY <1>5, <1>9 DEF WordAfter
  <2>2. CASE Declines(i.m) /\ alone
    <3>1. mem.paused /\ ~s.explicit
      BY <1>1, <1>7, <1>8, <2>2 DEF TurnsInv, Reads, mem, Ended, Worked, Carries
    <3>2. \A v \in Worker \ {w} : turn'[v].pc # "read" /\ ~turn'[v].named
      BY <1>16, <2>2 DEF TurnsInv, Names
    <3>3. CASE Exists(s.lead)
      BY <1>5, <1>11, <1>15, <1>16, <3>1, <3>2, <3>3 DEF Refused, RefusedByPause
    <3>4. CASE ~Exists(s.lead)
      <4>1. Quiet(s.conv, s.lead) /\ ~s.names
        BY <1>8, <3>4 DEF Ended, Worked, Carries
      <4>2. QED
        BY <1>5, <1>11, <1>15, <1>16, <3>2, <4>1 DEF Refused, RefusedByQuiet, Quiet
    <3>5. QED
      BY <3>3, <3>4
  <2>3. CASE ~Declines(i.m) /\ ~s.prompt /\ word = "refused"
    <3>1. s.handler # "qualifies"
      BY <1>8, <2>3 DEF Ended, Worked
    <3>2. CASE RefusedByPause
      <4>1. mem.paused /\ s.lead.data.paused
        BY <1>1, <1>7, <1>8, <3>1, <3>2 DEF RefusedByPause, mem, Ended, Worked, Carries
      <4>2. QED
        BY <1>5, <1>11, <1>15, <1>16, <3>2, <4>1 DEF Refused, RefusedByPause
    <3>3. CASE RefusedByQuiet
      <4>1. Quiet(s.conv, s.lead)
        BY <1>7, <1>8, <3>1, <3>3 DEF RefusedByQuiet, Ended, Worked, Carries
      <4>2. QED
        BY <1>5, <1>11, <1>15, <1>16, <3>3, <4>1 DEF Refused, RefusedByQuiet, Quiet
    <3>4. QED
      BY <2>3, <3>2, <3>3 DEF TurnsInv, Refused
  <2>4. QED
    BY <2>1, <2>2, <2>3
<1>24. (word = "asked" => Asked)'
  <2> SUFFICES ASSUME word' = "asked" PROVE Asked'
    OBVIOUS
  <2>1. ~Declines(i.m)
    BY <1>5, <1>9 DEF WordAfter
  <2>2. \/ s.prompt /\ alone /\ ~mem.paused
        \/ ~s.prompt /\ "noName" \notin Says[i.m] /\ word = "asked"
    BY <1>5, <1>9, <2>1 DEF WordAfter, mem
  <2>3. CASE s.prompt /\ alone /\ ~mem.paused
    <3>1. OpenData(s.lead.data)
      BY <1>8, <2>3 DEF Ended, Worked, Prompted
    <3>2. \A v \in Worker \ {w} : turn'[v].pc # "read" /\ ~turn'[v].named
      BY <1>16, <2>3 DEF TurnsInv, Names
    <3>3. QED
      BY <1>5, <1>11, <1>15, <1>16, <2>3, <3>1, <3>2 DEF Asked
  <2>4. CASE ~s.prompt /\ "noName" \notin Says[i.m] /\ word = "asked"
    <3>1. Asked
      BY <2>4 DEF TurnsInv
    <3>2. s.handler \notin {"qualifies", "defers"} /\ ~mem.paused
      BY <1>1, <1>7, <1>8, <2>1, <2>4, <3>1 DEF Ended, Worked, Carries, Asked, mem
    <3>3. OpenData(s.lead.data) /\ ~s.names
      BY <1>7, <1>8, <2>1, <3>1, <3>2 DEF Ended, Worked, Carries, Asked
    <3>4. QED
      BY <1>5, <1>11, <1>15, <1>16, <3>1, <3>2, <3>3 DEF Asked
  <2>5. QED
    BY <2>2, <2>3, <2>4
<1>25. QED
  BY <1>18, <1>19, <1>20, <1>21, <1>22, <1>23, <1>24 DEF TurnsInv

LEMMA Beginning ==
  ASSUME TurnsInv, NEW w \in Worker, NEW m \in Message, NEW kb \in BOOLEAN, Begin(w, m, kb)
  PROVE  TurnsInv'
<1> DEFINE mem == Remembered(lead, m)
           r1 == [Idle EXCEPT !.pc = "read"]
           r2 == [r1 EXCEPT !.m = m]
           r3 == [r2 EXCEPT !.kb = kb]
           r == [r3 EXCEPT !.memory = mem]
<1>1. turn \in [Worker -> Held] /\ lead \in Lead
  BY DEF TurnsInv, TurnTypeOK, Held
<1>2. /\ mem \in Memory /\ (Declines(m) => mem.paused)
      /\ lead.data.paused => mem.paused
      /\ ~lead.data.paused /\ ~Declines(m) => ~mem.paused
  BY DEF Remembered, Memory
<1>3. turn' = [turn EXCEPT ![w] = r]
  BY IdleHeld DEF Begin, Held
<1> HIDE DEF mem
<1>4. r \in Held /\ r.pc = "read" /\ r.m = m /\ r.memory = mem /\ ~r.named
  BY <1>2, IdleHeld, Texts DEF Held
<1> HIDE DEF r
<1>5. turn'[w] = r /\ (\A v \in Worker \ {w} : turn'[v] = turn[v]) /\ turn' \in [Worker -> Held]
  BY <1>1, <1>3, <1>4
<1>6. turns' \in 0..MaxTurns
  <2>1. turns \in 0..MaxTurns /\ turns' = turns + 1 /\ turns < MaxTurns /\ MaxTurns \in Nat
    BY DEF Begin, TurnsInv, TurnTypeOK, TurnAssumption
  <2>2. QED
    BY <2>1
<1>7. TurnTypeOK'
  BY <1>5, <1>6 DEF Begin, TurnsInv, TurnTypeOK, Held, rows, history, heard
<1>8. UNCHANGED <<conv, lead, events, said, word, reopened>>
  BY DEF Begin, rows, history, heard
<1>9. \A v \in Worker : Reads(v)' /\ Names(v)'
  BY <1>2, <1>4, <1>5, <1>8 DEF TurnsInv, Reads, Names, Caused
<1>10. (word = "refused" => Refused)'
  BY <1>2, <1>4, <1>5, <1>8 DEF TurnsInv, Refused, RefusedByPause, RefusedByQuiet
<1>11. (word = "asked" => Asked)'
  BY <1>2, <1>4, <1>5, <1>8 DEF TurnsInv, Asked, OpenData
<1>12. QED
  BY <1>7, <1>8, <1>9, <1>10, <1>11 DEF TurnsInv, Called, Caused

(* A worker that ends without writing the lead's flags. *)
LEMMA Ending ==
  ASSUME TurnsInv, NEW w \in Worker, turn' = [turn EXCEPT ![w] = Idle]
  PROVE  /\ turn' \in [Worker -> Held] /\ ~turn'[w].named /\ turn'[w].pc = "idle"
         /\ \A v \in Worker \ {w} : turn'[v] = turn[v]
<1>1. turn \in [Worker -> Held]
  BY DEF TurnsInv, TurnTypeOK, Held
<1>2. QED
  BY <1>1, IdleHeld

LEMMA Keeping ==
  ASSUME TurnsInv, NEW w \in Worker, KeepReply(w)
  PROVE  TurnsInv'
<1>1. /\ turn' \in [Worker -> Held] /\ ~turn'[w].named /\ turn'[w].pc = "idle"
      /\ \A v \in Worker \ {w} : turn'[v] = turn[v]
  BY Ending DEF KeepReply
<1>2. UNCHANGED <<conv, lead, handoff, events, said, last, turned, asks, answered, turns, word, reopened>>
  BY DEF KeepReply, rows, history, heard
<1>3. TurnTypeOK'
  BY <1>1, <1>2 DEF TurnsInv, TurnTypeOK, Held
<1>4. \A v \in Worker : Reads(v)' /\ Names(v)'
  BY <1>1, <1>2 DEF TurnsInv, Reads, Names, Caused
<1>5. (word = "refused" => Refused)'
  BY <1>1, <1>2 DEF TurnsInv, Refused, RefusedByPause, RefusedByQuiet
<1>6. (word = "asked" => Asked)'
  BY <1>1, <1>2 DEF TurnsInv, Asked
<1>7. QED
  BY <1>2, <1>3, <1>4, <1>5, <1>6 DEF TurnsInv, Called, Caused

LEMMA Rewording ==
  ASSUME TurnsInv, NEW w \in Worker, Reword(w)
  PROVE  TurnsInv'
<1>1. PICK wording \in Wording :
        LET offers == Offerable(turn[w].conv, lead, turn[w].m, turn[w].concrete,
                                FALSE, turn[w].kb, wording)
            offered == IF offers THEN WithOffer(lead) ELSE lead
        IN /\ lead' = IF turn[w].named
                      THEN [offered EXCEPT !.data = [turn[w].data EXCEPT !.nameAsked = FALSE]]
                      ELSE offered
           /\ asks' = IF answered = w THEN wording = "asks" /\ ~offers ELSE asks
           /\ reopened' = (reopened \/ (turn[w].named /\ turn[w].data.active /\ ~lead.data.active))
  BY DEF Reword
<1> DEFINE offers == Offerable(turn[w].conv, lead, turn[w].m, turn[w].concrete,
                               FALSE, turn[w].kb, wording)
           offered == IF offers THEN WithOffer(lead) ELSE lead
           d == turn[w].data
           e == [d EXCEPT !.nameAsked = FALSE]
           u == [offered EXCEPT !.data = e]
<1>2. /\ lead' = IF turn[w].named THEN u ELSE offered
      /\ asks' \in BOOLEAN /\ reopened' \in BOOLEAN
      /\ reopened' <=> reopened \/ (turn[w].named /\ d.active /\ ~lead.data.active)
  BY <1>1 DEF TurnsInv, TurnTypeOK
<1>3. lead \in Lead /\ turn[w] \in Held
  BY DEF TurnsInv, TurnTypeOK, Held
<1>4. offers => ~lead.data.active
  BY DEF Offerable, CollectionOpen
<1> HIDE DEF offers
<1>5. /\ offered \in Lead /\ SameFlags(offered.data, lead.data)
      /\ offered = lead \/ (Exists(offered) /\ ~lead.data.active)
  BY <1>3, <1>4, Offering DEF SameFlags
<1>6. d \in Data
  BY <1>3 DEF Held
<1> HIDE DEF offered, d
<1>7. e \in Data /\ SameFlags(e, d)
  BY <1>6 DEF Data, SameFlags, Flag
<1> HIDE DEF e
<1>8. u \in Lead /\ u.data = e /\ Exists(u) = Exists(offered) /\ Missing(u) = Missing(offered)
  BY <1>5, <1>7 DEF Lead, Exists, Missing
<1> HIDE DEF u
<1>9. /\ turn' \in [Worker -> Held] /\ ~turn'[w].named /\ turn'[w].pc = "idle"
      /\ \A v \in Worker \ {w} : turn'[v] = turn[v]
  BY Ending DEF Reword
<1>10. UNCHANGED <<conv, handoff, events, said, last, turned, answered, turns, word>>
  BY DEF Reword, history
<1>11. TurnTypeOK'
  BY <1>2, <1>5, <1>8, <1>9, <1>10 DEF TurnsInv, TurnTypeOK, Held
<1>12. Exists(lead) => Exists(lead')
  BY <1>2, <1>5, <1>8
<1>13. turn[w].named => Exists(lead) /\ (d.active => Caused /\ d.reason)
  BY DEF TurnsInv, Names, d
<1>14. /\ turn[w].named => /\ lead'.data.active = d.active /\ lead'.data.paused = d.paused
                           /\ lead'.data.deferred = d.deferred /\ lead'.data.reason = d.reason
       /\ ~turn[w].named => /\ lead'.data.active = lead.data.active
                            /\ lead'.data.paused = lead.data.paused
                            /\ lead'.data.deferred = lead.data.deferred
                            /\ lead'.data.reason = lead.data.reason
  BY <1>2, <1>5, <1>7, <1>8 DEF SameFlags, Flag
<1>15. Caused' <=> Caused
  BY <1>10 DEF Caused
<1>16. (Called => Caused)'
  BY <1>10, <1>13, <1>14, <1>15 DEF TurnsInv, Called
<1>17. \A v \in Worker : Reads(v)' /\ Names(v)'
  BY <1>9, <1>12, <1>15 DEF TurnsInv, Reads, Names
<1>18. /\ (lead.data.active => lead.data.reason)'
       /\ (~Exists(lead) => Quiet(conv, lead))'
  BY <1>10, <1>12, <1>13, <1>14 DEF TurnsInv, Quiet
<1>19. (Full(lead) => "lead.qualified" \in events \/ reopened)'
  BY <1>2, <1>5, <1>8, <1>10, <1>14 DEF TurnsInv, Full
<1>20. (word = "refused" => Refused)'
  BY <1>9, <1>10, <1>14 DEF TurnsInv, Refused, RefusedByPause, RefusedByQuiet, Quiet, d
<1>21. (word = "asked" => Asked)'
  BY <1>9, <1>10, <1>14 DEF TurnsInv, Asked, OpenData
<1>22. QED
  BY <1>11, <1>16, <1>17, <1>18, <1>19, <1>20, <1>21 DEF TurnsInv

LEMMA MovingLead ==
  ASSUME TurnsInv, LeadMoves
  PROVE  TurnsInv'
<1>1. PICK st \in {"sent_to_crm", "failed"} : lead' = [lead EXCEPT !.status = st]
  BY DEF LeadMoves
<1>2. lead \in Lead
  BY DEF TurnsInv, TurnTypeOK
<1>3. lead' \in Lead /\ lead'.data = lead.data /\ Exists(lead') /\ Missing(lead') = Missing(lead)
  BY <1>1, <1>2 DEF Lead, LeadStatus, Exists, Missing
<1>4. UNCHANGED <<conv, handoff, events, said, last, turned, asks, answered, turn, turns, word, reopened>>
  BY DEF LeadMoves, history, heard
<1>5. TurnTypeOK'
  BY <1>3, <1>4 DEF TurnsInv, TurnTypeOK
<1>6. \A v \in Worker : Reads(v)' /\ Names(v)'
  BY <1>3, <1>4 DEF TurnsInv, Reads, Names, Caused
<1>7. (word = "refused" => Refused)'
  BY <1>3, <1>4 DEF TurnsInv, Refused, RefusedByPause, RefusedByQuiet, Quiet
<1>8. (word = "asked" => Asked)'
  BY <1>3, <1>4 DEF TurnsInv, Asked
<1>9. QED
  BY <1>3, <1>4, <1>5, <1>6, <1>7, <1>8 DEF TurnsInv, Called, Caused, Full

LEMMA ClosingHandoff ==
  ASSUME TurnsInv, CloseHandoff
  PROVE  TurnsInv'
<1>1. UNCHANGED <<conv, lead, events, said, last, turned, asks, answered, turn, turns, word, reopened>>
  BY DEF CloseHandoff, history, heard
<1>2. TurnTypeOK'
  BY <1>1 DEF CloseHandoff, TurnsInv, TurnTypeOK
<1>3. QED
  BY <1>1, <1>2 DEF TurnsInv, Called, Caused, Reads, Names, Refused, RefusedByPause,
                    RefusedByQuiet, Asked

(* The inductive invariant of the turns. *)
LEMMA TurnsInvHolds == TurnsSpec => []TurnsInv
<1>1. TurnsInit => TurnsInv
  <2> SUFFICES ASSUME TurnsInit PROVE TurnsInv
    OBVIOUS
  <2>1. turn = [v \in Worker |-> Idle] /\ turn \in [Worker -> Held]
    BY IdleHeld DEF TurnsInit
  <2>2. /\ NewConversation \in Conversation /\ NoLead \in Lead
        /\ Quiet(NewConversation, NoLead) /\ ~NoLead.data.active
    BY DEF NewConversation, Conversation, LeadState, NoLead, NoData, Data, Offer, Lead,
           LeadStatus, Need, Quiet, OpenState
  <2>3. TurnTypeOK
    <3>1. turned \in 0..2 /\ turns \in 0..MaxTurns
      BY DEF TurnsInit, TurnAssumption
    <3>2. last \in Text
      BY Texts DEF TurnsInit
    <3>3. QED
      BY <2>1, <2>2, <3>1, <3>2 DEF TurnsInit, TurnTypeOK, Held
  <2>4. \A v \in Worker : Reads(v) /\ Names(v)
    BY <2>1, IdleHeld DEF Reads, Names
  <2>5. QED
    BY <2>2, <2>3, <2>4 DEF TurnsInit, TurnsInv, Called, Quiet, Full
<1>2. TurnsInv /\ [TurnsNext]_turnVars => TurnsInv'
  <2> SUFFICES ASSUME TurnsInv, [TurnsNext]_turnVars PROVE TurnsInv'
    OBVIOUS
  <2>1. ASSUME NEW w \in Worker, NEW m \in Message, NEW kb \in BOOLEAN, Begin(w, m, kb)
        PROVE  TurnsInv'
    BY <2>1, Beginning
  <2>2. ASSUME NEW w \in Worker, Commit(w) PROVE TurnsInv'
    BY <2>2, Committing
  <2>3. ASSUME NEW w \in Worker, KeepReply(w) PROVE TurnsInv'
    BY <2>3, Keeping
  <2>4. ASSUME NEW w \in Worker, Reword(w) PROVE TurnsInv'
    BY <2>4, Rewording
  <2>5. CASE LeadMoves
    BY <2>5, MovingLead
  <2>6. CASE CloseHandoff
    BY <2>6, ClosingHandoff
  <2>7. CASE UNCHANGED turnVars
    BY <2>7 DEF turnVars, rows, history, heard, TurnsInv, TurnTypeOK, Called, Caused, Reads,
                Names, Refused, RefusedByPause, RefusedByQuiet, Asked
  <2>8. QED
    BY <2>1, <2>2, <2>3, <2>4, <2>5, <2>6, <2>7 DEF TurnsNext
<1>3. QED
  BY <1>1, <1>2, PTL DEF TurnsSpec

(* Every reachable row is one of the models' rows, and so is what each       *)
(* worker holds.                                                             *)
THEOREM TurnsTypeCorrect == TurnsSpec => []TurnTypeOK
<1>1. TurnsInv => TurnTypeOK
  BY DEF TurnsInv
<1>2. QED
  BY <1>1, TurnsInvHolds, PTL

(* The sales team is told of a lead only when its visitor asked for contact, *)
(* however many turns cross.                                                 *)
THEOREM ContactHasCause == TurnsSpec => []ToldForCause
<1>1. TurnsInv => ToldForCause
  BY DEF TurnsInv, ToldForCause, Called, Caused, Cause
<1>2. QED
  BY <1>1, TurnsInvHolds, PTL

(* A lead that is ready has been told of, but where a rewording restored the *)
(* flags of a paused collection.                                             *)
THEOREM ReadyLeadsAreTold == TurnsSpec => []ReadyIsTold
<1>1. TurnsInv => ReadyIsTold
  BY DEF TurnsInv, ReadyIsTold, Full, Ready
<1>2. QED
  BY <1>1, TurnsInvHolds, PTL

(* A refusal that no other turn crossed keeps the collection closed until    *)
(* the visitor asks again.                                                   *)
THEOREM RefusalsStand == TurnsSpec => []RefusalStands
<1>1. TurnsInv => RefusalStands
  BY DEF TurnsInv, RefusalStands, Refused, RefusedByPause, RefusedByQuiet, Quiet,
         CollectionOpen, OpenState
<1>2. QED
  BY <1>1, TurnsInvHolds, PTL

(* A request that no other turn crossed keeps the collection open until the  *)
(* visitor declines.                                                         *)
THEOREM RequestsStand == TurnsSpec => []RequestStands
<1>1. TurnsInv => RequestStands
  BY DEF TurnsInv, RequestStands, Asked, OpenData, CollectionOpen
<1>2. QED
  BY <1>1, TurnsInvHolds, PTL
===============================================================================
