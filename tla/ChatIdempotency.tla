--------------------------- MODULE ChatIdempotency ---------------------------
(***************************************************************************)
(* One ChatRequest row (tenant, session_id, request_id) and the HTTP calls *)
(* that carry its request_id: assistant_core/views.py chat_api,            *)
(* services/chat_idempotency.py and the transactions of chat_processing.   *)
(*                                                                         *)
(* A call is one POST to /api/chat/.  Its steps are the database           *)
(* transactions between which other calls run: the INSERT that reserves    *)
(* the request, the read of an existing row (whose lock ends with the      *)
(* read), the write decided on what was read, the transaction that         *)
(* persists the turn, and the one that stores the AI's rewording.          *)
(***************************************************************************)
EXTENDS Integers, FiniteSets

CONSTANTS
  Call,         (* HTTP calls with this session and request_id             *)
  Fingerprint,  (* request fingerprints                                    *)
  FpOf,         (* build_request_fingerprint of each call                  *)
  None,         (* no payload, no fingerprint, no answer yet               *)
  MaxExpiries   (* bound: times the processing timeout passes              *)

(* A "fallback" is the draft with observability added that the row lacks. *)
Payload == [by : Call, kind : {"draft", "refined", "blocked", "fallback"}]

ASSUME ChatAssumption ==
  /\ FpOf \in [Call -> Fingerprint]
  /\ None \notin Fingerprint \cup Payload
  /\ MaxExpiries \in Nat

VARIABLES
  row,          (* ChatRequest.status, or "absent"                         *)
  fingerprint,  (* request_fingerprint of the row                          *)
  response,     (* response_payload: whose reply, and which version of it  *)
  stale,        (* updated_at <= now - LIVIA_CHAT_PROCESSING_TIMEOUT       *)
  pc,           (* where chat_api stands in each call                      *)
  seen,         (* the row as reserve_chat_request read it                 *)
  unchanged,    (* updated_at is still what the call read                  *)
  message,      (* the assistant Message each call's turn left, if any     *)
  answer,       (* what the caller was told                                *)
  (* History, read by properties only: *)
  expiries,     (* times the timeout passed                                *)
  takeovers     (* abandoned processing rows taken over                    *)

rowVars == <<row, fingerprint, response, stale, unchanged>>
vars == <<rowVars, pc, seen, message, answer, expiries, takeovers>>

Error == [error : {"conflict", "in_progress", "failed", "unexpected"}]
Reply(c, kind) == [by |-> c, kind |-> kind]

(* The calls whose turn (user message, assistant message, lead, handoff    *)
(* and outbox effects) is committed.                                       *)
Turns == {c \in Call : message[c] # "none"}

(* A save of the row: a new updated_at. *)
Touch ==
  /\ stale' = FALSE
  /\ unchanged' = [c \in Call |-> FALSE]

Finish(c, what) ==
  /\ pc' = [pc EXCEPT ![c] = "done"]
  /\ answer' = [answer EXCEPT ![c] = what]

(* Mutations: a replay before the fingerprint is compared; a failure       *)
(* retried however recent; a rewording stored in the row only.             *)
SameMessageAny(c) == TRUE
FailureExpiredAny(c) == TRUE
RewordedNot(c) == message

(* The WHERE of the takeover's UPDATE: status and updated_at as read. *)
SameAsRead(c) == row = "processing" /\ unchanged[c]

SameMessage(c) == FpOf[c] = seen[c].fingerprint

FailureExpired(c) == seen[c].stale

Reworded(c) == [message EXCEPT ![c] = "refined"]

-----------------------------------------------------------------------------
Init ==
  /\ row = "absent"
  /\ fingerprint = None
  /\ response = None
  /\ stale = FALSE
  /\ pc = [c \in Call |-> "new"]
  /\ seen = [c \in Call |-> [status |-> "absent", fingerprint |-> None,
                             response |-> None, stale |-> FALSE]]
  /\ unchanged = [c \in Call |-> FALSE]
  /\ message = [c \in Call |-> "none"]
  /\ answer = [c \in Call |-> None]
  /\ expiries = 0
  /\ takeovers = 0

(* The INSERT goes through: the unique constraint makes it the only one.   *)
Reserve(c) ==
  /\ pc[c] = "new"
  /\ row = "absent"
  /\ row' = "processing"
  /\ fingerprint' = FpOf[c]
  /\ Touch
  /\ pc' = [pc EXCEPT ![c] = "process"]
  /\ UNCHANGED <<response, seen, message, answer, expiries, takeovers>>

(* IntegrityError: the existing row is read, its lock released at once. *)
ReadExisting(c) ==
  /\ pc[c] = "new"
  /\ row # "absent"
  /\ seen' = [seen EXCEPT ![c] = [status |-> row, fingerprint |-> fingerprint,
                                  response |-> response, stale |-> stale]]
  /\ unchanged' = [unchanged EXCEPT ![c] = TRUE]
  /\ pc' = [pc EXCEPT ![c] = "decide"]
  /\ UNCHANGED <<row, fingerprint, response, stale, message, answer, expiries, takeovers>>

(* The answers that need no write, from the row as it was read. *)
AnswerAtOnce(c) ==
  /\ pc[c] = "decide"
  /\ \/ /\ ~SameMessage(c)
        /\ Finish(c, [error |-> "conflict"])
     \/ /\ SameMessage(c)
        /\ seen[c].status = "completed"
        /\ Finish(c, seen[c].response)
     \/ /\ SameMessage(c)
        /\ seen[c].status = "processing"
        /\ seen[c].stale => ~SameAsRead(c)
        /\ Finish(c, [error |-> "in_progress"])
     \/ /\ SameMessage(c)
        /\ seen[c].status = "failed"
        /\ ~FailureExpired(c)
        /\ Finish(c, [error |-> "failed"])
  /\ UNCHANGED <<rowVars, seen, message, expiries, takeovers>>

(* An abandoned processing row is taken over by compare-and-set. *)
TakeOver(c) ==
  /\ pc[c] = "decide"
  /\ SameMessage(c)
  /\ seen[c].status = "processing"
  /\ seen[c].stale
  /\ SameAsRead(c)
  /\ Touch
  /\ takeovers' = takeovers + 1
  /\ pc' = [pc EXCEPT ![c] = "process"]
  /\ UNCHANGED <<row, fingerprint, response, seen, message, answer, expiries>>

(* A failure that has aged is processed again: a plain save, whatever the  *)
(* row has become since it was read.                                       *)
RetryFailed(c) ==
  /\ pc[c] = "decide"
  /\ SameMessage(c)
  /\ seen[c].status = "failed"
  /\ FailureExpired(c)
  /\ row' = "processing"
  /\ response' = None
  /\ Touch
  /\ pc' = [pc EXCEPT ![c] = "process"]
  /\ UNCHANGED <<fingerprint, seen, message, answer, expiries, takeovers>>

(* Rate limit or spam guard: the refusal completes the request. *)
Block(c) ==
  /\ pc[c] = "process"
  /\ row' = "completed"
  /\ response' = Reply(c, "blocked")
  /\ Touch
  /\ Finish(c, Reply(c, "blocked"))
  /\ UNCHANGED <<fingerprint, seen, message, expiries, takeovers>>

(* _persist_chat_processing_state: the turn and complete_chat_request in   *)
(* one transaction, which never asks whose the row is by now.              *)
Persist(c) ==
  /\ pc[c] = "process"
  /\ row' = "completed"
  /\ response' = Reply(c, "draft")
  /\ message' = [message EXCEPT ![c] = "draft"]
  /\ Touch
  /\ pc' = [pc EXCEPT ![c] = "refine"]
  /\ UNCHANGED <<fingerprint, seen, answer, expiries, takeovers>>

(* The deterministic reply is the answer: as stored where the AI is not    *)
(* asked, marked with the failure where it was asked and gave nothing.     *)
KeepDraft(c) ==
  /\ pc[c] = "refine"
  /\ \/ Finish(c, Reply(c, "draft"))
     \/ Finish(c, Reply(c, "fallback"))
  /\ UNCHANGED <<rowVars, seen, message, expiries, takeovers>>

(* _apply_refined_reply: message and payload in one transaction.  The row  *)
(* keeps its status; the one consulted is the call's own copy, completed.  *)
Refine(c) ==
  /\ pc[c] = "refine"
  /\ response' = Reply(c, "refined")
  /\ message' = Reworded(c)
  /\ Touch
  /\ Finish(c, Reply(c, "refined"))
  /\ UNCHANGED <<row, fingerprint, seen, expiries, takeovers>>

(* An exception, before or after the turn was committed: fail_chat_request *)
(* saves over the status, or cannot save at all.  The caller gets a 500.   *)
Fail(c) ==
  /\ pc[c] \in {"process", "refine"}
  /\ Finish(c, [error |-> "unexpected"])
  /\ \/ row' = "failed" /\ Touch
     \/ UNCHANGED <<row, stale, unchanged>>
  /\ UNCHANGED <<fingerprint, response, seen, message, expiries, takeovers>>

(* The server process dies with the call. *)
Crash(c) ==
  /\ pc[c] \in {"decide", "process", "refine"}
  /\ Finish(c, None)
  /\ UNCHANGED <<rowVars, seen, message, expiries, takeovers>>

(* LIVIA_CHAT_PROCESSING_TIMEOUT_SECONDS pass with no save of the row.     *)
TimeoutElapses ==
  /\ row \in {"processing", "failed"}
  /\ ~stale
  /\ expiries < MaxExpiries
  /\ expiries' = expiries + 1
  /\ stale' = TRUE
  /\ UNCHANGED <<row, fingerprint, response, unchanged, pc, seen, message, answer,
                 takeovers>>

Done ==
  /\ \A c \in Call : pc[c] = "done"
  /\ UNCHANGED vars

Next ==
  \/ \E c \in Call :
       \/ Reserve(c) \/ ReadExisting(c) \/ AnswerAtOnce(c) \/ TakeOver(c)
       \/ RetryFailed(c) \/ Block(c) \/ Persist(c) \/ KeepDraft(c) \/ Refine(c)
       \/ Fail(c) \/ Crash(c)
  \/ TimeoutElapses
  \/ Done

Spec == Init /\ [][Next]_vars

-----------------------------------------------------------------------------
TypeOK ==
  /\ row \in {"absent", "processing", "completed", "failed"}
  /\ fingerprint \in Fingerprint \cup {None}
  /\ response \in Payload \cup {None}
  /\ stale \in BOOLEAN
  /\ pc \in [Call -> {"new", "decide", "process", "refine", "done"}]
  /\ seen \in [Call -> [status : {"absent", "processing", "completed", "failed"},
                        fingerprint : Fingerprint \cup {None},
                        response : Payload \cup {None}, stale : BOOLEAN]]
  /\ unchanged \in [Call -> BOOLEAN]
  /\ message \in [Call -> {"none", "draft", "refined"}]
  /\ answer \in [Call -> Payload \cup Error \cup {None}]
  /\ expiries \in 0..MaxExpiries
  /\ takeovers \in Nat

(* What a replay would return is what the conversation shows: the row's    *)
(* payload is the assistant message of a committed turn, in its current    *)
(* version, whichever calls raced to write them.                           *)
ReplayIsStored ==
  /\ row = "completed" => response # None
  /\ response # None /\ response.kind # "blocked"
       => message[response.by] = response.kind

(* The turn that a reply was worded for is committed, with that wording.   *)
Stands(reply) ==
  /\ reply.kind = "refined" => message[reply.by] = "refined"
  /\ reply.kind \in {"draft", "fallback"} => reply.by \in Turns

(* No caller is answered with a reply that no conversation holds: every    *)
(* reply handed out belongs to a turn that was committed.                  *)
AnswersAreCommitted == \A c \in Call : answer[c] \in Payload => Stands(answer[c])

(* A caller whose message differs never receives the reply to another      *)
(* message, nor does its message take the row over.                        *)
NoCrossReplay ==
  \A c \in Call :
    /\ answer[c] \in Payload => FpOf[answer[c].by] = FpOf[c]
    /\ c \in Turns => FpOf[c] = fingerprint

(* An abandoned request is taken over once for each time it timed out,     *)
(* however many calls saw it abandoned.                                    *)
TakeoverNeedsTimeout == takeovers <= expiries

(* Whose processing reached a caller or the conversation. *)
Heard == Turns \cup {answer[c].by : c \in {d \in Call : answer[d] \in Payload}}

(* Until the processing timeout passes once, one call alone is processed:  *)
(* its turn is the only one committed and its reply the only one that any  *)
(* caller gets, through any mix of retries, failures and crashes.          *)
NoTimeoutNoDuplicate ==
  expiries = 0 => \A c, d \in Heard : c = d
=============================================================================
