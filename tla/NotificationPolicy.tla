------------------------- MODULE NotificationPolicy -------------------------
(***************************************************************************)
(* Who is told of an operational event, and when it is kept from them:     *)
(* knowledge_base/rag/operational_notification_policy.py, for the in-app   *)
(* channel and preferences without a digest.  An event carries what its    *)
(* callback captured of the alert: the owner, the cycle (reopen_count),    *)
(* the escalation level.                                                   *)
(***************************************************************************)
EXTENDS FiniteSets, Naturals

CONSTANTS
  Member,   (* memberships of the tenant that may operate alerts             *)
  Manager,  (* those of role tenant_admin or manager                         *)
  Muted,    (* those whose preference has in_app_enabled off                 *)
  NoOne

ASSUME PolicyAssumption ==
  /\ Manager \subseteq Member /\ Muted \subseteq Member
  /\ NoOne \notin Member

OwnershipEvents == {"assigned", "transferred"}
SlaEvents == {"sla_ack", "sla_resolution"}

(* MANDATORY_IN_APP_EVENTS *)
MandatoryEvents == SlaEvents \cup {"critical_created", "escalated", "owner_invalidated"}

EventType == OwnershipEvents \cup MandatoryEvents
             \cup {"acknowledged", "resolved", "reopened"}

(* Mutation: a key without the alert's cycle. *)
KeyNoCycle(e, m) == <<m, e.type, e.alert, e.level>>

(* build_deduplication_key: unique in TenantOperationalNotification. *)
Key(e, m) == <<m, e.type, e.alert, e.cycle, e.level>>

(* resolve_recipients, among the active members; "urgent" is an            *)
(* operational priority of P1 or P2.                                       *)
Recipients(e, active, urgent) ==
  LET owner == {e.owner} \cap active
  IN CASE e.type \in OwnershipEvents -> {e.to} \cap active
       [] e.type = "resolved" -> owner
       [] e.type = "acknowledged" /\ e.owner # NoOne -> owner
       [] e.type \in {"escalated", "owner_invalidated"} -> (Manager \cap active) \cup owner
       [] e.type \in SlaEvents \cup {"critical_created", "reopened"} ->
            IF owner # {} THEN owner ELSE IF urgent THEN active ELSE Manager \cap active
       [] OTHER -> Manager \cap active

(* evaluate_notification_policy: is member m notified at once? *)
Notified(e, m, silenced, maintained) ==
  \/ e.type \in MandatoryEvents
  \/ ~silenced /\ ~maintained /\ m \notin Muted
=============================================================================
