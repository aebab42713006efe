------------------------------ MODULE Indexes ------------------------------
(***************************************************************************)
(* The indexes this repository creates, by whom and in which order: those  *)
(* of ensureIndexes (src/db/indexes.ts), which every process runs when it  *)
(* first asks for the database, and those of the five migrations, which    *)
(* `npm run migrate:up` runs.  The first writes snake_case fields, most of *)
(* the others camelCase ones, under the same index names.                  *)
(*                                                                         *)
(* The option of an index is the one rules are about: "unique", "ttl" or   *)
(* "plain"; sparse and the seconds of a TTL never differ between two lists *)
(* for one name.  Validators (collMod, always in a try, with action warn   *)
(* in the migrations) are left out.                                        *)
(***************************************************************************)
EXTENDS Naturals, Sequences

Index(c, key, opt, name) == [coll |-> c, key |-> key, opt |-> opt, name |-> name]

\* A step of a script: what it does, to which index, and how many of the
\* steps after it a failure skips; Throws ends the script.
Throws == 99
Make(i, skip) == [do |-> "create", index |-> i, skip |-> skip]
Drop(i, skip) == [do |-> "drop", index |-> i, skip |-> skip]
DropAll(c)    == [do |-> "dropAll", index |-> Index(c, "", "", ""), skip |-> 0]

Strict(list)  == [k \in DOMAIN list |-> Make(list[k], Throws)]
Lenient(list) == [k \in DOMAIN list |-> Make(list[k], 0)]

\* Indexes that several lists agree on.
ProcessedId   == Index("processed_events", "internal_event_id", "unique", "uniq_internal_event_id")
OtpId         == Index("otps", "otp_id", "unique", "uniq_otp_id")
AuditLookup   == Index("audit_logs", "event,user,action,at", "plain", "audit_lookup")
MessagesTo    == Index("messages", "to,channel,created_at", "plain", "messages_to_channel")
MessagesState == Index("messages", "status,created_at", "plain", "messages_status")
BlockedIp     == Index("blocked_ips", "ip", "unique", "uniq_ip")
RefundId      == Index("refunds", "refund_id", "unique", "uniq_refund_id")
RefundsState  == Index("refunds", "status,created_at", "plain", "refunds_status_created_at")
ReplayKey     == Index("signature_replays", "key", "unique", "uniq_signature_replay_key")
RateLookup    == Index("audit_rate_limits", "ip,type,start", "plain", "audit_rate_limit_lookup")
FlowIndexes   == << Index("flow_executions", "flow_id", "plain", "idx_flow_id"),
                    Index("flow_executions", "execution_id", "unique", "uniq_execution_id"),
                    Index("flow_executions", "status,started_at", "plain", "idx_flow_status_started") >>
UserId        == Index("users", "user_id", "unique", "uniq_user_id")
UserEmail     == Index("users", "email", "unique", "uniq_email")
UserPhone     == Index("users", "phone", "unique", "uniq_phone")
IdemKey       == Index("idempotency_keys", "key", "unique", "uniq_idempotency_key")

\* TTL indexes, on the snake_case field or on the camelCase one.
Ttl(c, name, key) == Index(c, key, "ttl", name)
ProcessedTtl(key) == Ttl("processed_events", "ttl_processed_events_72h", key)
IdemTtl(key)      == Ttl("idempotency_keys", "ttl_idempotency_keys", key)
OtpTtl(key)       == Ttl("otps", "ttl_otps", key)
ReplayTtl(key)    == Ttl("signature_replays", "ttl_signature_replays", key)
RateTtl(key)      == Ttl("audit_rate_limits", "ttl_audit_rate_limits", key)
ProcessedExpires  == Ttl("processed_events", "ttl_processed_events_expiresAt", "expiresAt")

EnsureIndexes ==
  << ProcessedId, ProcessedTtl("created_at"),
     Ttl("processed_events", "ttl_processed_events_expires_at", "expires_at"),
     IdemKey, IdemTtl("expires_at"), OtpId, OtpTtl("expires_at"), AuditLookup,
     MessagesTo, MessagesState, BlockedIp, RefundId, RefundsState,
     ReplayKey, ReplayTtl("expires_at"), RateLookup, RateTtl("expires_at") >>
  \o FlowIndexes \o << UserId, UserEmail, UserPhone >>

UpCreateIndexes == Strict(
  << ProcessedId, ProcessedTtl("createdAt"), IdemKey, IdemTtl("expiresAt"),
     OtpId, OtpTtl("expiresAt"), AuditLookup,
     Index("messages", "to,channel,createdAt", "plain", "messages_to_channel"),
     Index("messages", "status,createdAt", "plain", "messages_status"),
     BlockedIp, RefundId,
     Index("refunds", "status,createdAt", "plain", "refunds_status_createdAt"),
     ReplayKey, ReplayTtl("expiresAt") >>)

DownCreateIndexes ==
  << DropAll("processed_events"), DropAll("idempotency_keys"), DropAll("otps"),
     DropAll("audit_logs"), DropAll("messages"), DropAll("blocked_ips"),
     DropAll("refunds"), DropAll("signature_replays") >>

UpAuditRateLimits == Strict(<< RateLookup, RateTtl("expiresAt") >>)

DownAuditRateLimits == << Drop(RateLookup, 1), Drop(RateTtl("expiresAt"), 0) >>

UpMissingIndexes == Lenient(
  FlowIndexes \o << UserEmail, UserPhone, UserId, RateTtl("expiresAt"), ProcessedExpires >>)

DownMissingIndexes ==
  [k \in 1..3 |-> Drop(FlowIndexes[k], 0)]
  \o << Drop(UserEmail, 0), Drop(UserPhone, 0), Drop(UserId, 0), Drop(ProcessedExpires, 0) >>

\* The conversion of idempotency_keys to a capped collection calls
\* Collection.stats(), which the driver of package-lock.json (6.21.0) no longer
\* has: for an existing collection, and the first migration has created it, the
\* block ends there with a warning and changes nothing.
UpFinalIndexes == Lenient(
  << ProcessedId, ProcessedTtl("createdAt"), ProcessedExpires, OtpId, OtpTtl("expiresAt"),
     AuditLookup, MessagesTo, MessagesState,
     Index("messages", "message_id", "unique", "uniq_message_id"),
     BlockedIp, RefundId, RefundsState, ReplayKey, ReplayTtl("expiresAt"),
     RateLookup, RateTtl("expiresAt") >>
  \o FlowIndexes \o << UserId, UserEmail, UserPhone >>)

\* The validators of the second migration touch no index, and the last rolls
\* back nothing but a backup it never made.
MigrationsUp == << UpCreateIndexes, << >>, UpAuditRateLimits, UpMissingIndexes, UpFinalIndexes >>
MigrationsDown == << DownCreateIndexes, << >>, DownAuditRateLimits, DownMissingIndexes, << >> >>

\* The scripts, of the indexes of some collections only.
Only(script, colls) == SelectSeq(script, LAMBDA s : s.index.coll \in colls)
=============================================================================
