---------------------------- MODULE ApiSurfaces ----------------------------
(***************************************************************************)
(* The two surfaces of the server: REST (qfc-server-wallet/src/api) and    *)
(* gRPC (src/grpc) with its client SDK (clients/wallet-grpc-rs).  A        *)
(* message is a table: field -> how its value is written or read.  A body  *)
(* is what a caller wants to say; each surface carries it in its own way   *)
(* and hands the service a call, or refuses.                               *)
(*                                                                         *)
(* An optional value is <<>> or <<v>>; a read gives <<>> (refused) or      *)
(* <<v>>.  A string that is no id, name or path is "garbled".              *)
(***************************************************************************)
EXTENDS Naturals, Sequences, SequencesExt, TLC

CONSTANTS
  HashLen,        \* bytes of a message hash: 32
  DefaultLimit,   \* audit events returned when no limit is given: 100
  LimitCap        \* and at most: 1000

VARIABLE exchange \* what one caller asked over both surfaces, and what came of it
-----------------------------------------------------------------------------
(* Values and their text forms *)

SchemeNames == <<"Ed25519", "Secp256k1", "Secp256k1Recoverable", "MlDsa44", "MlDsa65", "MlDsa87">>
HashAlgNames == <<"None", "Sha256", "Keccak256", "Blake3">>
VmTypeNames == <<"Evm", "Qvm", "Wasm">>
DecisionNames == <<"Approve", "Reject">>
NamesOf == [scheme |-> SchemeNames, hash_alg |-> HashAlgNames, vm |-> VmTypeNames,
            decision |-> DecisionNames]

\* hex::encode and hex::decode; a digit of 16 is a character that is none.
hex_encode(bytes) ==
  [i \in 1..(2 * Len(bytes)) |->
     IF i % 2 = 1 THEN bytes[(i + 1) \div 2] \div 16 ELSE bytes[i \div 2] % 16]
hex_decode(text) ==
  IF Len(text) % 2 = 0 /\ \A i \in DOMAIN text : text[i] < 16
  THEN <<[i \in 1..(Len(text) \div 2) |-> 16 * text[2 * i - 1] + text[2 * i]]>>
  ELSE <<>>

parse_ulid(s) == IF s \in {"garbled", ""} THEN <<>> ELSE <<s>>
parse_hd_path(s) == IF s \in {"garbled", ""} THEN <<>> ELSE <<s>>
require_32_bytes(b) == IF Len(b) = HashLen THEN <<b>> ELSE <<>>
u8_of(n) == IF n <= 255 THEN <<n>> ELSE <<>>
parse_members(ss) == IF \E i \in DOMAIN ss : parse_ulid(ss[i]) = <<>> THEN <<>> ELSE <<ss>>

\* prost's i32 of an enum: 0 is Unspecified, an unknown name is out of range.
enum_number(names, name) ==
  IF \E i \in DOMAIN names : names[i] = name
  THEN CHOOSE i \in DOMAIN names : names[i] = name
  ELSE IF name = "Unspecified" THEN 0 ELSE Len(names) + 1
enum_from_i32(names, n) == IF n \in DOMAIN names THEN <<names[n]>> ELSE <<>>
enum_from_name(names, name) == enum_from_i32(names, enum_number(names, name))

\* An optional field: read is what its text reads as, when there is one.
Then(option, read) == IF option = <<>> THEN <<<<>>>> ELSE IF read = <<>> THEN <<>> ELSE <<read>>
-----------------------------------------------------------------------------
(* REST: api/schemas.rs *)

CreateWalletRequest ==
  [scheme |-> "scheme", threshold |-> "u8", total |-> "u8", display_name |-> "plain",
   owner_id |-> "plain", policy_id |-> "ulid_or_fresh"]
RequesterDto ==
  [ApiKey |-> [key_id |-> "plain"], OauthSubject |-> [sub |-> "plain"],
   NestedWallet |-> [requester_wallet |-> "ulid"],
   OnChainContract |-> [requester_chain |-> "plain", requester_address |-> "hex"]]
SigningPayloadDto ==
  [Raw |-> [bytes |-> "hex"], PersonalSign |-> [bytes |-> "hex"],
   TypedData |-> [json |-> "plain"],
   VmTransaction |-> [vm |-> "vm", chain_id |-> "plain", to |-> "hex_opt", raw |-> "hex"]]
SigningContextDto == [context_chain |-> "plain", context_vm |-> "plain", extra |-> "plain"]
SignRequest == [hd_path |-> "path_opt", hash_alg |-> "hash_alg"]
ApproverIdentityDto ==
  LET key == [public_key |-> "hex", scheme |-> "scheme"] IN
  [Chain |-> key @@ [identity_chain |-> "plain", address |-> "hex"],
   External |-> key @@ [id |-> "plain"],
   Hardware |-> key @@ [handle |-> "plain"],
   NestedWallet |-> key @@ [wallet_id |-> "ulid"]]
CreateApproverRequest == [label |-> "plain", owner_id |-> "plain", webhook_url |-> "plain"]
CreateApproverSetRequest ==
  [name |-> "plain", owner_id |-> "plain", members |-> "members", threshold |-> "u8",
   total |-> "u8", quorum_timeout_secs |-> "plain"]
SubmitApprovalRequest ==
  [request_id |-> "ulid", approver_id |-> "ulid", approval_id |-> "ulid",
   decision |-> "decision", signature |-> "hex", timestamp_unix_ms |-> "plain",
   message_hash |-> "hash"]
AuditEventsQuery == [wallet_filter |-> "ulid_opt", limit |-> "limit"]

HttpRead(kind, w) ==
  CASE kind \in DOMAIN NamesOf -> enum_from_name(NamesOf[kind], w)
    [] kind = "u8" -> u8_of(w)
    [] kind = "ulid" -> parse_ulid(w)
    [] kind = "members" -> parse_members(w)
    [] kind = "hex" -> hex_decode(w)
    [] kind = "hex_opt" -> Then(w, hex_decode(w[1]))
    [] kind = "hash" -> IF hex_decode(w) = <<>> THEN <<>> ELSE require_32_bytes(hex_decode(w)[1])
    [] kind = "path_opt" -> Then(w, parse_hd_path(w[1]))
    [] kind = "ulid_opt" -> Then(w, parse_ulid(w[1]))
    [] kind = "ulid_or_fresh" -> IF w = <<>> THEN <<"fresh">> ELSE parse_ulid(w[1])
    [] kind = "limit" -> <<IF w = <<>> THEN DefaultLimit ELSE IF w[1] < LimitCap THEN w[1] ELSE LimitCap>>
    [] kind = "plain" -> <<w>>

\* A REST client writes bytes as hex.
HttpWrite(kind, v) ==
  CASE kind \in {"hex", "hash"} -> hex_encode(v)
    [] kind = "hex_opt" -> IF v = <<>> THEN <<>> ELSE <<hex_encode(v[1])>>
    [] OTHER -> v
-----------------------------------------------------------------------------
(* gRPC: grpc/convert.rs, grpc/wallet.rs, grpc/approver.rs *)

lower_create_wallet ==
  [scheme |-> "scheme", threshold |-> "u8", total |-> "u8", display_name |-> "plain",
   owner_id |-> "plain", policy_id |-> "ulid_or_fresh"]
lower_requester ==
  [ApiKey |-> [key_id |-> "plain"], OauthSubject |-> [sub |-> "plain"],
   NestedWallet |-> [requester_wallet |-> "ulid"],
   OnChainContract |-> [requester_chain |-> "plain", requester_address |-> "plain"]]
lower_payload ==
  [Raw |-> [bytes |-> "plain"], PersonalSign |-> [bytes |-> "plain"],
   TypedData |-> [json |-> "json_text"],
   VmTransaction |-> [vm |-> "vm", chain_id |-> "plain", to |-> "plain", raw |-> "plain"]]
lower_context == [context_chain |-> "plain", context_vm |-> "plain", extra |-> "json_or_null"]
lower_sign == [hd_path |-> "path_or_none", hash_alg |-> "hash_alg"]
lower_approver_identity ==
  LET key == [public_key |-> "plain", scheme |-> "scheme"] IN
  [Chain |-> key @@ [identity_chain |-> "plain", address |-> "plain"],
   External |-> key @@ [id |-> "plain"],
   Hardware |-> key @@ [handle |-> "plain"],
   NestedWallet |-> key @@ [wallet_id |-> "ulid"]]
register_approver == [label |-> "plain", owner_id |-> "plain", webhook_url |-> "text_or_none"]
lower_create_approver_set ==
  [name |-> "plain", owner_id |-> "plain", members |-> "members", threshold |-> "u8",
   total |-> "u8", quorum_timeout_secs |-> "nonzero_or_none"]
lower_submit_approval ==
  [request_id |-> "ulid", approver_id |-> "ulid", approval_id |-> "ulid",
   decision |-> "decision", signature |-> "plain", timestamp_unix_ms |-> "plain",
   message_hash |-> "hash"]
get_audit_events == [wallet_filter |-> "ulid_or_none", limit |-> "limit"]

GrpcRead(kind, w) ==
  CASE kind \in DOMAIN NamesOf -> enum_from_i32(NamesOf[kind], w)
    [] kind = "u8" -> u8_of(w)
    [] kind = "ulid" -> parse_ulid(w)
    [] kind = "members" -> parse_members(w)
    [] kind = "hash" -> require_32_bytes(w)
    [] kind = "json_text" -> w
    [] kind = "json_or_null" -> IF w = <<>> THEN <<"Null">> ELSE w
    [] kind = "path_or_none" -> IF w = "" THEN <<<<>>>> ELSE Then(<<w>>, parse_hd_path(w))
    [] kind = "ulid_or_none" -> IF w = "" THEN <<<<>>>> ELSE Then(<<w>>, parse_ulid(w))
    [] kind = "ulid_or_fresh" -> IF w = "" THEN <<"fresh">> ELSE parse_ulid(w)
    [] kind = "text_or_none" -> IF w = "" THEN <<<<>>>> ELSE <<<<w>>>>
    [] kind = "nonzero_or_none" -> IF w = 0 THEN <<<<>>>> ELSE <<<<w>>>>
    [] kind = "limit" ->
         LET raw == IF w = 0 THEN DefaultLimit ELSE w IN <<IF raw < LimitCap THEN raw ELSE LimitCap>>
    [] kind = "plain" -> <<w>>
-----------------------------------------------------------------------------
(* The SDK: convert.rs, client.rs.  Identities, requesters, payloads and      *)
(* contexts are the proto types themselves.                                   *)

CreateWalletParams == [scheme |-> "number", policy_id |-> "or_default"]
SignParams == [hash_alg |-> "number", hd_path |-> "or_default", vm |-> "number", json |-> "text",
               extra |-> "text_unless_null"]
RegisterApproverParams == [scheme |-> "number", webhook_url |-> "or_default"]
CreateApproverSetParams == [quorum_timeout_secs |-> "or_zero"]
SubmitApprovalParams == [decision |-> "number", scheme |-> "number"]
AuditEventsParams == [wallet_filter |-> "or_default", limit |-> "or_zero"]

SdkWrite(how, kind, v) ==
  CASE how = "number" -> enum_number(NamesOf[kind], v)
    [] how = "or_default" -> IF v = <<>> THEN "" ELSE v[1]
    [] how = "or_zero" -> IF v = <<>> THEN 0 ELSE v[1]
    [] how = "text" -> <<v>>
    [] how = "text_unless_null" -> IF v = "Null" THEN <<>> ELSE <<v>>
    [] how = "as_is" -> v

\* SubmitApprovalParams::validate, before anything is sent.
validate_submission(body) == Len(body.message_hash) = HashLen /\ body.signature # <<>>
-----------------------------------------------------------------------------
(* What the surfaces show of a stored record *)

WalletView == [scheme |-> "name", master_public_key |-> "hex", policy_id |-> "same"]
raise_wallet_view == [scheme |-> "number", master_public_key |-> "same", policy_id |-> "same"]
ApproverView == [scheme |-> "name", public_key |-> "hex", address |-> "hex", webhook_url |-> "same"]
raise_approver_record ==
  [scheme |-> "number", public_key |-> "same", address |-> "same", webhook_url |-> "or_default"]
ApproverSetView == [members |-> "same", quorum_timeout_secs |-> "same"]
raise_approver_set == [members |-> "same", quorum_timeout_secs |-> "or_zero"]
ApprovalView ==
  [decision |-> "name", message_hash |-> "hex", signature |-> "hex", scheme |-> "name",
   public_key |-> "hex", address |-> "hex"]
raise_signed_approval ==
  [decision |-> "number", message_hash |-> "same", signature |-> "same", scheme |-> "number",
   public_key |-> "same", address |-> "same"]

Show(how, kind, v) ==
  CASE how = "hex" -> hex_encode(v)
    [] how = "number" -> enum_number(NamesOf[kind], v)
    [] how = "or_default" -> IF v = <<>> THEN "" ELSE v[1]
    [] how = "or_zero" -> IF v = <<>> THEN 0 ELSE v[1]
    [] how \in {"same", "name"} -> v

\* What the reader of a view makes of a field.
ReadBack(how, kind, w) ==
  CASE how = "hex" -> hex_decode(w)
    [] how = "number" -> enum_from_i32(NamesOf[kind], w)
    [] how = "or_default" -> IF w = "" THEN <<<<>>>> ELSE <<<<w>>>>
    [] how = "or_zero" -> IF w = 0 THEN <<<<>>>> ELSE <<<<w>>>>
    [] how \in {"same", "name"} -> <<w>>
-----------------------------------------------------------------------------
(* Operations and bodies *)

NoView == [none \in {} |-> "same"]

\* What the two surfaces read and show in each operation.
create_wallet ==
  {[op |-> "create_wallet", http |-> CreateWalletRequest, grpc |-> lower_create_wallet,
    sdk |-> CreateWalletParams, httpView |-> WalletView, grpcView |-> raise_wallet_view]}
create_approver_set ==
  {[op |-> "create_approver_set", http |-> CreateApproverSetRequest,
    grpc |-> lower_create_approver_set, sdk |-> CreateApproverSetParams,
    httpView |-> ApproverSetView, grpcView |-> raise_approver_set]}
list_audit_events ==
  {[op |-> "audit_events", http |-> AuditEventsQuery, grpc |-> get_audit_events,
    sdk |-> AuditEventsParams, httpView |-> NoView, grpcView |-> NoView]}
create_approver ==
  {[op |-> "create_approver", http |-> CreateApproverRequest @@ ApproverIdentityDto[i],
    grpc |-> register_approver @@ lower_approver_identity[i], sdk |-> RegisterApproverParams,
    httpView |-> ApproverView, grpcView |-> raise_approver_record] :
     i \in DOMAIN ApproverIdentityDto}
submit_approval ==
  {[op |-> "submit_approval", http |-> SubmitApprovalRequest @@ ApproverIdentityDto[i],
    grpc |-> lower_submit_approval @@ lower_approver_identity[i], sdk |-> SubmitApprovalParams,
    httpView |-> ApprovalView, grpcView |-> raise_signed_approval] :
     i \in DOMAIN ApproverIdentityDto}
sign ==
  {[op |-> "sign", sdk |-> SignParams, httpView |-> NoView, grpcView |-> NoView,
    http |-> SignRequest @@ SigningContextDto @@ RequesterDto[r] @@ SigningPayloadDto[p],
    grpc |-> lower_sign @@ lower_context @@ lower_requester[r] @@ lower_payload[p]] :
     r \in DOMAIN RequesterDto, p \in DOMAIN SigningPayloadDto}

router ==
  create_wallet \cup create_approver_set \cup list_audit_events \cup create_approver
    \cup submit_approval \cup sign

\* Bound: what a caller may put in a field, the first one always being sound.
SomeBytes == <<171, 5>>
Values(f, kind) ==
  CASE kind \in DOMAIN NamesOf -> Append(NamesOf[kind], "Unspecified") \o <<"Unknown">>
    [] kind = "u8" -> <<2, 0, 255, 256>>
    [] kind = "ulid" -> <<"ULID", "garbled", "">>
    [] kind = "members" -> <<<<"ULID", "ULID2">>, <<>>, <<"ULID", "garbled">>>>
    [] kind = "hex" -> <<SomeBytes, <<>>>>
    [] kind = "hex_opt" -> <<<<SomeBytes>>, <<>>, <<<<>>>>>>
    [] kind = "hash" -> <<[i \in 1..HashLen |-> 16 * i + 1], SomeBytes \o SomeBytes, <<>>>>
    [] kind = "path_opt" -> <<<<"m/0">>, <<>>, <<"garbled">>, <<"">>>>
    [] kind \in {"ulid_opt", "ulid_or_fresh"} -> <<<<"ULID">>, <<>>, <<"garbled">>, <<"">>>>
    [] kind = "limit" -> <<<<1>>, <<>>, <<LimitCap + 1>>, <<0>>>>
    [] f = "webhook_url" -> <<<<"url">>, <<>>, <<"">>>>
    [] f = "quorum_timeout_secs" -> <<<<7>>, <<>>, <<0>>>>
    [] f \in {"extra", "json"} -> <<"object", "Null">>
    [] OTHER -> <<"value", "">>

\* Bound: all fields sound but up to two.
Bodies(http) ==
  LET sound == [f \in DOMAIN http |-> Values(f, http[f])[1]] IN
  UNION {UNION {{[sound EXCEPT ![f] = v, ![g] = w] : v \in Range(Values(f, http[f])),
                                                     w \in Range(Values(g, http[g]))} :
                g \in DOMAIN http} : f \in DOMAIN http}

\* A handler reads every field and passes the call to the service, or refuses.
Lowered(read) ==
  IF \E f \in DOMAIN read : read[f] = <<>> THEN <<>> ELSE <<[f \in DOMAIN read |-> read[f][1]]>>

HttpCall(o, body) ==
  Lowered([f \in DOMAIN o.http |-> HttpRead(o.http[f], HttpWrite(o.http[f], body[f]))])

How(o, f) == IF f \in DOMAIN o.sdk THEN o.sdk[f] ELSE "as_is"

GrpcCall(o, body) ==
  IF o.op = "submit_approval" /\ ~ validate_submission(body) THEN <<>> ELSE
  Lowered([f \in DOMAIN o.grpc |->
             GrpcRead(o.grpc[f], SdkWrite(How(o, f), o.http[f], body[f]))])

Record(call) == call @@ [master_public_key |-> SomeBytes]

\* The record as the reader of a view has it; kinds are those of the operation.
Shown(o, view, record) ==
  [f \in DOMAIN view \cap DOMAIN record |->
     LET kind == IF f \in DOMAIN o.http THEN o.http[f] ELSE "hex" IN
     ReadBack(view[f], kind, Show(view[f], kind, record[f]))]
-----------------------------------------------------------------------------
(* Failures of the service *)

QuorumErrors == {"Transport", "Duplicate", "Timeout", "InvalidApproval", "UnknownApprover"}
BackendErrors == {"Policy", "Enclave", "Store", "Audit", "InsufficientShares", "Internal"}
RegistryErrors ==
  {"ApproverNotFound", "ApproverSetNotFound", "UnknownMember", "RevokedMember",
   "MemberCountMismatch", "InvalidThreshold", "DuplicateMember", "NestingCycle",
   "NestingTooDeep", "Io"}

\* From<ServiceError> for ApiError.  A Duplicate is a Transport error whose text
\* says "duplicate approval".
from_service_error(e) ==
  CASE e = "WalletNotFound" -> 404
    [] e = "PolicyDenied" -> 403
    [] e \in QuorumErrors -> 409
    [] e \in BackendErrors -> 500

map_submit_err(e) ==
  CASE e = "InvalidApproval" -> 422
    [] e = "UnknownApprover" -> 404
    [] e = "Duplicate" -> 409
    [] e = "Transport" -> 500
    [] OTHER -> from_service_error(e)

map_registry_err(e) ==
  CASE e \in {"ApproverNotFound", "ApproverSetNotFound"} -> 404
    [] e = "Io" -> 500
    [] OTHER -> 422

map_service_error(e) ==
  CASE e = "WalletNotFound" -> "NotFound"
    [] e = "PolicyDenied" -> "PermissionDenied"
    [] e = "InvalidApproval" -> "FailedPrecondition"
    [] e = "UnknownApprover" -> "NotFound"
    [] e = "Duplicate" -> "AlreadyExists"
    [] e = "Transport" -> "Internal"
    [] e = "Timeout" -> "Aborted"
    [] e \in BackendErrors -> "Internal"

map_registry_error(e) ==
  CASE e \in {"ApproverNotFound", "ApproverSetNotFound"} -> "NotFound"
    [] e = "Io" -> "Internal"
    [] OTHER -> "FailedPrecondition"

\* The status-code table of docs/grpc-api.md.
HttpOfCode ==
  [InvalidArgument |-> 400, Unauthenticated |-> 401, PermissionDenied |-> 403, NotFound |-> 404,
   Aborted |-> 409, AlreadyExists |-> 409, FailedPrecondition |-> 422, Internal |-> 500]

Failures ==
  LET wallet == {"WalletNotFound", "PolicyDenied"} \cup QuorumErrors \cup BackendErrors IN
  {[op |-> "sign", error |-> e, http |-> from_service_error(e), grpc |-> map_service_error(e)] :
     e \in wallet}
  \cup
  {[op |-> "submit_approval", error |-> e, http |-> map_submit_err(e),
    grpc |-> map_service_error(e)] : e \in wallet}
  \cup
  {[op |-> "registry", error |-> e, http |-> map_registry_err(e), grpc |-> map_registry_error(e)] :
     e \in RegistryErrors}
-----------------------------------------------------------------------------
(* API keys: api/auth.rs, grpc/auth.rs and the SDK's interceptor *)

\* A configured token is a text with or without blanks around it.
Tokens == [text : {"", "k1", "k2"}, padded : BOOLEAN]

\* Mutant: blank entries of the list are kept.
KeepBlankKeys(raw) == {raw[i].text : i \in DOMAIN raw}

load_api_keys(raw) == {raw[i].text : i \in DOMAIN raw} \ {""}

is_allowed(keys, presented) == presented \in keys

\* header: <<>> when missing.
require_api_key(keys, header) == header # <<>> /\ is_allowed(keys, header[1])

\* The SDK always sends the header, empty when no key was set.
ApiKeyInterceptor(key) == <<IF key = <<>> THEN "" ELSE key[1]>>
check(keys, metadata) == metadata # <<>> /\ is_allowed(keys, metadata[1])
-----------------------------------------------------------------------------
(* Reading the audit file *)

\* A line is blank, torn, or an event that may name a wallet.
Lines == {"blank", "torn", "no_wallet", "ULID", "ULID2"}

read_audit_events(lines, filter, limit) ==
  LET Kept(line) == line # "blank" /\ (filter # <<>> => line = filter[1])
      events == SelectSeq(lines, Kept)
  IN IF "torn" \in Range(lines) THEN <<>>
     ELSE <<SubSeq(events, 1 + (IF Len(events) > limit THEN Len(events) - limit ELSE 0), Len(events))>>

AuditAnswer(call, lines) ==
  IF call = <<>> THEN <<>> ELSE read_audit_events(lines, call[1].wallet_filter, call[1].limit)
-----------------------------------------------------------------------------
(* One exchange at a time *)

SurfaceInit == exchange = [op |-> "none"]

Request ==
  \E o \in router : \E body \in Bodies(o.http) :
    exchange' = [op |-> "request", about |-> o, body |-> body,
                 http |-> HttpCall(o, body), grpc |-> GrpcCall(o, body)]

Fail == \E failure \in Failures : exchange' = [op |-> "failure", answer |-> failure]

Authenticate ==
  \E raw \in BoundedSeq(Tokens, 2), key \in {<<>>, <<"">>, <<"k1">>} :
    exchange' = [op |-> "auth", key |-> key,
                 http |-> require_api_key(load_api_keys(raw), key),
                 grpc |-> check(load_api_keys(raw), ApiKeyInterceptor(key))]

SurfaceNext == exchange.op = "none" /\ (Request \/ Fail \/ Authenticate)

SurfaceSpec == SurfaceInit /\ [][SurfaceNext]_exchange
-----------------------------------------------------------------------------
(* Properties *)

\* The empty string or zero that a proto3 message uses for "not given", given
\* explicitly, and the empty signature that only the SDK refuses.
Sentinel(o, f, v) ==
  CASE f \in {"policy_id", "wallet_filter", "hd_path", "webhook_url"} -> v = <<"">>
    [] f \in {"quorum_timeout_secs", "limit"} -> v = <<0>>
    [] f = "signature" -> o.op = "submit_approval" /\ v = <<>>
    [] OTHER -> FALSE

\* Both surfaces mean the same.  For one request they hand the service the same
\* call or both refuse, exactly unless an optional field explicitly holds the
\* value the wire format uses for its absence; what was stored is read back
\* unchanged over either surface; the same key opens both, and no key opens
\* neither; and a failure has the documented pair of status codes, except that a
\* quorum failure of a sign call is always 409 over REST while gRPC tells its
\* causes apart.
SurfacesAgree ==
  CASE exchange.op = "request" ->
         LET o == exchange.about
             given == \E f \in DOMAIN exchange.body : Sentinel(o, f, exchange.body[f])
         IN /\ exchange.http # <<>> \/ exchange.grpc # <<>> =>
                 (exchange.http = exchange.grpc <=> ~ given)
            /\ exchange.http # <<>> /\ ~ given =>
                 LET record == Record(exchange.http[1]) IN
                 \A view \in {o.httpView, o.grpcView} :
                   LET shown == Shown(o, view, record) IN
                   \A f \in DOMAIN shown : shown[f] = <<record[f]>>
            /\ o.op = "audit_events" /\ ~ given =>
                 \A lines \in BoundedSeq(Lines, 3) :
                   AuditAnswer(exchange.http, lines) = AuditAnswer(exchange.grpc, lines)
    [] exchange.op = "failure" ->
         LET a == exchange.answer IN
         (a.http = HttpOfCode[a.grpc]) <=>
           ~ (a.op = "sign" /\ a.error \in {"InvalidApproval", "UnknownApprover", "Transport"})
    [] exchange.op = "auth" ->
         exchange.http = exchange.grpc /\ (exchange.key = <<>> => ~ exchange.http)
    [] OTHER -> TRUE
=============================================================================
