----------------------------- MODULE CaseLedger -----------------------------
(***************************************************************************)
(* The canonical case ledger of src/case-ledger/ledger.ts for one case:    *)
(* commands of any caller, in any order, each executed as one transaction  *)
(* of the repository over the aggregate, the event log and the idempotency *)
(* records.                                                                *)
(*                                                                         *)
(* A command names the tail it was decided on, and any number of other     *)
(* commands may have been executed since; it may repeat an earlier one     *)
(* word for word, or reuse its key for something else.  An event hash is   *)
(* the event's position in the log: the chain is linear, so the hash of    *)
(* the tail and the length of the log determine each other.                *)
(***************************************************************************)
EXTENDS CaseProcedure

CONSTANTS
  Keys,          \* opaque idempotency keys
  CommandTypes,  \* the event types callers send
  MaxLog         \* bound on the length of the log; the code has none

ASSUME CommandAssumption == CommandTypes \subseteq EventType
ASSUME LogAssumption     == MaxLog \in Nat

VARIABLES
  log,           \* the events, in sequence order
  idempotency    \* for each key its record, or None

ledgerVars == <<log, idempotency>>
vars       == <<procVars, ledgerVars>>

UnsafeReasons == {"PII_OR_SECRET_REJECTED", "INVALID_EVENT_SCHEMA"}
RefusalReasons == {"CASE_ALREADY_EXISTS", "CASE_NOT_FOUND", "INVALID_TRANSITION",
  "STALE_TAIL", "APPROVAL_EXPIRED", "APPROVAL_BINDING_MISMATCH", "INVALID_AUTHORITY"}
FailureReasons == UnsafeReasons \cup RefusalReasons \cup {"IDEMPOTENCY_CONFLICT"}

(***************************************************************************)
(* Who a command says it comes from.  attested: its data name the response *)
(* the model gave (responseIdHash), or the deterministic phone bridge, of  *)
(* whichever of the two the actor is.                                      *)
(***************************************************************************)
CanonicalActor == {"PHONE_PROVIDER", "GEMINI", "POLICY_ENGINE", "RECIPIENT", "INSTITUTION",
  "X402_FACILITATOR", "SOLANA_RPC", "SUPPLIER", "CARRIER", "SYSTEM"}
CanonicalSource == {"CLAWOPS", "VERTEX_GEMINI", "DETERMINISTIC_POLICY", "DTMF",
  "VOICE_CONFIRMATION", "INSTITUTION_WORKFLOW", "X402", "SOLANA_DEVNET", "SPECIAL_OFFER",
  "CARRIER_READBACK", "RECIPIENT_PORTAL", "SYSTEM"}
Origins == [actor : CanonicalActor, source : CanonicalSource, attested : BOOLEAN]

\* AUTHORITY: the actors and sources an event type is taken from.
Authority(type) ==
  CASE type = PHONE_CONNECTED -> {<<"PHONE_PROVIDER", "CLAWOPS">>}
    [] type = INTENT_INTERPRETED -> {<<"GEMINI", "VERTEX_GEMINI">>, <<"SYSTEM", "SYSTEM">>}
    [] type \in {POLICY_EVALUATED, POLICY_REEVALUATED} ->
         {<<"POLICY_ENGINE", "DETERMINISTIC_POLICY">>}
    [] type \in {USER_CONFIRMED, USER_RECONFIRMED} ->
         {"RECIPIENT"} \X {"DTMF", "VOICE_CONFIRMATION"}
    [] type \in {INSTITUTION_APPROVED, INSTITUTION_REAPPROVED} ->
         {<<"INSTITUTION", "INSTITUTION_WORKFLOW">>}
    [] type \in {X402_REQUIRED, X402_REBOUND} -> {<<"X402_FACILITATOR", "X402">>}
    [] type \in {DEVNET_PROOF_FINALIZED, DEVNET_PROOF_REFINALIZED} ->
         {<<"SOLANA_RPC", "SOLANA_DEVNET">>}
    [] type \in {SUPPLIER_ORDER_SUBMITTED, SUPPLIER_CONFIRMED} ->
         {<<"SUPPLIER", "SPECIAL_OFFER">>}
    [] type \in {SHIPPED, DELIVERED} -> {<<"CARRIER", "CARRIER_READBACK">>}
    [] type = RECIPIENT_CONFIRMED -> {<<"RECIPIENT", "RECIPIENT_PORTAL">>}
    [] type = APPROVAL_INVALIDATED ->
         {<<"SYSTEM", "SYSTEM">>, <<"INSTITUTION", "INSTITUTION_WORKFLOW">>}
    [] OTHER -> {<<"SYSTEM", "SYSTEM">>}

EventAuthorityIsValid(type, origin) ==
  /\ <<origin.actor, origin.source>> \in Authority(type)
  /\ type = INTENT_INTERPRETED => origin.attested
-----------------------------------------------------------------------------
(***************************************************************************)
(* What assertSafeEventData refuses, by event type.  The data are scanned  *)
(* field by field, then for the fields required, then for what the type    *)
(* means; the first fault is reported, as one of two reasons.  A value of  *)
(* the wrong type is not refused here: reading it (stringField) throws in  *)
(* the middle of the transaction, which then stores nothing.               *)
(***************************************************************************)
\* The event types with a field whose name ends in Hash, and those with a field
\* of a fixed vocabulary.
HashTypes == EventType \ {RETRY_SCHEDULED, APPROVAL_INVALIDATED}
EnumTypes == {PHONE_CONNECTED, INTENT_INTERPRETED, USER_CONFIRMED, USER_RECONFIRMED,
              SUPPLIER_CONFIRMED, RECIPIENT_CONFIRMED}

ScalarFaults(type) ==
  {"NULL_VALUE", "UNSAFE_NUMBER", "PRIVATE_VALUE", "NOT_TECHNICAL"}
    \cup {f \in {"MALFORMED_HASH"} : type \in HashTypes}
    \cup {f \in {"UNKNOWN_WORD"} : type \in EnumTypes}

MeaningFaults(type) ==
  {f \in {"PAYMENT_AMOUNT", "PAYMENT_ASSET", "PAYMENT_DESTINATION"} :
     type \in {X402_REQUIRED, X402_REBOUND}}
    \cup {f \in {"RPC_ERROR", "RPC_COORDINATES", "SIGNATURE"} :
            type \in {DEVNET_PROOF_FINALIZED, DEVNET_PROOF_REFINALIZED}}

DataFaults(type) ==
  {"NOT_AN_OBJECT", "PRIVATE_FIELD", "UNLISTED_FIELD", "NOT_A_SCALAR", "MISSING_FIELD"}
    \cup ScalarFaults(type) \cup MeaningFaults(type)

UnsafeReason(fault) ==
  IF fault \in {"PRIVATE_FIELD", "PRIVATE_VALUE"}
  THEN "PII_OR_SECRET_REJECTED" ELSE "INVALID_EVENT_SCHEMA"
-----------------------------------------------------------------------------
(***************************************************************************)
(* semanticCommandHash covers type, data, authority and expected tail, and *)
(* neither the time nor the key.  A command whose data may not be hashed   *)
(* is recorded as safe:<reason>.                                           *)
(***************************************************************************)
SemanticHash(cmd) ==
  [type |-> cmd.type, data |-> cmd.data, until |-> cmd.until,
   origin |-> cmd.origin, expected |-> cmd.expected]
SafeHash(reason) == [unsafe |-> reason]

SemanticHashes == [type : EventType, data : Bindings, until : Times,
                   origin : Origins, expected : Nat]
Hashes == SemanticHashes \cup [unsafe : UnsafeReasons]

\* acceptedEventId and safeFailureEventId: only an accepted event and a key
\* conflict carry the command's hash in their id.
AcceptedId(cmd) ==
  [key |-> cmd.key, kind |-> "ACCEPTED", type |-> cmd.type, hash |-> SemanticHash(cmd)]
FailureId(key, reason, type) ==
  [key |-> key, kind |-> reason, type |-> type, hash |-> None]
ConflictId(cmd) ==
  [key |-> cmd.key, kind |-> "IDEMPOTENCY_CONFLICT", type |-> cmd.type,
   hash |-> SemanticHash(cmd)]

EventIds == [key : Keys, kind : FailureReasons \cup {"ACCEPTED"}, type : EventType,
             hash : Hashes \cup {None}]
Events   == [id : EventIds, hash : Hashes, data : Bindings \cup {Unbound},
             state : CanonicalCaseState, previous : Nat]
Records  == [hash : Hashes, id : EventIds, result : {"ACCEPTED", "REJECTED"}]

ASSUME NoRecordAssumption == None \notin Records

Accepted(e)   == e.id.kind = "ACCEPTED"
Opened        == currentState # NoCase
LastEventHash == Len(log)
Logged(id)    == \E i \in DOMAIN log : log[i].id = id

LedgerTypeOK ==
  /\ ProcTypeOK
  /\ log \in Seq(Events)
  /\ idempotency \in [Keys -> Records \cup {None}]

Init ==
  /\ ProcInit
  /\ log = <<>>
  /\ idempotency = [k \in Keys |-> None]
-----------------------------------------------------------------------------
(***************************************************************************)
(* transitionRejection, with the reason it reports.                        *)
(***************************************************************************)
\* Mutant: the tail the caller saw is not compared.
NeverStale(cmd) == FALSE
Stale(cmd) == cmd.type # PHONE_CONNECTED /\ cmd.expected # LastEventHash

WrongPlace(cmd) ==
  \/ Normal(cmd.type) /\ cmd.type # currentState + 1
  \/ cmd.type \in {APPROVAL_INVALIDATED, POLICY_REEVALUATED, USER_RECONFIRMED}
  \/ cmd.type = INSTITUTION_REAPPROVED /\ revalidationStage # "USER"

NotAdmittedReason(cmd) ==
  IF WrongPlace(cmd) THEN "INVALID_TRANSITION"
  ELSE IF /\ cmd.type \in {X402_REQUIRED, SUPPLIER_ORDER_SUBMITTED}
          /\ ~ApprovalActive(cmd.at)
       THEN "APPROVAL_EXPIRED"
       ELSE "APPROVAL_BINDING_MISMATCH"

Authorized(cmd) == EventAuthorityIsValid(cmd.type, cmd.origin)

Acceptable(cmd) ==
  /\ Authorized(cmd)
  /\ ~Stale(cmd)
  /\ Admitted(cmd.type, cmd.data, cmd.until, cmd.at)

Rejection(cmd) ==
  CASE ~Authorized(cmd)                        -> "INVALID_AUTHORITY"
    [] Authorized(cmd) /\ cmd.type = PHONE_CONNECTED -> "CASE_ALREADY_EXISTS"
    [] Authorized(cmd) /\ cmd.type # PHONE_CONNECTED /\ ~Opened -> "CASE_NOT_FOUND"
    [] Authorized(cmd) /\ Opened /\ Stale(cmd) -> "STALE_TAIL"
    [] OTHER                                   -> NotAdmittedReason(cmd)
-----------------------------------------------------------------------------
(***************************************************************************)
(* What a transaction writes.                                              *)
(***************************************************************************)
AppendEvent(id, hash, data, state) ==
  log' = Append(log, [id |-> id, hash |-> hash, data |-> data, state |-> state,
                      previous |-> LastEventHash])

Record(key, hash, id, result) ==
  idempotency' = [idempotency EXCEPT ![key] = [hash |-> hash, id |-> id, result |-> result]]

\* Mutant: a failure is stored for a case that was never opened.
AppendFailureUnopened(key, hash, id, record) ==
  /\ UNCHANGED procVars
  /\ ~Logged(id)
  /\ AppendEvent(id, hash, Unbound, currentState)
  /\ IF record THEN Record(key, hash, id, "REJECTED") ELSE UNCHANGED idempotency
\* Mutant: a failure is appended whether or not it is already in the log.
AppendFailureAgain(key, hash, id, record) ==
  /\ UNCHANGED procVars
  /\ IF ~Opened
     THEN UNCHANGED ledgerVars
     ELSE /\ AppendEvent(id, hash, Unbound, currentState)
          /\ IF record THEN Record(key, hash, id, "REJECTED") ELSE UNCHANGED idempotency
\* Mutant: a failure is stored with its record even for a key that has one.
AppendFailureForgets(key, hash, id, record) ==
  /\ UNCHANGED procVars
  /\ IF ~Opened \/ Logged(id)
     THEN UNCHANGED ledgerVars
     ELSE /\ AppendEvent(id, hash, Unbound, currentState)
          /\ Record(key, hash, id, "REJECTED")
\* Mutant: a failure takes the case one state further.
AppendFailureAdvances(key, hash, id, record) ==
  /\ IF Opened /\ ~Logged(id) /\ currentState < RECIPIENT_CONFIRMED
     THEN Moved(currentState + 1) ELSE UNCHANGED <<currentState, revalidationStage>>
  /\ UNCHANGED <<approvalInvalidated, conditionHash, userConfirmed, approvalRevision,
                 approvalValidUntil, x402, devnet, supplierConfirmed, histVars>>
  /\ IF ~Opened \/ Logged(id)
     THEN UNCHANGED ledgerVars
     ELSE /\ AppendEvent(id, hash, Unbound, currentState)
          /\ IF record THEN Record(key, hash, id, "REJECTED") ELSE UNCHANGED idempotency
\* appendFailure: without an aggregate nothing is stored, and an event that is
\* already there is answered again.  A failure moves the tail and nothing else.
AppendFailure(key, hash, id, record) ==
  /\ UNCHANGED procVars
  /\ IF ~Opened \/ Logged(id)
     THEN UNCHANGED ledgerVars
     ELSE /\ AppendEvent(id, hash, Unbound, currentState)
          /\ IF record THEN Record(key, hash, id, "REJECTED") ELSE UNCHANGED idempotency
-----------------------------------------------------------------------------
(***************************************************************************)
(* execute, one action per outcome.                                        *)
(***************************************************************************)
Known(key) == idempotency[key] # None

\* The same command under the same key: whatever it led to is answered again.
Replay(cmd) ==
  /\ Known(cmd.key)
  /\ idempotency[cmd.key].hash = SemanticHash(cmd)
  /\ UNCHANGED vars

\* Another command under a key in use: a failure is logged, once per command.
KeyConflict(cmd) ==
  /\ Known(cmd.key)
  /\ idempotency[cmd.key].hash # SemanticHash(cmd)
  /\ AppendFailure(cmd.key, SemanticHash(cmd), ConflictId(cmd), FALSE)

\* A refused command uses up its key, once the case is open.
Reject(cmd) ==
  /\ ~Known(cmd.key)
  /\ ~Acceptable(cmd)
  /\ AppendFailure(cmd.key, SemanticHash(cmd),
                   FailureId(cmd.key, Rejection(cmd), cmd.type), TRUE)

Accept(cmd) ==
  /\ ~Known(cmd.key)
  /\ Authorized(cmd)
  /\ ~Stale(cmd)
  /\ AcceptEvent(cmd.type, cmd.data, cmd.until, cmd.at)
  /\ AppendEvent(AcceptedId(cmd), SemanticHash(cmd), cmd.data,
                 IF Normal(cmd.type) THEN cmd.type ELSE currentState)
  /\ Record(cmd.key, SemanticHash(cmd), AcceptedId(cmd), "ACCEPTED")

Execute(cmd) == Replay(cmd) \/ KeyConflict(cmd) \/ Reject(cmd) \/ Accept(cmd)

\* rejectUnhashable: the data is refused before any hash is taken of it; the
\* failure is recorded under the key unless the key already has a record.
RejectUnhashable(key, type, reason) ==
  AppendFailure(key, SafeHash(reason), FailureId(key, reason, type), ~Known(key))

\* Any command callers can send; the expected tail is undefined (0) or one that
\* was current at some time.
Commands == [type : CommandTypes, key : Keys, data : Bindings, until : Times,
             at : Times, origin : Origins, expected : 0 .. Len(log)]

Next ==
  /\ Len(log) < MaxLog
  /\ \/ \E cmd \in Commands : Execute(cmd)
     \/ \E key \in Keys, type \in CommandTypes : \E fault \in DataFaults(type) :
          RejectUnhashable(key, type, UnsafeReason(fault))

Spec == Init /\ [][Next]_vars
-----------------------------------------------------------------------------
(***************************************************************************)
(* projectCanonicalCase: what each role is shown.  An amount stands for    *)
(* the condition of the policy event that carries it; texts, times and     *)
(* ids are left out.                                                       *)
(***************************************************************************)
\* The last accepted event of one of the types.
LastOf(types) ==
  {i \in DOMAIN log : /\ Accepted(log[i]) /\ log[i].id.type \in types
                      /\ \A j \in DOMAIN log :
                           Accepted(log[j]) /\ log[j].id.type \in types => j <= i}

Amount == {log[i].data.condition : i \in LastOf({POLICY_EVALUATED, POLICY_REEVALUATED})}

RecipientView ==
  [state |-> currentState, amount |-> Amount, supplier |-> LastOf({SUPPLIER_CONFIRMED}) # {}]

InstitutionView ==
  [state |-> currentState, amount |-> Amount, condition |-> conditionHash,
   revision |-> approvalRevision, until |-> approvalValidUntil,
   invalidated |-> approvalInvalidated,
   failures |-> {i \in DOMAIN log : ~Accepted(log[i])}]

SupplierView == [state |-> currentState, order |-> supplierConfirmed]

JudgeView == [revision |-> approvalRevision, x402 |-> x402.revision, devnet |-> devnet.revision]

ChainView ==
  [revision |-> approvalRevision, sequence |-> Len(log),
   events |-> [i \in DOMAIN log |-> log[i].state]]
-----------------------------------------------------------------------------
(***************************************************************************)
(* Properties.                                                             *)
(***************************************************************************)

\* A key stands for one command for ever: its record is never replaced, names a
\* logged event of that key and says truly whether that event was accepted, and
\* no key has an accepted event its record does not name.  Hence a command
\* delivered any number of times is accepted at most once (execute, line 77).
RecordsMatchLog ==
  /\ \A k \in Keys : Known(k) =>
       \E i \in DOMAIN log :
         /\ log[i].id = idempotency[k].id /\ log[i].hash = idempotency[k].hash
         /\ log[i].id.key = k
         /\ Accepted(log[i]) <=> idempotency[k].result = "ACCEPTED"
  /\ \A i \in DOMAIN log : Accepted(log[i]) =>
       Known(log[i].id.key) /\ idempotency[log[i].id.key].id = log[i].id

\* No two events share an id, so createEvent never throws and no transaction is
\* lost, and one command leaves at most one event however often it is sent: a
\* caller that repeats itself for ever does not grow the log.
OneEventPerCommand ==
  \A i, j \in DOMAIN log : i # j =>
    /\ log[i].id # log[j].id
    /\ <<log[i].id.key, log[i].id.type, log[i].hash>>
         # <<log[j].id.key, log[j].id.type, log[j].hash>>

\* No lost update: every event accepted after the opening was decided on
\* exactly the event that precedes it in the log.
DecidedOnTail ==
  \A i \in DOMAIN log :
    Accepted(log[i]) /\ i > 1 => log[i].hash.expected = i - 1 /\ log[i].previous = i - 1

\* The aggregate says what the accepted events say, whatever failures lie
\* between them: the states of the normal events are 0, 1, 2, ... up to
\* currentState, the condition is the one of the last event that wrote it, and
\* the revisions of payment requirement and proof those of the last event of
\* their kind.  So the views of projections.ts, which read some fields from the
\* aggregate and others from the events, agree: the institution sees the amount
\* of the condition it approves, supplier and recipient both an order or
\* neither, and the chain ends in the state the case is in.
AggregateFollowsLog ==
  /\ \A s \in CanonicalCaseState : s <= currentState <=>
       \E i \in DOMAIN log : Accepted(log[i]) /\ log[i].id.type = s
  /\ \A i, j \in DOMAIN log :
       Accepted(log[i]) /\ Accepted(log[j]) /\ i < j => log[i].state <= log[j].state
  /\ \A i \in LastOf({POLICY_EVALUATED, POLICY_REEVALUATED, INSTITUTION_APPROVED,
                      INSTITUTION_REAPPROVED}) : conditionHash = log[i].data.condition
  /\ \A i \in LastOf({X402_REQUIRED, X402_REBOUND}) : JudgeView.x402 = log[i].data.revision
  /\ \A i \in LastOf({DEVNET_PROOF_FINALIZED, DEVNET_PROOF_REFINALIZED}) :
       JudgeView.devnet = log[i].data.revision
  /\ InstitutionView.amount \subseteq {InstitutionView.condition}
  /\ SupplierView.order <=> RecipientView.supplier
  /\ Opened => ChainView.events[ChainView.sequence] = currentState
-----------------------------------------------------------------------------
(***************************************************************************)
(* What the uniqueness of events rests on: a key in the log has a record,  *)
(* the event of any other kind than a refused payload or a key conflict is *)
(* the one its key's record names, and those two kinds are told apart by   *)
(* their hashes.                                                           *)
(***************************************************************************)
EventsExplained ==
  \A i \in DOMAIN log :
    LET e == log[i] IN
      /\ Known(e.id.key)
      /\ IF e.id.kind \in UnsafeReasons
         THEN e.hash = SafeHash(e.id.kind) /\ e.id.hash = None
         ELSE e.hash \in SemanticHashes
      /\ e.id.kind = "IDEMPOTENCY_CONFLICT" => e.id.hash = e.hash
      /\ e.id.kind \in RefusalReasons \cup {"ACCEPTED"} =>
           idempotency[e.id.key].id = e.id /\ idempotency[e.id.key].hash = e.hash

LogOpensCase == Opened <=> log # <<>>

LedgerInv == RecordsMatchLog /\ OneEventPerCommand /\ DecidedOnTail
             /\ EventsExplained /\ LogOpensCase
=============================================================================
