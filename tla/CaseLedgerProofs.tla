-------------------------- MODULE CaseLedgerProofs --------------------------
(***************************************************************************)
(* What holds of the ledger for every set of keys, conditions and command  *)
(* types and every length of the log: that each transaction is a step of   *)
(* the procedure of module CaseProcedure or leaves the aggregate alone,    *)
(* and that the log, the idempotency records and the aggregate agree.      *)
(***************************************************************************)
EXTENDS CaseLedger, CaseProcedureProofs

USE CommandAssumption, LogAssumption
USE DEF PHONE_CONNECTED, INTENT_INTERPRETED, POLICY_EVALUATED, USER_CONFIRMED,
        INSTITUTION_APPROVED, X402_REQUIRED, DEVNET_PROOF_FINALIZED,
        SUPPLIER_ORDER_SUBMITTED, SUPPLIER_CONFIRMED, SHIPPED, DELIVERED,
        RECIPIENT_CONFIRMED, RETRY_SCHEDULED, APPROVAL_INVALIDATED,
        POLICY_REEVALUATED, USER_RECONFIRMED, INSTITUTION_REAPPROVED, X402_REBOUND,
        DEVNET_PROOF_REFINALIZED, NoCase, CanonicalCaseState, EventType, Times, Normal

\* A command accepts one event of the procedure or leaves it unchanged.
LEMMA ExecuteRefines ==
  ASSUME NEW cmd, cmd.type \in EventType, cmd.data \in Bindings,
         cmd.until \in Times, cmd.at \in Times, Execute(cmd)
  PROVE  ProcNext \/ UNCHANGED procVars
<1>1. CASE Replay(cmd)
  BY <1>1 DEF Replay, vars
<1>2. CASE KeyConflict(cmd)
  BY <1>2 DEF KeyConflict, AppendFailure
<1>3. CASE Reject(cmd)
  BY <1>3 DEF Reject, AppendFailure
<1>4. CASE Accept(cmd)
  BY <1>4 DEF Accept, ProcNext
<1> QED
  BY <1>1, <1>2, <1>3, <1>4 DEF Execute

\* Refused data are refused for one of the two reasons.
LEMMA FaultReason == ASSUME NEW fault PROVE UnsafeReason(fault) \in UnsafeReasons
  BY DEF UnsafeReason, UnsafeReasons

\* A transaction accepts one event of the procedure or leaves it unchanged.
LEMMA StepRefines == Next => ProcNext \/ UNCHANGED procVars
<1>1. ASSUME NEW cmd \in Commands, Execute(cmd) PROVE ProcNext \/ UNCHANGED procVars
  BY <1>1, CommandAssumption, ExecuteRefines DEF Commands
<1>2. ASSUME NEW key \in Keys, NEW type \in CommandTypes, NEW reason \in UnsafeReasons,
             RejectUnhashable(key, type, reason)
      PROVE  UNCHANGED procVars
  BY <1>2 DEF RejectUnhashable, AppendFailure
<1> QED
  BY <1>1, <1>2, FaultReason DEF Next

\* The ledger implements the procedure: whatever callers repeat, reorder or
\* send too late, the case only moves as the procedure allows.
THEOREM LedgerImplementsProcedure == Spec => ProcSpec
<1>1. Init => ProcInit
  BY DEF Init
<1>2. [Next]_vars => [ProcNext]_procVars
  BY StepRefines DEF vars
<1> QED
  BY <1>1, <1>2, PTL DEF Spec, ProcSpec
-----------------------------------------------------------------------------
(***************************************************************************)
(* A transaction that stores anything appends one event.  Fits says how    *)
(* its id, its hash and its record go together: a payload that may not be  *)
(* hashed, a key conflict, or a command that uses up a fresh key.          *)
(***************************************************************************)
RecordOf(e) ==
  [hash |-> e.hash, id |-> e.id, result |-> IF Accepted(e) THEN "ACCEPTED" ELSE "REJECTED"]

Recorded(e) ==
  /\ ~Known(e.id.key)
  /\ idempotency' = [idempotency EXCEPT ![e.id.key] = RecordOf(e)]

FitsUnsafe(e) ==
  /\ e.id.kind \in UnsafeReasons
  /\ e.hash = SafeHash(e.id.kind)
  /\ e.id.hash = None
  /\ \/ Recorded(e)
     \/ Known(e.id.key) /\ UNCHANGED idempotency

FitsConflict(e) ==
  /\ e.id.kind = "IDEMPOTENCY_CONFLICT"
  /\ e.hash \in SemanticHashes
  /\ e.id.hash = e.hash
  /\ Known(e.id.key) /\ idempotency[e.id.key].hash # e.hash
  /\ UNCHANGED idempotency

FitsDecided(e) ==
  /\ e.id.kind \in RefusalReasons \cup {"ACCEPTED"}
  /\ e.hash \in SemanticHashes
  /\ Accepted(e) /\ log # <<>> => e.hash.expected = Len(log)
  /\ Recorded(e)

Appends(e) ==
  /\ e \in Events
  /\ log' = Append(log, e)
  /\ ~Logged(e.id)
  /\ e.previous = Len(log)
  /\ currentState' # NoCase
  /\ FitsUnsafe(e) \/ FitsConflict(e) \/ FitsDecided(e)

\* appendFailure, given that the failure's id, hash and record fit together.
LEMMA FailureAppends ==
  ASSUME LedgerTypeOK, NEW key \in Keys, NEW hash \in Hashes, NEW id \in EventIds,
         id.key = key, id.kind \in FailureReasons, NEW record \in BOOLEAN,
         AppendFailure(key, hash, id, record),
         record => ~Known(key),
         \/ id.kind \in UnsafeReasons /\ hash = SafeHash(id.kind) /\ id.hash = None
            /\ (record \/ Known(key))
         \/ id.kind = "IDEMPOTENCY_CONFLICT" /\ hash \in SemanticHashes /\ id.hash = hash
            /\ Known(key) /\ idempotency[key].hash # hash /\ ~record
         \/ id.kind \in RefusalReasons /\ hash \in SemanticHashes /\ record
  PROVE  UNCHANGED vars \/ \E e : Appends(e)
<1> DEFINE e == [id |-> id, hash |-> hash, data |-> Unbound, state |-> currentState,
                 previous |-> Len(log)]
<1>1. CASE ~Opened \/ Logged(id)
  BY <1>1 DEF AppendFailure, vars
<1>2. CASE Opened /\ ~Logged(id)
  <2>1. /\ log' = Append(log, e)
        /\ IF record THEN Record(key, hash, id, "REJECTED") ELSE UNCHANGED idempotency
        /\ UNCHANGED procVars
    BY <1>2 DEF AppendFailure, AppendEvent, LastEventHash
  <2>2. e \in Events
    BY <1>2 DEF Events, LedgerTypeOK, ProcTypeOK, Opened
  <2>3. currentState' # NoCase
    BY <1>2, <2>1 DEF procVars, caseVars, Opened
  <2>4. ~Accepted(e)
    BY DEF Accepted, FailureReasons, UnsafeReasons, RefusalReasons
  <2>5. record => Recorded(e)
    BY <2>1, <2>4 DEF Record, Recorded, RecordOf
  <2>6. FitsUnsafe(e) \/ FitsConflict(e) \/ FitsDecided(e)
    BY <2>1, <2>4, <2>5 DEF FitsUnsafe, FitsConflict, FitsDecided
  <2> HIDE DEF e
  <2>7. e.id = id /\ e.previous = Len(log)
    BY DEF e
  <2> QED
    BY <1>2, <2>1, <2>2, <2>3, <2>6, <2>7 DEF Appends
<1> QED
  BY <1>1, <1>2

\* The reasons of transitionRejection are none of the other kinds.
LEMMA RejectionKind ==
  ASSUME NEW cmd PROVE Rejection(cmd) \in RefusalReasons
  BY DEF Rejection, NotAdmittedReason, RefusalReasons

\* A command as execute takes it, whoever sends it.
AnyCommand == [type : EventType, key : Keys, data : Bindings, until : Times,
               at : Times, origin : Origins, expected : Nat]

LEMMA CommandsTyped == ASSUME LedgerTypeOK PROVE Commands \subseteq AnyCommand
<1>1. 0 .. Len(log) \subseteq Nat
  BY DEF LedgerTypeOK
<1> QED
  BY <1>1, CommandAssumption DEF Commands, AnyCommand

LEMMA CommandHashed ==
  ASSUME NEW cmd \in AnyCommand
  PROVE  /\ SemanticHash(cmd) \in SemanticHashes /\ SemanticHash(cmd) \in Hashes
         /\ SemanticHash(cmd).expected = cmd.expected
         /\ SemanticHash(cmd).data = cmd.data
         /\ cmd.key \in Keys /\ cmd.type \in EventType /\ cmd.data \in Bindings
         /\ cmd.until \in Times /\ cmd.at \in Times
  BY DEF AnyCommand, SemanticHash, SemanticHashes, Hashes

\* A command stores nothing or appends one event that fits its record.
LEMMA ExecuteAppends ==
  ASSUME LedgerTypeOK, LedgerInv, NEW cmd \in AnyCommand, Execute(cmd)
  PROVE  UNCHANGED vars \/ \E e : Appends(e)
<1>1. /\ SemanticHash(cmd) \in SemanticHashes /\ SemanticHash(cmd) \in Hashes
      /\ SemanticHash(cmd).expected = cmd.expected
      /\ cmd.key \in Keys /\ cmd.type \in EventType /\ cmd.data \in Bindings
      /\ cmd.until \in Times /\ cmd.at \in Times
  BY CommandHashed
<1>2. CASE Replay(cmd)
  BY <1>2 DEF Replay
<1>3. CASE KeyConflict(cmd)
  <2>1. /\ ConflictId(cmd) \in EventIds
        /\ ConflictId(cmd).key = cmd.key
        /\ ConflictId(cmd).kind = "IDEMPOTENCY_CONFLICT"
        /\ ConflictId(cmd).hash = SemanticHash(cmd)
    BY <1>1 DEF ConflictId, EventIds, FailureReasons
  <2> QED
    BY <1>1, <1>3, <2>1, FailureAppends DEF KeyConflict, FailureReasons
<1>4. CASE Reject(cmd)
  <2> DEFINE id == FailureId(cmd.key, Rejection(cmd), cmd.type)
  <2>1. id \in EventIds /\ id.key = cmd.key /\ id.kind \in RefusalReasons
    BY <1>1, RejectionKind DEF FailureId, EventIds, FailureReasons
  <2>2. AppendFailure(cmd.key, SemanticHash(cmd), id, TRUE) /\ ~Known(cmd.key)
    BY <1>4 DEF Reject
  <2> HIDE DEF id
  <2> QED
    BY <1>1, <2>1, <2>2, FailureAppends DEF FailureReasons
<1>5. CASE Accept(cmd)
  <2> DEFINE e == [id |-> AcceptedId(cmd), hash |-> SemanticHash(cmd), data |-> cmd.data,
                   state |-> IF Normal(cmd.type) THEN cmd.type ELSE currentState,
                   previous |-> Len(log)]
  <2>1. /\ AcceptedId(cmd) \in EventIds
        /\ AcceptedId(cmd).key = cmd.key /\ AcceptedId(cmd).kind = "ACCEPTED"
    BY <1>1 DEF AcceptedId, EventIds
  <2>2. /\ ~Known(cmd.key) /\ ~Stale(cmd)
        /\ log' = Append(log, e)
        /\ Record(cmd.key, SemanticHash(cmd), AcceptedId(cmd), "ACCEPTED")
        /\ Admitted(cmd.type, cmd.data, cmd.until, cmd.at) /\ Moved(cmd.type)
    BY <1>5 DEF Accept, AppendEvent, LastEventHash, AcceptEvent, Apply
  <2>3. e.state \in CanonicalCaseState
    BY <1>1, <2>2 DEF Admitted, LedgerTypeOK, ProcTypeOK
  <2>4. e \in Events
    BY <1>1, <2>1, <2>3 DEF Events, LedgerTypeOK, Hashes
  <2>5. currentState' # NoCase
    BY <1>1, <2>2 DEF Admitted, Moved
  <2>6. log # <<>> => cmd.expected = Len(log)
    <3>1. log # <<>> => currentState \in CanonicalCaseState
      BY DEF LedgerInv, LogOpensCase, Opened, LedgerTypeOK, ProcTypeOK
    <3>2. log # <<>> => cmd.type # PHONE_CONNECTED
      BY <1>1, <2>2, <3>1 DEF Admitted, NormalAdmitted, AuxiliaryAdmitted
    <3> QED
      BY <2>2, <3>2 DEF Stale, LastEventHash
  <2>7. Recorded(e)
    BY <2>1, <2>2 DEF Recorded, RecordOf, Record, Accepted
  <2>8. ~Logged(AcceptedId(cmd))
    BY <2>1, <2>2 DEF Logged, LedgerInv, EventsExplained
  <2>9. FitsDecided(e)
    BY <1>1, <2>1, <2>6, <2>7 DEF FitsDecided
  <2>10. e.id = AcceptedId(cmd) /\ e.previous = Len(log)
    OBVIOUS
  <2> HIDE DEF e
  <2> QED
    BY <2>2, <2>4, <2>5, <2>8, <2>9, <2>10 DEF Appends
<1> QED
  BY <1>2, <1>3, <1>4, <1>5 DEF Execute

\* Every transaction stores nothing or appends one event that fits its record.
LEMMA StepAppends ==
  ASSUME LedgerTypeOK, LedgerInv, Next
  PROVE  UNCHANGED vars \/ \E e : Appends(e)
<1>1. ASSUME NEW cmd \in Commands, Execute(cmd)
      PROVE  UNCHANGED vars \/ \E e : Appends(e)
  BY <1>1, CommandsTyped, ExecuteAppends
<1>2. ASSUME NEW key \in Keys, NEW type \in CommandTypes, NEW reason \in UnsafeReasons,
             RejectUnhashable(key, type, reason)
      PROVE  UNCHANGED vars \/ \E e : Appends(e)
  <2> DEFINE id == FailureId(key, reason, type)
  <2>1. /\ id \in EventIds /\ id.key = key /\ id.kind = reason /\ id.hash = None
        /\ SafeHash(reason) \in Hashes
    BY CommandAssumption DEF FailureId, EventIds, FailureReasons, SafeHash, Hashes
  <2>2. AppendFailure(key, SafeHash(reason), id, ~Known(key))
    BY <1>2 DEF RejectUnhashable
  <2> HIDE DEF id
  <2>3. (~Known(key)) \in BOOLEAN
    BY DEF Known
  <2> QED
    BY <2>1, <2>2, <2>3, FailureAppends DEF FailureReasons
<1> QED
  BY <1>1, <1>2, FaultReason DEF Next
-----------------------------------------------------------------------------
\* The hash of a refused payload is no command's hash.
LEMMA UnsafeHashApart ==
  ASSUME NEW reason PROVE SafeHash(reason) \notin SemanticHashes
<1>1. DOMAIN SafeHash(reason) = {"unsafe"}
  BY DEF SafeHash
<1>2. \A h \in SemanticHashes : "type" \in DOMAIN h
  BY DEF SemanticHashes
<1> QED
  BY <1>1, <1>2

\* Appending an event that fits keeps the log's types and its invariant.
LEMMA AppendKeepsTypes ==
  ASSUME LedgerTypeOK, NEW e, Appends(e)
  PROVE  log' \in Seq(Events) /\ idempotency' \in [Keys -> Records \cup {None}]
<1>1. e \in Events /\ log' = Append(log, e)
  BY DEF Appends
<1>2. e.hash \in Hashes /\ e.id \in EventIds /\ e.id.key \in Keys
  BY <1>1 DEF Events, EventIds
<1>3. RecordOf(e) \in Records
  BY <1>2 DEF RecordOf, Records
<1> QED
  BY <1>1, <1>2, <1>3 DEF LedgerTypeOK, Appends, FitsUnsafe, FitsConflict, FitsDecided, Recorded

LEMMA AppendKeepsInv ==
  ASSUME LedgerTypeOK, LedgerInv, NEW e, Appends(e)
  PROVE  LedgerInv'
<1> DEFINE n == Len(log)
<1>1. /\ e \in Events /\ log' = Append(log, e) /\ n \in Nat
      /\ ~Logged(e.id) /\ e.previous = n /\ currentState' # NoCase
      /\ log \in Seq(Events)
  BY DEF Appends, LedgerTypeOK
<1>2. /\ Len(log') = n + 1 /\ log'[n + 1] = e
      /\ \A i \in DOMAIN log : log'[i] = log[i]
      /\ DOMAIN log = 1 .. n /\ DOMAIN log' = 1 .. (n + 1)
  BY <1>1
<1>3. e.id.key \in Keys /\ e.id \in EventIds
  BY <1>1 DEF Events, EventIds
<1>4. \/ idempotency' = idempotency /\ Known(e.id.key)
      \/ Recorded(e)
  BY DEF Appends, FitsUnsafe, FitsConflict, FitsDecided
<1>5. \A k \in Keys : Known(k) => idempotency'[k] = idempotency[k]
  BY <1>3, <1>4 DEF Recorded, LedgerTypeOK, Known
<1>6. Known(e.id.key)'
  <2>1. RecordOf(e) \in Records
    BY <1>1 DEF RecordOf, Records, Events, EventIds
  <2> QED
    BY <1>3, <1>4, <2>1, NoRecordAssumption DEF Recorded, LedgerTypeOK, Known
<1>7. \A i \in DOMAIN log : Known(log[i].id.key) /\ log[i] \in Events
  BY <1>1 DEF LedgerInv, EventsExplained
<1>8. \A i \in DOMAIN log : idempotency'[log[i].id.key] = idempotency[log[i].id.key]
  BY <1>1, <1>5, <1>7 DEF Events, EventIds
<1>9. Recorded(e) => idempotency'[e.id.key] = RecordOf(e)
  BY <1>3 DEF Recorded, LedgerTypeOK
<1>10. EventsExplained'
  <2> SUFFICES ASSUME NEW i \in DOMAIN log'
      PROVE  /\ Known(log[i].id.key)'
             /\ IF log'[i].id.kind \in UnsafeReasons
                THEN log'[i].hash = SafeHash(log'[i].id.kind) /\ log'[i].id.hash = None
                ELSE log'[i].hash \in SemanticHashes
             /\ log'[i].id.kind = "IDEMPOTENCY_CONFLICT" => log'[i].id.hash = log'[i].hash
             /\ log'[i].id.kind \in RefusalReasons \cup {"ACCEPTED"} =>
                  /\ idempotency'[log'[i].id.key].id = log'[i].id
                  /\ idempotency'[log'[i].id.key].hash = log'[i].hash
    BY DEF EventsExplained
  <2>1. CASE i \in DOMAIN log
    <3>1. Known(log[i].id.key)'
      BY <1>2, <1>7, <1>8, <2>1 DEF Known
    <3> QED
      BY <1>2, <1>8, <2>1, <3>1 DEF LedgerInv, EventsExplained
  <2>2. CASE i = n + 1
    <3>1. log'[i] = e /\ Known(log[i].id.key)'
      BY <1>2, <1>6, <2>2 DEF Known
    <3>2. CASE FitsUnsafe(e)
      BY <3>1, <3>2 DEF FitsUnsafe, UnsafeReasons, RefusalReasons
    <3>3. CASE FitsConflict(e)
      BY <3>1, <3>3 DEF FitsConflict, UnsafeReasons, RefusalReasons
    <3>4. CASE FitsDecided(e)
      BY <1>9, <3>1, <3>4 DEF FitsDecided, RecordOf, UnsafeReasons, RefusalReasons
    <3> QED
      BY <3>2, <3>3, <3>4 DEF Appends
  <2> QED
    BY <1>2, <2>1, <2>2
<1>11. RecordsMatchLog'
  <2>1. ASSUME NEW k \in Keys, Known(k)'
        PROVE  \E i \in DOMAIN log' :
                 /\ log'[i].id = idempotency'[k].id /\ log'[i].hash = idempotency'[k].hash
                 /\ log'[i].id.key = k
                 /\ Accepted(log'[i]) <=> idempotency'[k].result = "ACCEPTED"
    <3>1. CASE Known(k)
      <4>1. PICK i \in DOMAIN log :
              /\ log[i].id = idempotency[k].id /\ log[i].hash = idempotency[k].hash
              /\ log[i].id.key = k
              /\ Accepted(log[i]) <=> idempotency[k].result = "ACCEPTED"
        BY <3>1 DEF LedgerInv, RecordsMatchLog
      <4>2. i \in DOMAIN log' /\ log'[i] = log[i] /\ idempotency'[k] = idempotency[k]
        BY <1>2, <1>5, <3>1
      <4> QED
        BY <4>1, <4>2 DEF Accepted
    <3>2. CASE ~Known(k)
      <4>1. Recorded(e) /\ k = e.id.key
        BY <1>3, <1>4, <2>1, <3>2 DEF Recorded, LedgerTypeOK, Known
      <4> QED
        BY <1>2, <1>9, <4>1 DEF RecordOf
    <3> QED
      BY <3>1, <3>2
  <2>2. ASSUME NEW i \in DOMAIN log', Accepted(log'[i])
        PROVE  Known(log[i].id.key)' /\ idempotency'[log'[i].id.key].id = log'[i].id
    BY <1>10, <2>2 DEF EventsExplained, Accepted
  <2> QED
    BY <2>1, <2>2 DEF RecordsMatchLog, Accepted
<1>12. OneEventPerCommand'
  <2>1. ASSUME NEW j \in DOMAIN log
        PROVE  /\ log[j].id # e.id
               /\ <<log[j].id.key, log[j].id.type, log[j].hash>>
                    # <<e.id.key, e.id.type, e.hash>>
    <3>1. log[j].id # e.id
      BY <1>1, <2>1 DEF Logged
    <3>2. CASE log[j].id.key = e.id.key /\ log[j].id.type = e.id.type /\ log[j].hash = e.hash
      <4>1. Known(e.id.key)
        BY <1>7, <2>1, <3>2
      <4>2. CASE FitsUnsafe(e)
        <5>1. log[j].id.kind \in UnsafeReasons /\ log[j].hash = SafeHash(log[j].id.kind)
              /\ log[j].id.hash = None
          BY <2>1, <3>2, <4>2, UnsafeHashApart DEF LedgerInv, EventsExplained, FitsUnsafe
        <5>2. log[j].id.kind = e.id.kind
          BY <3>2, <4>2, <5>1 DEF FitsUnsafe, SafeHash
        <5> QED
          BY <1>3, <1>7, <2>1, <3>1, <3>2, <4>2, <5>1, <5>2 DEF FitsUnsafe, Events, EventIds
      <4>3. CASE FitsConflict(e)
        <5>1. log[j].id.kind \notin UnsafeReasons
          BY <2>1, <3>2, <4>3, UnsafeHashApart DEF LedgerInv, EventsExplained, FitsConflict
        <5>2. CASE log[j].id.kind = "IDEMPOTENCY_CONFLICT"
          <6>1. log[j].id.hash = e.id.hash /\ log[j].id.kind = e.id.kind
            BY <2>1, <3>2, <4>3, <5>2 DEF LedgerInv, EventsExplained, FitsConflict
          <6> QED
            BY <1>3, <1>7, <2>1, <3>1, <3>2, <6>1 DEF Events, EventIds
        <5>3. CASE log[j].id.kind \in RefusalReasons \cup {"ACCEPTED"}
          BY <2>1, <3>2, <4>3, <5>3 DEF LedgerInv, EventsExplained, FitsConflict
        <5> QED
          BY <1>7, <2>1, <5>1, <5>2, <5>3 DEF Events, EventIds, FailureReasons
      <4> QED
        BY <4>1, <4>2, <4>3 DEF Appends, FitsDecided, Recorded
    <3> QED
      BY <3>1, <3>2
  <2> QED
    BY <1>2, <2>1 DEF LedgerInv, OneEventPerCommand
<1>13. DecidedOnTail'
  <2> SUFFICES ASSUME NEW i \in DOMAIN log', Accepted(log'[i]), i > 1
      PROVE  log'[i].hash.expected = i - 1 /\ log'[i].previous = i - 1
    BY DEF DecidedOnTail, Accepted
  <2>1. CASE i \in DOMAIN log
    BY <1>2, <2>1 DEF LedgerInv, DecidedOnTail, Accepted
  <2>2. CASE i = n + 1
    <3>1. FitsDecided(e) /\ Accepted(e) /\ log # <<>>
      BY <1>1, <1>2, <2>2 DEF Appends, FitsUnsafe, FitsConflict, Accepted, UnsafeReasons
    <3> QED
      BY <1>1, <1>2, <2>2, <3>1 DEF FitsDecided
  <2> QED
    BY <1>2, <2>1, <2>2
<1>14. LogOpensCase'
  BY <1>1, <1>2 DEF LogOpensCase, Opened
<1> QED
  BY <1>10, <1>11, <1>12, <1>13, <1>14 DEF LedgerInv

LEMMA LedgerInitOK == Init => LedgerTypeOK /\ LedgerInv
<1> SUFFICES ASSUME Init PROVE LedgerTypeOK /\ LedgerInv
  OBVIOUS
<1>1. ProcTypeOK
  BY ProcInitTyped DEF Init
<1>2. log = <<>> /\ DOMAIN log = {} /\ log \in Seq(Events) /\ currentState = NoCase
  BY DEF Init, ProcInit
<1>3. \A k \in Keys : ~Known(k)
  BY DEF Init, Known
<1> QED
  BY <1>1, <1>2, <1>3 DEF Init, LedgerTypeOK, LedgerInv, RecordsMatchLog, OneEventPerCommand,
     DecidedOnTail, EventsExplained, LogOpensCase, Opened

\* The ledger's types and its invariant, for every behaviour.
THEOREM LedgerTypeCorrect == Spec => []LedgerTypeOK /\ []LedgerInv
<1>1. Init => LedgerTypeOK /\ LedgerInv
  BY LedgerInitOK
<1>2. ProcTypeOK' /\ LedgerTypeOK /\ LedgerInv /\ [Next]_vars => LedgerTypeOK' /\ LedgerInv'
  <2> SUFFICES ASSUME ProcTypeOK', LedgerTypeOK, LedgerInv, [Next]_vars
               PROVE  LedgerTypeOK' /\ LedgerInv'
    OBVIOUS
  <2>1. CASE UNCHANGED vars
    BY <2>1 DEF vars, procVars, caseVars, ledgerVars, LedgerTypeOK, LedgerInv, RecordsMatchLog, OneEventPerCommand,
       DecidedOnTail, EventsExplained, LogOpensCase, Opened, Known, Accepted
  <2>2. ASSUME NEW e, Appends(e) PROVE LedgerTypeOK' /\ LedgerInv'
    BY <2>2, AppendKeepsTypes, AppendKeepsInv DEF LedgerTypeOK
  <2> QED
    BY <2>1, <2>2, StepAppends
<1> QED
  BY <1>1, <1>2, ProcTypeCorrect, LedgerImplementsProcedure, PTL DEF Spec

\* A key stands for one command for ever, and says truly what became of it.
THEOREM RecordsAreTrue == Spec => []RecordsMatchLog
  BY LedgerTypeCorrect, PTL DEF LedgerInv

\* One command leaves at most one event, however often it is sent.
THEOREM CommandsLeaveOneEvent == Spec => []OneEventPerCommand
  BY LedgerTypeCorrect, PTL DEF LedgerInv

\* No accepted event was decided on anything but the tail it follows.
THEOREM NoUpdateIsLost == Spec => []DecidedOnTail
  BY LedgerTypeCorrect, PTL DEF LedgerInv

\* What is proved of the procedure holds of the ledger that implements it.
THEOREM LedgerOrdersAsAgreed == Spec => []OrderedAsAgreed /\ TermsFrozenOnceOrdered
  BY LedgerImplementsProcedure, OrdersAreAgreed, TermsAreFrozen, PTL
-----------------------------------------------------------------------------
(***************************************************************************)
(* The aggregate follows the log.  A transaction tells the log what it     *)
(* does to the aggregate: Tells says so of the event it appends, and       *)
(* FollowsInv adds what the order of the states needs, that no event is    *)
(* ahead of the case.                                                      *)
(***************************************************************************)
PolicyTypes    == {POLICY_EVALUATED, POLICY_REEVALUATED}
ConditionTypes == {POLICY_EVALUATED, POLICY_REEVALUATED, INSTITUTION_APPROVED,
                   INSTITUTION_REAPPROVED}
PaymentTypes   == {X402_REQUIRED, X402_REBOUND}
ProofTypes     == {DEVNET_PROOF_FINALIZED, DEVNET_PROOF_REFINALIZED}

NoEventAhead == \A i \in DOMAIN log : log[i].state <= currentState

FollowsInv == AggregateFollowsLog /\ NoEventAhead

\* What an accepted event of a type with binding d does to the aggregate.
TellsState(type) ==
  IF Normal(type)
  THEN type = currentState + 1 /\ currentState' = type
  ELSE currentState # NoCase /\ currentState' = currentState

TellsBindings(type, d) ==
  /\ IF type \in ConditionTypes THEN conditionHash' = d.condition
                                ELSE conditionHash' = conditionHash
  /\ type \in ConditionTypes \ PolicyTypes => conditionHash' = conditionHash
  /\ IF type \in PaymentTypes THEN x402' = d ELSE x402' = x402
  /\ IF type \in ProofTypes THEN devnet' = d ELSE devnet' = devnet
  /\ supplierConfirmed' <=> supplierConfirmed \/ type = SUPPLIER_CONFIRMED

Tells(e) ==
  /\ e \in Events
  /\ log' = Append(log, e)
  /\ e.state = currentState'
  /\ IF Accepted(e) THEN TellsState(e.id.type) /\ TellsBindings(e.id.type, e.data)
                    ELSE UNCHANGED caseVars /\ Opened

\* applyAcceptedEvent writes what the event's type tells.
LEMMA AcceptTells ==
  ASSUME ProcTypeOK, NEW type \in EventType, NEW d \in Bindings, NEW u \in Times,
         NEW at \in Times, AcceptEvent(type, d, u, at)
  PROVE  TellsState(type) /\ TellsBindings(type, d)
<1>1. Admitted(type, d, u, at) /\ Moved(type)
  BY DEF AcceptEvent, Apply
<1>2. TellsState(type)
  <2>1. CASE Normal(type)
    BY <1>1, <2>1 DEF Admitted, NormalAdmitted, AuxiliaryAdmitted, Moved, TellsState
  <2>2. CASE ~Normal(type)
    BY <1>1, <2>2 DEF Admitted, Moved, TellsState
  <2> QED
    BY <2>1, <2>2
<1>3. type \in {INSTITUTION_APPROVED, INSTITUTION_REAPPROVED} => d.condition = conditionHash
  BY <1>1 DEF Admitted, NormalAdmitted, AuxiliaryAdmitted, ApprovalDataMatches
<1>4. TellsBindings(type, d)
  <2> USE DEF TellsBindings, PolicyTypes, ConditionTypes, PaymentTypes, ProofTypes
  <2>1. CASE EvidenceOnly(type)
    BY <2>1 DEF EvidenceOnly
  <2>2. CASE PolicyRun(type, d)
    BY <2>2 DEF PolicyRun
  <2>3. CASE UserConfirmation(type)
    BY <2>3 DEF UserConfirmation
  <2>4. CASE InstitutionApproval(type, d, u)
    BY <1>3, <2>4 DEF InstitutionApproval
  <2>5. CASE Invalidation(type)
    BY <2>5 DEF Invalidation
  <2>6. CASE PaymentRequirement(type, d)
    BY <2>6 DEF PaymentRequirement
  <2>7. CASE PaymentProof(type, d)
    BY <2>7 DEF PaymentProof
  <2>8. CASE SupplierOrder(type, d)
    BY <2>8 DEF SupplierOrder
  <2>9. CASE SupplierConfirmation(type)
    BY <2>9 DEF SupplierConfirmation
  <2> QED
    BY <2>1, <2>2, <2>3, <2>4, <2>5, <2>6, <2>7, <2>8, <2>9 DEF AcceptEvent, Apply
<1> QED
  BY <1>2, <1>4

LEMMA FailureTells ==
  ASSUME LedgerTypeOK, NEW key \in Keys, NEW hash \in Hashes, NEW id \in EventIds,
         id.kind \in FailureReasons, NEW record \in BOOLEAN,
         AppendFailure(key, hash, id, record)
  PROVE  UNCHANGED vars \/ \E e : Tells(e)
<1> DEFINE e == [id |-> id, hash |-> hash, data |-> Unbound, state |-> currentState,
                 previous |-> Len(log)]
<1>1. CASE ~Opened \/ Logged(id)
  BY <1>1 DEF AppendFailure, vars
<1>2. CASE Opened /\ ~Logged(id)
  <2>1. log' = Append(log, e) /\ UNCHANGED procVars
    BY <1>2 DEF AppendFailure, AppendEvent, LastEventHash
  <2>2. e \in Events
    BY <1>2 DEF Events, LedgerTypeOK, ProcTypeOK, Opened
  <2>3. ~Accepted(e)
    BY DEF Accepted, FailureReasons, UnsafeReasons, RefusalReasons
  <2>4. e.state = currentState'
    BY <2>1 DEF procVars, caseVars
  <2> HIDE DEF e
  <2> QED
    BY <1>2, <2>1, <2>2, <2>3, <2>4 DEF Tells, procVars
<1> QED
  BY <1>1, <1>2

\* A command stores nothing or tells the log what it does.
LEMMA ExecuteTells ==
  ASSUME LedgerTypeOK, NEW cmd \in AnyCommand, Execute(cmd)
  PROVE  UNCHANGED vars \/ \E e : Tells(e)
<1>1. /\ SemanticHash(cmd) \in SemanticHashes /\ SemanticHash(cmd) \in Hashes
      /\ SemanticHash(cmd).expected = cmd.expected
      /\ cmd.key \in Keys /\ cmd.type \in EventType /\ cmd.data \in Bindings
      /\ cmd.until \in Times /\ cmd.at \in Times
  BY CommandHashed
<1>2. CASE Replay(cmd)
  BY <1>2 DEF Replay
<1>3. CASE KeyConflict(cmd)
  <2>1. ConflictId(cmd) \in EventIds /\ ConflictId(cmd).kind \in FailureReasons
    BY <1>1 DEF ConflictId, EventIds, FailureReasons
  <2> QED
    BY <1>1, <1>3, <2>1, FailureTells DEF KeyConflict
<1>4. CASE Reject(cmd)
  <2> DEFINE id == FailureId(cmd.key, Rejection(cmd), cmd.type)
  <2>1. id \in EventIds /\ id.kind \in FailureReasons
    BY <1>1, RejectionKind DEF FailureId, EventIds, FailureReasons
  <2>2. AppendFailure(cmd.key, SemanticHash(cmd), id, TRUE)
    BY <1>4 DEF Reject
  <2> HIDE DEF id
  <2> QED
    BY <1>1, <2>1, <2>2, FailureTells
<1>5. CASE Accept(cmd)
  <2> DEFINE e == [id |-> AcceptedId(cmd), hash |-> SemanticHash(cmd), data |-> cmd.data,
                   state |-> IF Normal(cmd.type) THEN cmd.type ELSE currentState,
                   previous |-> Len(log)]
  <2>1. AcceptedId(cmd) \in EventIds
    BY <1>1 DEF AcceptedId, EventIds
  <2>2. log' = Append(log, e) /\ AcceptEvent(cmd.type, cmd.data, cmd.until, cmd.at)
    BY <1>5 DEF Accept, AppendEvent, LastEventHash
  <2>3. Admitted(cmd.type, cmd.data, cmd.until, cmd.at) /\ Moved(cmd.type)
    BY <2>2 DEF AcceptEvent, Apply
  <2>4. e.state \in CanonicalCaseState /\ e.state = currentState'
    BY <1>1, <2>3 DEF Admitted, Moved, LedgerTypeOK, ProcTypeOK
  <2>5. e \in Events
    BY <1>1, <2>1, <2>4 DEF Events, LedgerTypeOK, Hashes
  <2>6. TellsState(cmd.type) /\ TellsBindings(cmd.type, cmd.data)
    BY <1>1, <2>2, AcceptTells DEF LedgerTypeOK
  <2>7. Accepted(e) /\ e.id.type = cmd.type /\ e.data = cmd.data
    BY DEF Accepted, AcceptedId
  <2> HIDE DEF e
  <2> QED
    BY <2>2, <2>4, <2>5, <2>6, <2>7 DEF Tells
<1> QED
  BY <1>2, <1>3, <1>4, <1>5 DEF Execute

\* Every transaction stores nothing or tells the log what it does.
LEMMA StepTells ==
  ASSUME LedgerTypeOK, Next
  PROVE  UNCHANGED vars \/ \E e : Tells(e)
<1>1. ASSUME NEW cmd \in Commands, Execute(cmd)
      PROVE  UNCHANGED vars \/ \E e : Tells(e)
  BY <1>1, CommandsTyped, ExecuteTells
<1>2. ASSUME NEW key \in Keys, NEW type \in CommandTypes, NEW reason \in UnsafeReasons,
             RejectUnhashable(key, type, reason)
      PROVE  UNCHANGED vars \/ \E e : Tells(e)
  <2> DEFINE id == FailureId(key, reason, type)
  <2>1. id \in EventIds /\ id.kind \in FailureReasons /\ SafeHash(reason) \in Hashes
    BY CommandAssumption DEF FailureId, EventIds, FailureReasons, SafeHash, Hashes
  <2>2. AppendFailure(key, SafeHash(reason), id, ~Known(key))
    BY <1>2 DEF RejectUnhashable
  <2> HIDE DEF id
  <2>3. (~Known(key)) \in BOOLEAN
    BY DEF Known
  <2> QED
    BY <2>1, <2>2, <2>3, FailureTells
<1> QED
  BY <1>1, <1>2, FaultReason DEF Next
-----------------------------------------------------------------------------
\* Where the last event of some types is, after one more event.
LEMMA LastAfter ==
  ASSUME log \in Seq(Events), NEW e, log' = Append(log, e), NEW types
  PROVE  LastOf(types)' = IF Accepted(e) /\ e.id.type \in types
                          THEN {Len(log) + 1} ELSE LastOf(types)
<1> DEFINE n == Len(log)
<1>1. /\ n \in Nat /\ DOMAIN log = 1 .. n /\ DOMAIN log' = 1 .. (n + 1)
      /\ log'[n + 1] = e /\ \A i \in 1 .. n : log'[i] = log[i]
  OBVIOUS
<1> DEFINE Hit(i) == Accepted(log[i]) /\ log[i].id.type \in types
           HitNew == Accepted(e) /\ e.id.type \in types
<1>2. LastOf(types)' = {i \in 1 .. (n + 1) :
        /\ Accepted(log'[i]) /\ log'[i].id.type \in types
        /\ \A j \in 1 .. (n + 1) : Accepted(log'[j]) /\ log'[j].id.type \in types => j <= i}
  BY <1>1 DEF LastOf, Accepted
<1>3. LastOf(types) = {i \in 1 .. n : Hit(i) /\ \A j \in 1 .. n : Hit(j) => j <= i}
  BY <1>1 DEF LastOf
<1>4. CASE HitNew
  BY <1>1, <1>2, <1>4
<1>5. CASE ~HitNew
  BY <1>1, <1>2, <1>3, <1>5
<1> QED
  BY <1>4, <1>5

\* An event that is told keeps the log and the aggregate together.
LEMMA TellsKeeps ==
  ASSUME LedgerTypeOK, LedgerTypeOK', LogOpensCase, FollowsInv, NEW e, Tells(e)
  PROVE  FollowsInv'
<1> DEFINE n == Len(log)
<1>1. /\ e \in Events /\ log' = Append(log, e) /\ e.state = currentState'
      /\ log \in Seq(Events) /\ n \in Nat
  BY DEF Tells, LedgerTypeOK
<1>2. /\ DOMAIN log = 1 .. n /\ DOMAIN log' = 1 .. (n + 1) /\ Len(log') = n + 1
      /\ log'[n + 1] = e /\ \A i \in 1 .. n : log'[i] = log[i] /\ log[i] \in Events
  BY <1>1
<1>3. /\ currentState \in -1 .. 11 /\ currentState' \in -1 .. 11
      /\ \A i \in 1 .. n : log[i].state \in 0 .. 11 /\ log[i].id.type \in 0 .. 18
      /\ e.state \in 0 .. 11 /\ e.id.type \in 0 .. 18
  <2>1. currentState \in -1 .. 11 /\ currentState' \in -1 .. 11
    BY DEF LedgerTypeOK, ProcTypeOK
  <2>2. \A x \in Events : x.state \in 0 .. 11 /\ x.id.type \in 0 .. 18
    BY DEF Events, EventIds
  <2> QED
    BY <1>1, <1>2, <2>1, <2>2
<1>4. currentState <= currentState'
  BY <1>1, <1>3 DEF Tells, TellsState, caseVars
<1>5. \A i \in 1 .. n : log[i].state <= currentState
  BY <1>2 DEF FollowsInv, NoEventAhead
<1>6. NoEventAhead'
  <2> SUFFICES ASSUME NEW i \in 1 .. (n + 1) PROVE log'[i].state <= currentState'
    BY <1>2 DEF NoEventAhead
  <2>1. CASE i \in 1 .. n
    BY <1>2, <1>3, <1>4, <1>5, <2>1
  <2>2. CASE i = n + 1
    BY <1>1, <1>2, <1>3, <2>2
  <2> QED
    BY <1>1, <2>1, <2>2
<1>7. ASSUME NEW types
      PROVE  LastOf(types)' = IF Accepted(e) /\ e.id.type \in types
                              THEN {n + 1} ELSE LastOf(types)
  BY <1>1, LastAfter
<1>8. ASSUME NEW types PROVE LastOf(types) \subseteq 1 .. n
  BY <1>2 DEF LastOf
<1>9. \A s \in 0 .. 11 : s <= currentState' <=>
        \E i \in 1 .. (n + 1) : Accepted(log'[i]) /\ log'[i].id.type = s
  <2> TAKE s \in 0 .. 11
  <2>1. s <= currentState <=> \E i \in 1 .. n : Accepted(log[i]) /\ log[i].id.type = s
    BY <1>2 DEF FollowsInv, AggregateFollowsLog
  <2>2. (\E i \in 1 .. (n + 1) : Accepted(log'[i]) /\ log'[i].id.type = s) <=>
          \/ \E i \in 1 .. n : Accepted(log[i]) /\ log[i].id.type = s
          \/ Accepted(e) /\ e.id.type = s
    BY <1>1, <1>2
  <2>3. s <= currentState' <=> s <= currentState \/ (Accepted(e) /\ e.id.type = s)
    <3>1. CASE ~Accepted(e)
      BY <3>1 DEF Tells, caseVars
    <3>2. CASE Accepted(e) /\ Normal(e.id.type)
      BY <1>3, <3>2 DEF Tells, TellsState
    <3>3. CASE Accepted(e) /\ ~Normal(e.id.type)
      BY <1>3, <3>3 DEF Tells, TellsState
    <3> QED
      BY <3>1, <3>2, <3>3
  <2> QED
    BY <2>1, <2>2, <2>3
<1>10. \A i, j \in 1 .. (n + 1) :
         Accepted(log'[i]) /\ Accepted(log'[j]) /\ i < j => log'[i].state <= log'[j].state
  <2> TAKE i, j \in 1 .. (n + 1)
  <2> HAVE Accepted(log'[i]) /\ Accepted(log'[j]) /\ i < j
  <2>1. CASE j = n + 1
    <3>1. i \in 1 .. n
      BY <1>1, <2>1
    <3>2. log'[i] = log[i] /\ log'[j].state = currentState'
      BY <1>1, <1>2, <2>1, <3>1
    <3>3. log[i].state <= currentState /\ log[i].state \in 0 .. 11
      BY <1>3, <1>5, <3>1
    <3> QED
      BY <1>3, <1>4, <3>2, <3>3
  <2>2. CASE j # n + 1
    <3>1. i \in 1 .. n /\ j \in 1 .. n
      BY <1>1, <2>2
    <3>2. log'[i] = log[i] /\ log'[j] = log[j]
      BY <1>2, <3>1
    <3> QED
      BY <1>2, <3>1, <3>2 DEF FollowsInv, AggregateFollowsLog
  <2> QED
    BY <2>1, <2>2
<1>11. \A i \in LastOf(ConditionTypes)' : conditionHash' = log'[i].data.condition
  <2>1. CASE Accepted(e) /\ e.id.type \in ConditionTypes
    BY <1>2, <1>7, <2>1 DEF Tells, TellsBindings
  <2>2. CASE ~(Accepted(e) /\ e.id.type \in ConditionTypes)
    <3>1. LastOf(ConditionTypes)' = LastOf(ConditionTypes) /\ conditionHash' = conditionHash
      BY <1>7, <2>2 DEF Tells, TellsBindings, caseVars
    <3>2. \A i \in LastOf(ConditionTypes) : conditionHash = log[i].data.condition
      BY DEF FollowsInv, AggregateFollowsLog, ConditionTypes
    <3> QED
      BY <1>2, <1>8, <3>1, <3>2
  <2> QED
    BY <2>1, <2>2
<1>12. \A i \in LastOf(PaymentTypes)' : x402'.revision = log'[i].data.revision
  <2>1. CASE Accepted(e) /\ e.id.type \in PaymentTypes
    BY <1>2, <1>7, <2>1 DEF Tells, TellsBindings
  <2>2. CASE ~(Accepted(e) /\ e.id.type \in PaymentTypes)
    <3>1. LastOf(PaymentTypes)' = LastOf(PaymentTypes) /\ x402' = x402
      BY <1>7, <2>2 DEF Tells, TellsBindings, caseVars
    <3>2. \A i \in LastOf(PaymentTypes) : x402.revision = log[i].data.revision
      BY DEF FollowsInv, AggregateFollowsLog, PaymentTypes, JudgeView
    <3> QED
      BY <1>2, <1>8, <3>1, <3>2
  <2> QED
    BY <2>1, <2>2
<1>13. \A i \in LastOf(ProofTypes)' : devnet'.revision = log'[i].data.revision
  <2>1. CASE Accepted(e) /\ e.id.type \in ProofTypes
    BY <1>2, <1>7, <2>1 DEF Tells, TellsBindings
  <2>2. CASE ~(Accepted(e) /\ e.id.type \in ProofTypes)
    <3>1. LastOf(ProofTypes)' = LastOf(ProofTypes) /\ devnet' = devnet
      BY <1>7, <2>2 DEF Tells, TellsBindings, caseVars
    <3>2. \A i \in LastOf(ProofTypes) : devnet.revision = log[i].data.revision
      BY DEF FollowsInv, AggregateFollowsLog, ProofTypes, JudgeView
    <3> QED
      BY <1>2, <1>8, <3>1, <3>2
  <2> QED
    BY <2>1, <2>2
<1>14. \A i \in LastOf(PolicyTypes)' : log'[i].data.condition = conditionHash'
  <2>1. CASE Accepted(e) /\ e.id.type \in PolicyTypes
    BY <1>2, <1>7, <2>1 DEF Tells, TellsBindings, PolicyTypes, ConditionTypes
  <2>2. CASE ~(Accepted(e) /\ e.id.type \in PolicyTypes)
    <3>1. LastOf(PolicyTypes)' = LastOf(PolicyTypes) /\ conditionHash' = conditionHash
      BY <1>7, <2>2 DEF Tells, TellsBindings, caseVars
    <3>2. \A i \in LastOf(PolicyTypes) : log[i].data.condition = conditionHash
      BY DEF FollowsInv, AggregateFollowsLog, PolicyTypes, InstitutionView, Amount
    <3> QED
      BY <1>2, <1>8, <3>1, <3>2
  <2> QED
    BY <2>1, <2>2
<1>15. supplierConfirmed' <=> LastOf({SUPPLIER_CONFIRMED})' # {}
  <2>1. supplierConfirmed <=> LastOf({SUPPLIER_CONFIRMED}) # {}
    BY DEF FollowsInv, AggregateFollowsLog, SupplierView, RecipientView
  <2>2. CASE Accepted(e) /\ e.id.type = SUPPLIER_CONFIRMED
    BY <1>7, <2>2 DEF Tells, TellsBindings
  <2>3. CASE ~(Accepted(e) /\ e.id.type = SUPPLIER_CONFIRMED)
    <3>1. LastOf({SUPPLIER_CONFIRMED})' = LastOf({SUPPLIER_CONFIRMED})
      BY <1>7, <2>3
    <3>2. supplierConfirmed' <=> supplierConfirmed
      BY <2>3 DEF Tells, TellsBindings, caseVars
    <3> QED
      BY <2>1, <3>1, <3>2
  <2> QED
    BY <2>2, <2>3
<1>16. AggregateFollowsLog'
  <2>1. \A s \in CanonicalCaseState : s <= currentState' <=>
          \E i \in DOMAIN log' : Accepted(log'[i]) /\ log'[i].id.type = s
    BY <1>2, <1>9
  <2>2. \A i \in LastOf({POLICY_EVALUATED, POLICY_REEVALUATED, INSTITUTION_APPROVED,
                         INSTITUTION_REAPPROVED})' : conditionHash' = log'[i].data.condition
    BY <1>11 DEF ConditionTypes
  <2>3. \A i \in LastOf({X402_REQUIRED, X402_REBOUND})' : x402'.revision = log'[i].data.revision
    BY <1>12 DEF PaymentTypes
  <2>4. \A i \in LastOf({DEVNET_PROOF_FINALIZED, DEVNET_PROOF_REFINALIZED})' :
          devnet'.revision = log'[i].data.revision
    BY <1>13 DEF ProofTypes
  <2>5. Amount' \subseteq {conditionHash'}
    BY <1>14 DEF Amount, PolicyTypes
  <2>6. [i \in DOMAIN log' |-> log'[i].state][Len(log')] = currentState'
    BY <1>1, <1>2
  <2> QED
    BY <1>2, <1>10, <1>15, <2>1, <2>2, <2>3, <2>4, <2>5, <2>6
       DEF AggregateFollowsLog, JudgeView, InstitutionView, SupplierView, RecipientView,
           ChainView, Accepted
<1> QED
  BY <1>6, <1>16 DEF FollowsInv

\* Whatever failures lie between the accepted events, the aggregate says what
\* they say, and the views of the roles agree with each other (projections.ts).
THEOREM AggregateIsTheLog == Spec => []AggregateFollowsLog
<1>1. Init => FollowsInv
  <2> SUFFICES ASSUME Init PROVE FollowsInv
    OBVIOUS
  <2>1. /\ log = <<>> /\ DOMAIN log = {} /\ currentState = -1
        /\ supplierConfirmed = FALSE
    BY DEF Init, ProcInit
  <2>2. ASSUME NEW types PROVE LastOf(types) = {}
    BY <2>1 DEF LastOf
  <2>3. Amount = {}
    BY <2>2 DEF Amount
  <2>4. \A s \in CanonicalCaseState : ~(s <= currentState)
    BY <2>1
  <2> QED
    BY <2>1, <2>2, <2>3, <2>4 DEF FollowsInv, AggregateFollowsLog, NoEventAhead, Opened,
       SupplierView, RecipientView, InstitutionView
<1>2. LedgerTypeOK /\ LedgerTypeOK' /\ LedgerInv /\ FollowsInv /\ [Next]_vars => FollowsInv'
  <2> SUFFICES ASSUME LedgerTypeOK, LedgerTypeOK', LedgerInv, FollowsInv, [Next]_vars
               PROVE  FollowsInv'
    OBVIOUS
  <2>1. CASE UNCHANGED vars
    <3>1. /\ log' = log /\ currentState' = currentState /\ conditionHash' = conditionHash
          /\ x402' = x402 /\ devnet' = devnet /\ supplierConfirmed' = supplierConfirmed
      BY <2>1 DEF vars, procVars, caseVars, ledgerVars
    <3>2. ASSUME NEW types PROVE LastOf(types)' = LastOf(types)
      BY <3>1 DEF LastOf, Accepted
    <3>3. Amount' = Amount
      BY <3>1, <3>2 DEF Amount
    <3> QED
      BY <3>1, <3>2, <3>3 DEF FollowsInv, AggregateFollowsLog, NoEventAhead, Accepted, Opened,
         JudgeView, InstitutionView, SupplierView, RecipientView, ChainView
  <2>2. ASSUME NEW e, Tells(e) PROVE FollowsInv'
    BY <2>2, TellsKeeps DEF LedgerInv
  <2> QED
    BY <2>1, <2>2, StepTells
<1>3. FollowsInv => AggregateFollowsLog
  BY DEF FollowsInv
<1> QED
  BY <1>1, <1>2, <1>3, LedgerTypeCorrect, PTL DEF Spec
=============================================================================
