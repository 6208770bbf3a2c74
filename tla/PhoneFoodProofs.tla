-------------------------- MODULE PhoneFoodProofs --------------------------
(***************************************************************************)
(* What holds of a food order by telephone for every number of concurrent  *)
(* webhooks, every set of offers and utterances, and whatever stops: its   *)
(* types, that what is claimed for payment is what the caller confirmed    *)
(* (OrderedAsConfirmed), that a case has one candidate and one             *)
(* confirmation for ever (AgreementIsFinal), and that an order is never    *)
(* forgotten (OrderNeverForgotten).                                        *)
(*                                                                         *)
(* None of them is inductive.  They rest on what every job knows at every  *)
(* step it can be at (JobInv): each was told something by a document or by *)
(* the ledger, and what it was told never stops being true (Grows).        *)
(***************************************************************************)
EXTENDS PhoneFood, CaseLedgerProofs

\* The key of an event type stands for the terms.
Stands(type, terms) == Known(type) /\ idempotency[type].hash.data.condition = terms

\* An accepted event has its type's key, and the hash of its data.
KeysAreTypes ==
  \A i \in DOMAIN log : Accepted(log[i]) =>
    log[i].id.key = log[i].id.type /\ log[i].hash.data = log[i].data

(***************************************************************************)
(* What a job knows.                                                       *)
(***************************************************************************)
ShortSteps == {"transition", "save"}
EventSteps == {"advance", "execute", "conflict"}
OrderSteps == {"submit", "submitting", "preview", "claim", "post"}

StepsOf(kind) ==
  CASE kind = "BEGIN"     -> {"open", "create", "enrol"}
    [] kind = "INTERPRET" -> EventSteps \cup ShortSteps
    [] kind = "SELECT"    -> EventSteps \cup ShortSteps
    [] kind = "CONFIRM"   -> {"value", "consume", "hold", "rollup"} \cup EventSteps
                             \cup OrderSteps \cup ShortSteps
    [] kind = "CANCEL"    -> {"value"} \cup ShortSteps
    [] kind = "RECONCILE" -> {"rollup", "record"}
    [] OTHER              -> {}

JobPlaced(b) ==
  /\ b.step \in StepsOf(b.kind)
  /\ b.kind # "BEGIN" => phone # None
  /\ b.step = "enrol" => case # None /\ phone = None

\* A selection that has passed the ledger carries the terms the policy key
\* stands for.
JobSelects(b) ==
  /\ b.kind \in {"INTERPRET", "SELECT"} /\ b.step \in {"advance", "execute"} =>
       b.terms \in Conditions
  /\ b.kind = "SELECT" /\ b.step \in {"advance", "execute"} => b.terms \in Offers
  /\ b.kind = "SELECT" /\ b.step = "transition" /\ b.state = "AWAITING_CONFIRMATION" =>
       b.terms \in Offers /\ Stands(POLICY_EVALUATED, b.terms)
  /\ b.state = "AWAITING_CONFIRMATION" => b.kind = "SELECT"
  /\ b.state \notin {"CONFIRMED", "ORDER_SUBMITTING"}

\* A confirmation carries the candidate, then the commitment, then the terms
\* the confirmation's key stands for.
JobConfirms(b) ==
  b.kind = "CONFIRM" =>
    /\ b.step \notin {"value"} \cup ShortSteps =>
         b.terms \in Offers /\ case.candidate = b.terms
    /\ b.step \notin {"value", "consume"} \cup ShortSteps => case.commitment = b.terms
    /\ b.step \in OrderSteps => Stands(USER_CONFIRMED, b.terms)

\* A job that is to record an order has one that the supplier has taken.
JobOrders(b) ==
  /\ b.kind \in {"INTERPRET", "SELECT", "CANCEL"} => b.status # "ORDERED"
  /\ b.step \in {"post", "rollup"} => execution # None
  /\ b.step \in {"rollup", "record"} => supplierOrder
  /\ b.step = "record" => case.ordered
  /\ b.step \in ShortSteps /\ b.status = "ORDERED" => supplierOrder /\ case.ordered

JobInv(b) == JobPlaced(b) /\ JobSelects(b) /\ JobConfirms(b) /\ JobOrders(b)

JobsKnow == \A j \in Jobs : job[j] # None => JobInv(job[j])

OneEnrols == \A j, k \in Jobs : At(j, "enrol") /\ At(k, "enrol") => j = k

CaseAgrees ==
  case # None =>
    /\ case.candidate # None => Stands(POLICY_EVALUATED, case.candidate)
    /\ case.commitment # None => case.commitment = case.candidate
    /\ case.state \in {"CONFIRMED", "ORDER_SUBMITTING"} => case.commitment # None

DocsFollow ==
  /\ phone # None => case # None
  /\ phone # None /\ phone.ordered => supplierOrder /\ case.ordered
  /\ execution # None => phone # None

PhoneInv ==
  /\ LedgerInv
  /\ KeysAreTypes
  /\ CaseAgrees
  /\ DocsFollow
  /\ OrderedAsConfirmed
  /\ JobsKnow
  /\ OneEnrols
-----------------------------------------------------------------------------
(***************************************************************************)
(* The ledger under the telephone.                                         *)
(***************************************************************************)
RecordsStay ==
  \A k \in Keys : Known(k) => idempotency'[k] # None /\ idempotency'[k] = idempotency[k]

LEMMA KeysStay ==
  ASSUME LedgerTypeOK, KeysAreTypes, NEW cmd \in AnyCommand, cmd.key = cmd.type, Execute(cmd)
  PROVE  KeysAreTypes'
<1>1. ASSUME NEW e, log' = Append(log, e),
             Accepted(e) => e.id.key = e.id.type /\ e.hash.data = e.data
      PROVE  KeysAreTypes'
  <2>1. log \in Seq(Events)
    BY DEF LedgerTypeOK
  <2>2. /\ DOMAIN log' = 1 .. (Len(log) + 1) /\ DOMAIN log = 1 .. Len(log)
        /\ Len(log) \in Nat
        /\ log'[Len(log) + 1] = e /\ \A i \in 1 .. Len(log) : log'[i] = log[i]
    BY <1>1, <2>1
  <2> SUFFICES ASSUME NEW i \in DOMAIN log', Accepted(log'[i])
               PROVE  log'[i].id.key = log'[i].id.type /\ log'[i].hash.data = log'[i].data
    BY DEF KeysAreTypes, Accepted
  <2>3. CASE i \in 1 .. Len(log)
    BY <2>2, <2>3 DEF KeysAreTypes
  <2>4. CASE i = Len(log) + 1
    BY <1>1, <2>2, <2>4
  <2> QED
    BY <2>2, <2>3, <2>4
<1>2. ASSUME log' = log PROVE KeysAreTypes'
  BY <1>2 DEF KeysAreTypes, Accepted
<1>3. ASSUME NEW key, NEW hash, NEW id, NEW record, id.kind # "ACCEPTED",
             AppendFailure(key, hash, id, record)
      PROVE  KeysAreTypes'
  <2> DEFINE e == [id |-> id, hash |-> hash, data |-> Unbound, state |-> currentState,
                   previous |-> Len(log)]
  <2>1. ~Accepted(e)
    BY <1>3 DEF Accepted
  <2>2. log' = log \/ log' = Append(log, e)
    BY <1>3 DEF AppendFailure, AppendEvent, LastEventHash, ledgerVars
  <2> HIDE DEF e
  <2> QED
    BY <1>1, <1>2, <2>1, <2>2
<1>4. CASE Replay(cmd)
  BY <1>2, <1>4 DEF Replay, vars, ledgerVars
<1>5. CASE KeyConflict(cmd)
  <2>1. ConflictId(cmd).kind # "ACCEPTED"
    BY DEF ConflictId
  <2>2. AppendFailure(cmd.key, SemanticHash(cmd), ConflictId(cmd), FALSE)
    BY <1>5 DEF KeyConflict
  <2> QED
    BY <1>3, <2>1, <2>2
<1>6. CASE Reject(cmd)
  <2> DEFINE id == FailureId(cmd.key, Rejection(cmd), cmd.type)
  <2>1. id.kind # "ACCEPTED"
    BY RejectionKind DEF FailureId, RefusalReasons
  <2>2. AppendFailure(cmd.key, SemanticHash(cmd), id, TRUE)
    BY <1>6 DEF Reject
  <2> QED
    BY <1>3, <2>1, <2>2
<1>7. CASE Accept(cmd)
  <2> DEFINE e == [id |-> AcceptedId(cmd), hash |-> SemanticHash(cmd), data |-> cmd.data,
                   state |-> IF Normal(cmd.type) THEN cmd.type ELSE currentState,
                   previous |-> Len(log)]
  <2>1. log' = Append(log, e)
    BY <1>7 DEF Accept, AppendEvent, LastEventHash
  <2>2. e.id.key = e.id.type /\ e.hash.data = e.data
    BY DEF AcceptedId, SemanticHash
  <2> HIDE DEF e
  <2> QED
    BY <1>1, <2>1, <2>2
<1> QED
  BY <1>4, <1>5, <1>6, <1>7 DEF Execute

LEMMA LedgerStill ==
  ASSUME LedgerTypeOK, LedgerInv, KeysAreTypes, UNCHANGED vars
  PROVE  LedgerTypeOK' /\ LedgerInv' /\ KeysAreTypes' /\ RecordsStay
  BY DEF vars, procVars, caseVars, histVars, ledgerVars, LedgerTypeOK, ProcTypeOK, LedgerInv,
     RecordsMatchLog, OneEventPerCommand, DecidedOnTail, EventsExplained, LogOpensCase, Opened,
     Known, Accepted, RecordsStay, KeysAreTypes

LEMMA ExecuteKeepsLedger ==
  ASSUME LedgerTypeOK, LedgerInv, NEW cmd \in AnyCommand, Execute(cmd)
  PROVE  LedgerTypeOK' /\ LedgerInv' /\ RecordsStay
<1>1. ProcTypeOK'
  <2>1. CASE Accept(cmd)
    BY <2>1, CommandHashed, AcceptKeepsType DEF Accept, LedgerTypeOK
  <2>2. CASE UNCHANGED procVars
    BY <2>2 DEF procVars, caseVars, histVars, LedgerTypeOK, ProcTypeOK
  <2> QED
    BY <2>1, <2>2 DEF Execute, Replay, KeyConflict, Reject, AppendFailure, vars
<1>2. ASSUME UNCHANGED vars PROVE LedgerTypeOK' /\ LedgerInv' /\ RecordsStay
  BY <1>1, <1>2 DEF vars, procVars, caseVars, ledgerVars, LedgerTypeOK, LedgerInv,
     RecordsMatchLog, OneEventPerCommand, DecidedOnTail, EventsExplained, LogOpensCase, Opened,
     Known, Accepted, RecordsStay
<1>3. ASSUME NEW e, Appends(e) PROVE LedgerTypeOK' /\ LedgerInv' /\ RecordsStay
  <2>1. e.id.key \in Keys
    BY <1>3 DEF Appends, Events, EventIds
  <2>2. RecordsStay
    BY <1>3, <2>1 DEF Appends, FitsUnsafe, FitsConflict, FitsDecided, Recorded, LedgerTypeOK,
       Known, RecordsStay
  <2> QED
    BY <1>1, <1>3, <2>2, AppendKeepsTypes, AppendKeepsInv DEF LedgerTypeOK
<1> QED
  BY <1>2, <1>3, ExecuteAppends

\* A command that was taken is the one its key stands for.
LEMMA TakenIsRecorded ==
  ASSUME LedgerTypeOK, NEW cmd \in AnyCommand, Execute(cmd), CommandTaken(cmd)
  PROVE  idempotency'[cmd.key] # None /\ idempotency'[cmd.key].hash.data = cmd.data
<1>1. cmd.key \in Keys /\ SemanticHash(cmd).data = cmd.data /\ SemanticHash(cmd) \in Hashes
  BY CommandHashed
<1>2. CASE Known(cmd.key)
  <2>1. idempotency' = idempotency /\ idempotency[cmd.key].hash = SemanticHash(cmd)
    BY <1>2 DEF Execute, Replay, KeyConflict, Reject, Accept, CommandTaken, vars, ledgerVars
  <2> QED
    BY <1>1, <1>2, <2>1 DEF Known
<1>3. CASE ~Known(cmd.key)
  <2> DEFINE r == [hash |-> SemanticHash(cmd), id |-> AcceptedId(cmd), result |-> "ACCEPTED"]
  <2>1. Accept(cmd)
    BY <1>3 DEF Execute, Replay, KeyConflict, Reject, CommandTaken
  <2>2. idempotency' = [idempotency EXCEPT ![cmd.key] = r]
    BY <2>1 DEF Accept, Record
  <2>3. AcceptedId(cmd) \in EventIds
    BY CommandHashed DEF AcceptedId, EventIds
  <2>4. r \in Records /\ r.hash.data = cmd.data
    BY <1>1, <2>3 DEF Records
  <2>5. idempotency'[cmd.key] = r
    BY <1>1, <2>2 DEF LedgerTypeOK
  <2> HIDE DEF r
  <2> QED
    BY <2>4, <2>5, NoRecordAssumption
<1> QED
  BY <1>2, <1>3
-----------------------------------------------------------------------------
(***************************************************************************)
(* What a step never takes back, and what the other jobs therefore still   *)
(* know after it.                                                          *)
(***************************************************************************)
Grows ==
  /\ RecordsStay
  /\ case # None =>
       /\ case' # None
       /\ case.candidate # None => case'.candidate = case.candidate
       /\ case.commitment # None => case'.commitment = case.commitment
       /\ case.ordered => case'.ordered
  /\ phone # None => phone' # None /\ (phone.ordered => phone'.ordered)
  /\ execution # None => execution' # None /\ execution'.terms = execution.terms
  /\ supplierOrder => supplierOrder'

\* Only the job at hand changes.
OnlyJob(j) ==
  /\ job' \in [Jobs -> Job \cup {None}]
  /\ \A k \in Jobs \ {j} : job'[k] = job[k]

LEMMA KeyTypes == POLICY_EVALUATED \in Keys /\ USER_CONFIRMED \in Keys
  BY PhoneKeys

LEMMA StandsStill ==
  ASSUME RecordsStay, NEW type \in Keys, NEW terms, Stands(type, terms)
  PROVE  idempotency'[type] # None /\ idempotency'[type].hash.data.condition = terms
  BY DEF RecordsStay, Stands, Known

LEMMA KnowsStill ==
  ASSUME PhoneTypeOK, DocsFollow, Grows,
         NEW k \in Jobs, job[k] # None, job'[k] = job[k], JobInv(job[k]),
         job[k].step = "enrol" => phone' = None
  PROVE  JobInv(job[k])'
<1>1. job[k] \in Job /\ job[k].kind \in Kinds /\ job[k].step \in Steps
  BY DEF PhoneTypeOK, Job
<1>2. job[k].kind # "BEGIN" => case # None
  BY DEF JobInv, JobPlaced, DocsFollow
<1>3. JobPlaced(job[k])'
  BY DEF JobInv, JobPlaced, Grows
<1>4. JobSelects(job[k])'
  BY KeyTypes, StandsStill DEF JobInv, JobSelects, Grows, Stands, Known
<1>5. JobConfirms(job[k])'
  BY <1>2, KeyTypes, StandsStill, PhoneConditions, NoneAssumption
     DEF JobInv, JobConfirms, Grows, Stands, Known
<1>6. JobOrders(job[k])'
  <2>1. job[k].step \in {"record"} \cup ShortSteps => job[k].kind # "BEGIN"
    BY DEF JobInv, JobPlaced, StepsOf, ShortSteps
  <2> QED
    BY <1>2, <2>1 DEF JobInv, JobOrders, Grows
<1> QED
  BY <1>3, <1>4, <1>5, <1>6 DEF JobInv

\* What is left to show of a step of job j.
LEMMA StepKeeps ==
  ASSUME PhoneTypeOK, PhoneInv, Grows, NEW j \in Jobs, OnlyJob(j),
         job'[j] # None => JobInv(job[j])' /\ (job'[j].step = "enrol" => case = None),
         phone = None => phone' = None \/ At(j, "enrol"),
         LedgerInv', KeysAreTypes', CaseAgrees', DocsFollow', OrderedAsConfirmed'
  PROVE  PhoneInv'
<1>1. ASSUME NEW k \in Jobs \ {j}, job[k] # None
      PROVE  JobInv(job[k])' /\ (job[k].step = "enrol" => case # None /\ ~At(j, "enrol"))
  <2>1. job'[k] = job[k] /\ JobInv(job[k])
    BY <1>1 DEF OnlyJob, PhoneInv, JobsKnow
  <2>2. job[k].step = "enrol" => case # None /\ phone = None /\ ~At(j, "enrol")
    BY <1>1, <2>1 DEF JobInv, JobPlaced, PhoneInv, OneEnrols, At
  <2> QED
    BY <1>1, <2>1, <2>2, KnowsStill DEF PhoneInv
<1>2. JobsKnow'
  BY <1>1 DEF JobsKnow, OnlyJob
<1>3. OneEnrols'
  BY <1>1 DEF OneEnrols, At, OnlyJob, PhoneInv
<1> QED
  BY <1>2, <1>3 DEF PhoneInv

LEMMA CaseStill ==
  ASSUME PhoneInv, Grows, case' = case PROVE CaseAgrees'
  BY KeyTypes, StandsStill DEF PhoneInv, CaseAgrees, Grows, Stands, Known

LEMMA DocsStill ==
  ASSUME PhoneTypeOK, PhoneInv, Grows, phone' = phone, execution' = execution
  PROVE  DocsFollow' /\ OrderedAsConfirmed'
<1>1. DocsFollow'
  BY DEF PhoneInv, DocsFollow, Grows
<1>2. OrderedAsConfirmed'
  <2> SUFFICES ASSUME execution # None PROVE OrderedAsConfirmed'
    BY DEF OrderedAsConfirmed
  <2>1. case # None /\ execution.terms # None
    BY PhoneConditions, NoneAssumption DEF PhoneInv, DocsFollow, PhoneTypeOK, Execution
  <2> QED
    BY <2>1, KeyTypes DEF PhoneInv, OrderedAsConfirmed, Grows, RecordsStay, Known
<1> QED
  BY <1>1, <1>2
-----------------------------------------------------------------------------
(***************************************************************************)
(* How a job goes on.                                                      *)
(***************************************************************************)
Becomes(j, step, terms, state, status) ==
  /\ OnlyJob(j)
  /\ job'[j] \in Job /\ job'[j] # None
  /\ job'[j].kind = job[j].kind
  /\ job'[j].step = step /\ job'[j].terms = terms
  /\ job'[j].state = state /\ job'[j].status = status

Ends(j) == OnlyJob(j) /\ job'[j] = None

LEMMA EndingBecomes ==
  ASSUME PhoneTypeOK, NEW j \in Jobs, job[j] # None, NEW step \in Steps,
         NEW state \in CaseState, NEW status \in PhoneStatus, Ending(j, step, state, status)
  PROVE  Becomes(j, step, job[j].terms, state, status)
<1> DEFINE b == [job[j] EXCEPT !.step = step, !.expected = 0, !.state = state, !.status = status]
<1>1. job[j] \in Job
  BY DEF PhoneTypeOK
<1>2. b \in Job /\ b.kind = job[j].kind /\ b.step = step /\ b.terms = job[j].terms
      /\ b.state = state /\ b.status = status
  BY <1>1 DEF Job
<1>3. job' = [job EXCEPT ![j] = b]
  BY DEF Ending, PhoneTypeOK
<1> HIDE DEF b
<1>4. OnlyJob(j) /\ job'[j] = b
  BY <1>2, <1>3 DEF OnlyJob, PhoneTypeOK
<1> QED
  BY <1>2, <1>4, NoDocumentAssumption DEF Becomes

LEMMA GotoBecomes ==
  ASSUME PhoneTypeOK, NEW j \in Jobs, job[j] # None, NEW step \in Steps, Goto(j, step)
  PROVE  Becomes(j, step, job[j].terms, job[j].state, job[j].status)
<1> DEFINE b == [job[j] EXCEPT !.step = step, !.expected = 0]
<1>1. job[j] \in Job
  BY DEF PhoneTypeOK
<1>2. b \in Job /\ b.kind = job[j].kind /\ b.step = step /\ b.terms = job[j].terms
      /\ b.state = job[j].state /\ b.status = job[j].status
  BY <1>1 DEF Job
<1>3. job' = [job EXCEPT ![j] = b]
  BY DEF Goto, PhoneTypeOK
<1> HIDE DEF b
<1>4. OnlyJob(j) /\ job'[j] = b
  BY <1>2, <1>3 DEF OnlyJob, PhoneTypeOK
<1> QED
  BY <1>2, <1>4, NoDocumentAssumption DEF Becomes

LEMMA DoneEnds ==
  ASSUME PhoneTypeOK, NEW j \in Jobs, Done(j) PROVE Ends(j)
  BY DEF Done, Ends, OnlyJob, PhoneTypeOK
-----------------------------------------------------------------------------
(***************************************************************************)
(* Steps that only take a job on.                                          *)
(***************************************************************************)
Kept == PhoneTypeOK' /\ PhoneInv' /\ Grows

LEMMA LedgerTurns ==
  ASSUME PhoneTypeOK, PhoneInv, LedgerTypeOK', LedgerInv', KeysAreTypes', RecordsStay,
         UNCHANGED <<docVars, orderVars>>, NEW j \in Jobs, OnlyJob(j),
         job'[j] # None => JobInv(job[j])' /\ job'[j].step # "enrol"
  PROVE  Kept
<1>1. /\ case' = case /\ phone' = phone /\ execution' = execution
      /\ supplierOrder' = supplierOrder /\ termsChanged' = termsChanged
  BY DEF docVars, orderVars
<1>2. PhoneTypeOK'
  BY <1>1 DEF PhoneTypeOK, OnlyJob
<1>3. Grows
  BY <1>1 DEF Grows
<1> QED
  BY <1>1, <1>2, <1>3, StepKeeps, CaseStill, DocsStill DEF Kept

LEMMA JobTurns ==
  ASSUME PhoneTypeOK, PhoneInv, UNCHANGED <<vars, docVars, orderVars>>,
         NEW j \in Jobs, OnlyJob(j),
         job'[j] # None => JobInv(job[j])' /\ job'[j].step # "enrol"
  PROVE  Kept
<1>1. LedgerTypeOK' /\ LedgerInv' /\ KeysAreTypes' /\ RecordsStay
  BY LedgerStill DEF PhoneTypeOK, PhoneInv
<1> QED
  BY <1>1, LedgerTurns

LEMMA StartKeeps ==
  ASSUME PhoneTypeOK, PhoneInv, NEW kind \in Kinds, NEW step \in Steps \ {"enrol"},
         NEW terms \in Conditions \cup {None}, NEW state \in CaseState,
         NEW status \in PhoneStatus, Start(kind, step, terms, state, status),
         JobInv([kind |-> kind, step |-> step, terms |-> terms, state |-> state,
                 status |-> status])
  PROVE  Kept
<1> DEFINE b == [kind |-> kind, step |-> step, terms |-> terms, expected |-> 0,
                 revision |-> IF phone = None THEN 0 ELSE phone.revision,
                 ordered |-> phone # None /\ phone.ordered, state |-> state, status |-> status]
<1>1. b \in Job
  <2>1. (IF phone = None THEN 0 ELSE phone.revision) \in Nat
    BY DEF PhoneTypeOK, Phone
  <2>2. (phone # None /\ phone.ordered) \in BOOLEAN
    BY DEF PhoneTypeOK, Phone
  <2> QED
    BY <2>1, <2>2 DEF Job
<1>2. /\ b.kind = kind /\ b.step = step /\ b.terms = terms
      /\ b.state = state /\ b.status = status
  OBVIOUS
<1>3. PICK j \in Jobs : job' = [job EXCEPT ![j] = b]
  BY DEF Start
<1>4. UNCHANGED <<vars, docVars, orderVars>>
  BY DEF Start
<1> HIDE DEF b
<1>5. OnlyJob(j) /\ job'[j] = b
  BY <1>1, <1>3 DEF OnlyJob, PhoneTypeOK
<1>6. /\ case' = case /\ phone' = phone /\ execution' = execution
      /\ supplierOrder' = supplierOrder /\ idempotency' = idempotency
  BY <1>4 DEF vars, ledgerVars, docVars, orderVars
<1>7. JobInv(job[j])'
  BY <1>2, <1>5, <1>6
     DEF JobInv, JobPlaced, JobSelects, JobConfirms, JobOrders, Stands, Known
<1> QED
  BY <1>2, <1>4, <1>5, <1>7, JobTurns

LEMMA WebhookKeeps ==
  ASSUME PhoneTypeOK, PhoneInv, Webhook PROVE Kept
<1> USE DEF Kinds, Steps, CaseState, PhoneStatus, JobInv, JobPlaced, JobSelects, JobConfirms,
            JobOrders, StepsOf, EventSteps, ShortSteps, OrderSteps
<1>1. CASE Begin
  BY <1>1, StartKeeps DEF Begin
<1>2. CASE Interpret
  <2>1. phone # None
    BY <1>2 DEF Interpret
  <2>2. ASSUME NEW u \in Utterances,
               Start("INTERPRET", "advance", u, "INTERPRETED", "CANDIDATES_READY")
        PROVE  Kept
    <3>1. u \in Conditions
      BY PhoneConditions
    <3> QED
      BY <2>1, <2>2, <3>1, StartKeeps
  <2>3. CASE Start("INTERPRET", "transition", None, "NEEDS_CLARIFICATION", "NEEDS_CLARIFICATION")
    BY <2>1, <2>3, StartKeeps
  <2>4. CASE Start("INTERPRET", "transition", None, "POLICY_BLOCKED", "BLOCKED")
    BY <2>1, <2>4, StartKeeps
  <2> QED
    BY <1>2, <2>2, <2>3, <2>4 DEF Interpret, GoodsFound
<1>3. CASE Select
  <2>1. phone # None
    BY <1>3 DEF Select
  <2>2. ASSUME NEW t \in Offers,
               Start("SELECT", "advance", t, "AWAITING_CONFIRMATION", "AWAITING_CONFIRMATION")
        PROVE  Kept
    <3>1. t \in Conditions
      BY PhoneConditions
    <3> QED
      BY <2>1, <2>2, <3>1, StartKeeps
  <2>3. CASE Start("SELECT", "transition", None, "NEEDS_CLARIFICATION", "NEEDS_CLARIFICATION")
    BY <2>1, <2>3, StartKeeps
  <2>4. CASE Start("SELECT", "transition", None, "POLICY_BLOCKED", "BLOCKED")
    BY <2>1, <2>4, StartKeeps
  <2> QED
    BY <1>3, <2>2, <2>3, <2>4 DEF Select, Approved
<1>4. CASE Confirm
  <2>1. phone # None
    BY <1>4 DEF Confirm
  <2>2. CASE Start("CONFIRM", "value", None, "ORDERED", "ORDERED")
    BY <2>1, <2>2, StartKeeps
  <2>3. CASE Start("CANCEL", "value", None, "USER_REJECTED", "CANCELLED")
    BY <2>1, <2>3, StartKeeps
  <2> QED
    BY <1>4, <2>2, <2>3 DEF Confirm
<1>5. CASE ReconcileDirect
  <2>1. execution # None /\ supplierOrder /\ phone # None
        /\ Start("RECONCILE", "rollup", None, "ORDERED", "ORDERED")
    BY <1>5 DEF ReconcileDirect, PhoneInv, DocsFollow
  <2> QED
    BY <2>1, StartKeeps
<1> QED
  BY <1>1, <1>2, <1>3, <1>4, <1>5 DEF Webhook

\* What the job at hand knows.
LEMMA JobAtHand ==
  ASSUME PhoneTypeOK, PhoneInv, NEW j \in Jobs, NEW step, At(j, step)
  PROVE  /\ job[j] # None /\ job[j] \in Job /\ job[j].step = step
         /\ job[j].kind \in Kinds /\ job[j].terms \in Conditions \cup {None}
         /\ job[j].state \in CaseState /\ job[j].status \in PhoneStatus
         /\ JobInv(job[j])
         /\ step # "open" /\ step # "create" /\ step # "enrol" =>
              /\ job[j].kind # "BEGIN"
              /\ phone # None /\ phone \in Phone
              /\ case # None /\ case \in Case
<1>1. job[j] # None /\ job[j] \in Job /\ job[j].step = step /\ JobInv(job[j])
  BY DEF At, PhoneTypeOK, PhoneInv, JobsKnow
<1>2. /\ job[j].kind \in Kinds /\ job[j].terms \in Conditions \cup {None}
      /\ job[j].state \in CaseState /\ job[j].status \in PhoneStatus
  BY <1>1 DEF Job
<1>3. ASSUME step # "open", step # "create", step # "enrol"
      PROVE  job[j].kind # "BEGIN"
  BY <1>1, <1>3 DEF JobInv, JobPlaced, StepsOf
<1> QED
  BY <1>1, <1>2, <1>3 DEF JobInv, JobPlaced, PhoneInv, DocsFollow, PhoneTypeOK

\* A job that ends has nothing more to know.
LEMMA EndKeeps ==
  ASSUME PhoneTypeOK, PhoneInv, UNCHANGED <<vars, docVars, orderVars>>,
         NEW j \in Jobs, Done(j)
  PROVE  Kept
  BY DoneEnds, JobTurns DEF Ends

LEMMA ValueKeeps ==
  ASSUME PhoneTypeOK, PhoneInv, NEW j \in Jobs, Value(j) PROVE Kept
<1>1. /\ At(j, "value") /\ UNCHANGED <<vars, docVars, orderVars>>
      /\ UNCHANGED <<case, phone, idempotency>>
  BY DEF Value, docVars, vars, ledgerVars
<1>2. /\ job[j] # None /\ job[j].kind \in {"CONFIRM", "CANCEL"} /\ JobInv(job[j])
      /\ phone # None /\ case # None /\ case \in Case
  BY <1>1, JobAtHand DEF JobInv, JobPlaced, StepsOf, Kinds, EventSteps, ShortSteps
<1>3. CASE job[j].kind = "CANCEL" /\ case.state = "AWAITING_CONFIRMATION"
  <2>1. Becomes(j, "transition", job[j].terms, job[j].state, job[j].status)
    BY <1>1, <1>2, <1>3, GotoBecomes DEF Value, Steps
  <2>2. JobInv(job[j])'
    BY <1>1, <1>2, <1>3, <2>1 DEF Becomes, JobInv, JobPlaced, JobSelects, JobConfirms,
       JobOrders, StepsOf, ShortSteps
  <2> QED
    BY <1>1, <2>1, <2>2, JobTurns DEF Becomes
<1>4. CASE /\ job[j].kind = "CONFIRM" /\ case.candidate # None
           /\ case.state \in {"AWAITING_CONFIRMATION", "CONFIRMED", "ORDER_SUBMITTING"}
  <2> DEFINE step == IF case.state = "AWAITING_CONFIRMATION" THEN "consume" ELSE "advance"
             b == [job[j] EXCEPT !.terms = case.candidate, !.step = step]
  <2>1. job' = [job EXCEPT ![j] = b]
    BY <1>4 DEF Value, PhoneTypeOK
  <2>2. case.candidate \in Offers /\ case.candidate \in Conditions /\ step \in Steps
    BY <1>2, <1>4, PhoneConditions DEF Case, Steps
  <2>3. b \in Job /\ b.kind = "CONFIRM" /\ b.step = step /\ b.terms = case.candidate
        /\ b.state = job[j].state /\ b.status = job[j].status
    BY <1>1, <1>4, <2>2, JobAtHand DEF Job
  <2>4. step = "advance" => case.commitment = case.candidate
    BY <1>2, <1>4 DEF PhoneInv, CaseAgrees
  <2>5. step \in {"consume", "advance"}
    OBVIOUS
  <2> HIDE DEF b, step
  <2>6. OnlyJob(j) /\ job'[j] = b
    BY <2>1, <2>3 DEF OnlyJob, PhoneTypeOK
  <2>7. JobInv(job[j])'
    BY <1>1, <1>2, <1>4, <2>2, <2>3, <2>4, <2>5, <2>6 DEF JobInv, JobPlaced, JobSelects,
       JobConfirms, JobOrders, StepsOf, EventSteps, ShortSteps, OrderSteps
  <2> QED
    BY <1>1, <2>3, <2>5, <2>6, <2>7, JobTurns
<1>5. CASE Done(j)
  BY <1>1, <1>5, EndKeeps
<1> QED
  BY <1>3, <1>4, <1>5 DEF Value
-----------------------------------------------------------------------------
(***************************************************************************)
(* Steps on the ledger.                                                    *)
(***************************************************************************)
\* A job whose event is in the ledger, with its terms.
LEMMA AfterEventKnows ==
  ASSUME PhoneTypeOK, PhoneInv, NEW j \in Jobs, NEW step \in {"advance", "execute"},
         At(j, step), AfterEvent(j), UNCHANGED <<docVars, orderVars>>,
         idempotency'[EventOf(j)] # None,
         idempotency'[EventOf(j)].hash.data.condition = job[j].terms
  PROVE  OnlyJob(j) /\ (job'[j] # None => JobInv(job[j])' /\ job'[j].step # "enrol")
<1>1. /\ job[j] # None /\ job[j].step = step /\ JobInv(job[j]) /\ phone # None
      /\ job[j].kind \in {"INTERPRET", "SELECT", "CONFIRM"}
      /\ job[j].state \in CaseState /\ job[j].status \in PhoneStatus
  BY JobAtHand DEF JobInv, JobPlaced, StepsOf, Kinds, ShortSteps, EventSteps, OrderSteps
<1>2. /\ case' = case /\ phone' = phone /\ execution' = execution
      /\ supplierOrder' = supplierOrder
  BY DEF docVars, orderVars
<1> USE DEF Becomes, JobInv, JobPlaced, JobSelects, JobConfirms, JobOrders, StepsOf,
            EventSteps, ShortSteps, OrderSteps
<1>3. CASE job[j].kind # "CONFIRM"
  <2>1. Becomes(j, "transition", job[j].terms, job[j].state, job[j].status)
    BY <1>1, <1>3, GotoBecomes DEF AfterEvent, Steps
  <2>2. job'[j].kind = "SELECT" => job'[j].terms \in Offers
    BY <1>1, <2>1
  <2>3. job'[j].kind = "SELECT" =>
          idempotency'[POLICY_EVALUATED] # None
          /\ idempotency'[POLICY_EVALUATED].hash.data.condition = job'[j].terms
    BY <2>1 DEF EventOf
  <2>4. JobSelects(job[j])'
    BY <1>1, <2>1, <2>2, <2>3 DEF Stands, Known
  <2> QED
    BY <1>1, <1>2, <1>3, <2>1, <2>4
<1>4. CASE job[j].kind = "CONFIRM" /\ Done(j)
  BY <1>4, DoneEnds DEF Ends
<1>5. CASE job[j].kind = "CONFIRM" /\ Goto(j, "submit")
  <2>1. Becomes(j, "submit", job[j].terms, job[j].state, job[j].status)
    BY <1>1, <1>5, GotoBecomes DEF Steps
  <2>2. /\ idempotency'[USER_CONFIRMED] # None
        /\ idempotency'[USER_CONFIRMED].hash.data.condition = job'[j].terms
    BY <1>5, <2>1 DEF EventOf
  <2>3. JobConfirms(job[j])'
    BY <1>1, <1>2, <1>5, <2>1, <2>2 DEF Stands, Known
  <2> QED
    BY <1>1, <1>2, <1>5, <2>1, <2>3
<1>6. CASE job[j].kind = "CONFIRM" /\ ConfirmedOnly(j)
  <2>1. Becomes(j, "save", job[j].terms, job[j].state, "CONFIRMED")
    BY <1>1, <1>6, EndingBecomes DEF ConfirmedOnly, Steps, PhoneStatus
  <2> QED
    BY <1>1, <1>2, <1>6, <2>1
<1> QED
  BY <1>1, <1>3, <1>4, <1>5, <1>6 DEF AfterEvent

LEMMA AdvanceKeeps ==
  ASSUME PhoneTypeOK, PhoneInv, NEW j \in Jobs, Advance(j) PROVE Kept
<1>1. At(j, "advance") /\ UNCHANGED <<vars, docVars, orderVars>>
  BY DEF Advance
<1>2. UNCHANGED <<case, phone, execution, supplierOrder, idempotency>>
  BY <1>1 DEF docVars, orderVars, vars, ledgerVars
<1>3. /\ job[j] # None /\ job[j].step = "advance" /\ JobInv(job[j]) /\ phone # None
      /\ job[j].kind \in {"INTERPRET", "SELECT", "CONFIRM"} /\ job[j] \in Job
  BY <1>1, JobAtHand DEF JobInv, JobPlaced, StepsOf, Kinds, ShortSteps, EventSteps, OrderSteps
<1>4. ASSUME NEW i \in DOMAIN log, Accepted(log[i]), log[i].id.type = EventOf(j),
             log[i].data.condition = job[j].terms, AfterEvent(j)
      PROVE  Kept
  <2>1. log[i].id.key = EventOf(j) /\ log[i].hash.data = log[i].data
    BY <1>4 DEF PhoneInv, KeysAreTypes
  <2>2. Known(log[i].id.key) /\ idempotency[log[i].id.key].hash = log[i].hash
    BY <1>4 DEF PhoneInv, LedgerInv, EventsExplained, Accepted
  <2>3. idempotency'[EventOf(j)] # None
        /\ idempotency'[EventOf(j)].hash.data.condition = job[j].terms
    BY <1>2, <1>4, <2>1, <2>2 DEF Known
  <2> QED
    BY <1>1, <1>4, <2>3, AfterEventKnows, JobTurns
<1>5. CASE Goto(j, "conflict")
  <2>1. Becomes(j, "conflict", job[j].terms, job[j].state, job[j].status)
    BY <1>3, <1>5, GotoBecomes DEF Steps
  <2>2. JobInv(job[j])'
    BY <1>2, <1>3, <2>1 DEF Becomes, JobInv, JobPlaced, JobSelects, JobConfirms, JobOrders,
       StepsOf, EventSteps, ShortSteps, OrderSteps
  <2> QED
    BY <1>1, <2>1, <2>2, JobTurns DEF Becomes
<1>6. CASE job' = [job EXCEPT ![j].expected = LastEventHash, ![j].step = "execute"]
  <2> DEFINE b == [job[j] EXCEPT !.expected = LastEventHash, !.step = "execute"]
  <2>1. job' = [job EXCEPT ![j] = b]
    BY <1>6 DEF PhoneTypeOK
  <2>2. LastEventHash \in Nat
    BY DEF LastEventHash, PhoneTypeOK, LedgerTypeOK
  <2>3. b \in Job /\ b.kind = job[j].kind /\ b.step = "execute" /\ b.terms = job[j].terms
        /\ b.state = job[j].state /\ b.status = job[j].status
    BY <1>3, <2>2 DEF Job, Steps
  <2> HIDE DEF b
  <2>4. OnlyJob(j) /\ job'[j] = b
    BY <2>1, <2>3 DEF OnlyJob, PhoneTypeOK
  <2>5. JobInv(job[j])'
    BY <1>2, <1>3, <2>3, <2>4 DEF JobInv, JobPlaced, JobSelects, JobConfirms, JobOrders,
       StepsOf, EventSteps, ShortSteps, OrderSteps
  <2> QED
    BY <1>1, <2>3, <2>4, <2>5, JobTurns
<1> QED
  BY <1>4, <1>5, <1>6 DEF Advance

LEMMA PhoneCommand ==
  ASSUME NEW type \in Keys, NEW hash \in Conditions, NEW expected \in Nat
  PROVE  /\ Command(type, hash, expected) \in AnyCommand
         /\ Command(type, hash, expected).key = type
         /\ Command(type, hash, expected).type = type
         /\ Command(type, hash, expected).data.condition = hash
<1>1. type \in EventType
  BY PhoneKeys DEF EventType, PHONE_CONNECTED, INTENT_INTERPRETED, POLICY_EVALUATED,
     USER_CONFIRMED
<1>2. 0 \in Times /\ 0 \in Revisions
  BY BoundAssumption DEF Times, Revisions
<1>3. OriginOf(type) \in Origins
  BY DEF OriginOf, From, Origins, CanonicalActor, CanonicalSource
<1> QED
  BY <1>1, <1>2, <1>3 DEF Command, AnyCommand, Bindings

LEMMA ExecuteCommandKeeps ==
  ASSUME PhoneTypeOK, PhoneInv, NEW j \in Jobs, ExecuteCommand(j) PROVE Kept
<1> DEFINE cmd == Command(EventOf(j), job[j].terms, job[j].expected)
<1>1. At(j, "execute") /\ Execute(cmd) /\ UNCHANGED <<docVars, orderVars>>
  BY DEF ExecuteCommand
<1>2. /\ job[j] # None /\ job[j].step = "execute" /\ JobInv(job[j]) /\ job[j] \in Job
      /\ job[j].kind \in {"INTERPRET", "SELECT", "CONFIRM"}
  BY <1>1, JobAtHand DEF JobInv, JobPlaced, StepsOf, Kinds, ShortSteps, EventSteps, OrderSteps
<1>3. job[j].terms \in Conditions
  BY <1>2, PhoneConditions DEF JobInv, JobSelects, JobConfirms, ShortSteps
<1>4. EventOf(j) \in Keys /\ job[j].expected \in Nat
  BY <1>2, PhoneKeys DEF EventOf, Job
<1>5. /\ cmd \in AnyCommand /\ cmd.key = EventOf(j) /\ cmd.type = EventOf(j)
      /\ cmd.data.condition = job[j].terms
  BY <1>3, <1>4, PhoneCommand
<1>6. IF CommandTaken(cmd) THEN AfterEvent(j) ELSE Done(j)
  BY DEF ExecuteCommand
<1> HIDE DEF cmd
<1>7. LedgerTypeOK' /\ LedgerInv' /\ RecordsStay /\ KeysAreTypes'
  BY <1>1, <1>5, ExecuteKeepsLedger, KeysStay DEF PhoneTypeOK, PhoneInv
<1>8. CASE CommandTaken(cmd)
  <2>1. idempotency'[EventOf(j)] # None
        /\ idempotency'[EventOf(j)].hash.data.condition = job[j].terms
    BY <1>1, <1>5, <1>8, TakenIsRecorded DEF PhoneTypeOK
  <2> QED
    BY <1>1, <1>6, <1>7, <1>8, <2>1, AfterEventKnows, LedgerTurns
<1>9. CASE ~CommandTaken(cmd)
  BY <1>1, <1>6, <1>7, <1>9, DoneEnds, LedgerTurns DEF Ends
<1> QED
  BY <1>8, <1>9

LEMMA OpenKeeps ==
  ASSUME PhoneTypeOK, PhoneInv, NEW j \in Jobs, OpenCanonicalCase(j) PROVE Kept
<1> DEFINE cmd == Command(PHONE_CONNECTED, CallId, 0)
<1>1. /\ At(j, "open") /\ Goto(j, "create") /\ UNCHANGED <<docVars, orderVars>>
      /\ UNCHANGED vars \/ Execute(cmd)
  BY DEF OpenCanonicalCase
<1>2. UNCHANGED <<case, phone, execution, supplierOrder>>
  BY <1>1 DEF docVars, orderVars
<1>3. job[j] # None /\ JobInv(job[j]) /\ job[j].kind = "BEGIN"
  BY <1>1, JobAtHand DEF JobInv, JobPlaced, StepsOf, Kinds, ShortSteps, EventSteps, OrderSteps
<1>4. cmd \in AnyCommand /\ cmd.key = cmd.type
  <2>1. PHONE_CONNECTED \in Keys /\ CallId \in Conditions /\ 0 \in Nat
    BY PhoneKeys, PhoneConditions
  <2> QED
    BY <2>1, PhoneCommand
<1> HIDE DEF cmd
<1>5. LedgerTypeOK' /\ LedgerInv' /\ RecordsStay /\ KeysAreTypes'
  BY <1>1, <1>4, ExecuteKeepsLedger, KeysStay, LedgerStill DEF PhoneTypeOK, PhoneInv
<1>6. Becomes(j, "create", job[j].terms, job[j].state, job[j].status)
  BY <1>1, <1>3, GotoBecomes DEF Steps
<1>7. JobInv(job[j])'
  BY <1>2, <1>3, <1>6 DEF Becomes, JobInv, JobPlaced, JobSelects, JobConfirms, JobOrders,
     StepsOf, EventSteps, ShortSteps, OrderSteps
<1> QED
  BY <1>1, <1>5, <1>6, <1>7, LedgerTurns DEF Becomes
-----------------------------------------------------------------------------
(***************************************************************************)
(* Steps on the documents.                                                 *)
(***************************************************************************)
\* What is left to show of a step of job j that leaves the ledger alone.
LEMMA DocTurns ==
  ASSUME PhoneTypeOK, PhoneInv, UNCHANGED vars, NEW j \in Jobs, OnlyJob(j),
         case' \in Case \cup {None}, phone' \in Phone \cup {None},
         execution' \in Execution \cup {None},
         supplierOrder' \in BOOLEAN, termsChanged' \in BOOLEAN,
         RecordsStay => Grows,
         job'[j] # None => JobInv(job[j])' /\ (job'[j].step = "enrol" => case = None),
         phone = None => phone' = None \/ At(j, "enrol"),
         CaseAgrees', DocsFollow', OrderedAsConfirmed'
  PROVE  Kept
<1>1. LedgerTypeOK' /\ LedgerInv' /\ KeysAreTypes' /\ RecordsStay
  BY LedgerStill DEF PhoneTypeOK, PhoneInv
<1>2. PhoneTypeOK'
  BY <1>1 DEF PhoneTypeOK, OnlyJob
<1> QED
  BY <1>1, <1>2, StepKeeps DEF Kept

LEMMA CreateKeeps ==
  ASSUME PhoneTypeOK, PhoneInv, NEW j \in Jobs, Create(j) PROVE Kept
<1> DEFINE c == [state |-> "CALL_CONNECTED", candidate |-> None, commitment |-> None,
                 ordered |-> FALSE]
<1>1. /\ At(j, "create") /\ case = None /\ case' = c /\ Goto(j, "enrol")
      /\ UNCHANGED <<vars, phone, orderVars>>
  BY DEF Create
<1>2. /\ UNCHANGED vars /\ phone' = phone /\ execution' = execution
      /\ supplierOrder' = supplierOrder /\ termsChanged' = termsChanged
  BY <1>1 DEF orderVars
<1>3. job[j] # None /\ JobInv(job[j]) /\ job[j].kind = "BEGIN"
  BY <1>1, JobAtHand DEF JobInv, JobPlaced, StepsOf, Kinds, ShortSteps, EventSteps, OrderSteps
<1>4. c \in Case /\ c # None /\ c.candidate = None /\ c.commitment = None
      /\ c.state \notin {"CONFIRMED", "ORDER_SUBMITTING"}
  <2>1. c \in Case
    BY DEF Case, CaseState
  <2>2. /\ c.candidate = None /\ c.commitment = None
        /\ c.state \notin {"CONFIRMED", "ORDER_SUBMITTING"}
    OBVIOUS
  <2> HIDE DEF c
  <2> QED
    BY <2>1, <2>2, NoDocumentAssumption
<1> HIDE DEF c
<1>5. phone = None /\ execution = None
  BY <1>1 DEF PhoneInv, DocsFollow
<1>6. Becomes(j, "enrol", job[j].terms, job[j].state, job[j].status)
  BY <1>1, <1>3, GotoBecomes DEF Steps
<1>7. JobInv(job[j])'
  BY <1>1, <1>2, <1>3, <1>4, <1>5, <1>6 DEF Becomes, JobInv, JobPlaced, JobSelects,
     JobConfirms, JobOrders, StepsOf, EventSteps, ShortSteps, OrderSteps
<1>8. CaseAgrees' /\ DocsFollow' /\ OrderedAsConfirmed'
  BY <1>1, <1>2, <1>4, <1>5 DEF CaseAgrees, DocsFollow, OrderedAsConfirmed
<1>9. RecordsStay => Grows
  BY <1>1, <1>2, <1>5 DEF Grows
<1>10. /\ phone \in Phone \cup {None} /\ execution \in Execution \cup {None}
       /\ supplierOrder \in BOOLEAN /\ termsChanged \in BOOLEAN
  BY DEF PhoneTypeOK
<1> QED
  BY <1>1, <1>2, <1>4, <1>6, <1>7, <1>8, <1>9, <1>10, DocTurns DEF Becomes

LEMMA EnrolKeeps ==
  ASSUME PhoneTypeOK, PhoneInv, NEW j \in Jobs, Enrol(j) PROVE Kept
<1>1. PICK caller \in BOOLEAN :
        phone' = [revision |-> 1, status |-> "STARTED", candidates |-> FALSE,
                  caller |-> caller, ordered |-> FALSE]
  BY DEF Enrol
<1>2. At(j, "enrol") /\ Done(j) /\ UNCHANGED <<vars, case, orderVars>>
  BY DEF Enrol
<1>3. /\ UNCHANGED vars /\ case' = case /\ execution' = execution
      /\ supplierOrder' = supplierOrder /\ termsChanged' = termsChanged
  BY <1>2 DEF orderVars
<1>4. job[j] # None /\ case # None /\ phone = None
  BY <1>2, JobAtHand DEF JobInv, JobPlaced
<1>5. phone' \in Phone /\ ~phone'.ordered /\ execution = None
  BY <1>1, <1>4 DEF Phone, PhoneStatus, PhoneInv, DocsFollow
<1>6. DocsFollow' /\ OrderedAsConfirmed'
  BY <1>3, <1>4, <1>5 DEF DocsFollow, OrderedAsConfirmed
<1>7. CaseAgrees'
  BY <1>3 DEF PhoneInv, CaseAgrees, Stands, Known, vars, ledgerVars
<1>8. RecordsStay => Grows
  BY <1>3, <1>4 DEF Grows
<1>9. /\ case \in Case \cup {None} /\ execution \in Execution \cup {None}
      /\ supplierOrder \in BOOLEAN /\ termsChanged \in BOOLEAN
  BY DEF PhoneTypeOK
<1> QED
  BY <1>2, <1>3, <1>5, <1>6, <1>7, <1>8, <1>9, DoneEnds, DocTurns DEF Ends

\* A step that leaves everything but the case alone.
LEMMA CaseTurns ==
  ASSUME PhoneTypeOK, PhoneInv, UNCHANGED <<vars, phone, orderVars>>,
         NEW j \in Jobs, OnlyJob(j), case # None, case' \in Case,
         case.candidate # None => case'.candidate = case.candidate,
         case.commitment # None => case'.commitment = case.commitment,
         case.ordered => case'.ordered,
         case'.candidate # None => Stands(POLICY_EVALUATED, case'.candidate),
         case'.commitment # None => case'.commitment = case'.candidate,
         case'.state \in {"CONFIRMED", "ORDER_SUBMITTING"} => case'.commitment # None,
         job'[j] # None => JobInv(job[j])' /\ job'[j].step # "enrol"
  PROVE  Kept
<1>1. /\ UNCHANGED vars /\ phone' = phone /\ execution' = execution
      /\ supplierOrder' = supplierOrder /\ termsChanged' = termsChanged
      /\ idempotency' = idempotency
  BY DEF orderVars, vars, ledgerVars
<1>2. case' # None
  BY NoDocumentAssumption
<1>3. RecordsStay => Grows
  BY <1>1, <1>2 DEF Grows
<1>4. RecordsStay
  BY LedgerStill DEF PhoneTypeOK, PhoneInv
<1>5. CaseAgrees'
  BY <1>1 DEF CaseAgrees, Stands, Known
<1>6. /\ phone \in Phone \cup {None} /\ execution \in Execution \cup {None}
      /\ supplierOrder \in BOOLEAN /\ termsChanged \in BOOLEAN
  BY DEF PhoneTypeOK
<1> QED
  BY <1>1, <1>3, <1>4, <1>5, <1>6, DocsStill, DocTurns

LEMMA ConsumeKeeps ==
  ASSUME PhoneTypeOK, PhoneInv, NEW j \in Jobs, ConsumeConfirmation(j) PROVE Kept
<1>1. At(j, "consume") /\ UNCHANGED <<vars, phone, orderVars>>
  BY DEF ConsumeConfirmation
<1>2. /\ job[j] # None /\ JobInv(job[j]) /\ job[j].kind = "CONFIRM" /\ job[j].step = "consume"
      /\ phone # None /\ case # None /\ case \in Case
  BY <1>1, JobAtHand DEF JobInv, JobPlaced, StepsOf, Kinds, ShortSteps, EventSteps, OrderSteps
<1>3. job[j].terms \in Offers /\ case.candidate = job[j].terms /\ job[j].terms # None
  BY <1>2, PhoneConditions, NoneAssumption DEF JobInv, JobConfirms, ShortSteps
<1>4. CASE case.state = "AWAITING_CONFIRMATION" /\ case.commitment = None
  <2> DEFINE c == [case EXCEPT !.state = "CONFIRMED", !.commitment = job[j].terms]
  <2>1. case' = c /\ Goto(j, "hold")
    BY <1>4 DEF ConsumeConfirmation
  <2>2. /\ c \in Case /\ c.state = "CONFIRMED" /\ c.commitment = job[j].terms
        /\ c.candidate = case.candidate /\ c.ordered = case.ordered
    BY <1>2, <1>3 DEF Case, CaseState
  <2> HIDE DEF c
  <2>3. Becomes(j, "hold", job[j].terms, job[j].state, job[j].status)
    BY <1>2, <2>1, GotoBecomes DEF Steps
  <2>4. UNCHANGED <<phone, execution, supplierOrder>>
    BY <1>1 DEF orderVars
  <2>5. JobInv(job[j])'
    BY <1>2, <1>3, <2>1, <2>2, <2>3, <2>4 DEF Becomes, JobInv, JobPlaced, JobSelects,
       JobConfirms, JobOrders, StepsOf, EventSteps, ShortSteps, OrderSteps
  <2>6. Stands(POLICY_EVALUATED, case.candidate)
    BY <1>2, <1>3 DEF PhoneInv, CaseAgrees
  <2> QED
    BY <1>1, <1>2, <1>3, <1>4, <2>1, <2>2, <2>3, <2>5, <2>6, CaseTurns DEF Becomes
<1>5. CASE Done(j) /\ UNCHANGED case
  BY <1>1, <1>5, EndKeeps DEF docVars
<1> QED
  BY <1>4, <1>5 DEF ConsumeConfirmation

\* coordinator.transition, given what the job may write and what it knows then.
LEMMA TransitionKeeps ==
  ASSUME PhoneTypeOK, PhoneInv, NEW j \in Jobs, NEW next \in CaseState,
         NEW then \in Steps \ {"enrol"}, TransitionTo(j, next, then),
         job[j] # None, case # None,
         next = "AWAITING_CONFIRMATION" =>
           job[j].terms \in Offers /\ Stands(POLICY_EVALUATED, job[j].terms),
         next \in {"CONFIRMED", "ORDER_SUBMITTING"} => case.commitment # None,
         /\ Becomes(j, then, job[j].terms, job[j].state, job[j].status)
         /\ UNCHANGED <<phone, execution, supplierOrder, idempotency>>
         /\ case.candidate # None => case'.candidate = case.candidate
         /\ case.commitment # None => case'.commitment = case.commitment
         /\ case.ordered => case'.ordered
         => JobInv(job[j])'
  PROVE  Kept
<1>1. UNCHANGED <<vars, phone, orderVars>>
  BY DEF TransitionTo
<1>2. UNCHANGED <<phone, execution, supplierOrder, idempotency>>
  BY <1>1 DEF orderVars, vars, ledgerVars
<1>3. case \in Case
  BY DEF PhoneTypeOK
<1>4. Done(j) /\ case' = case => Kept
  BY <1>1, EndKeeps DEF docVars
<1>5. Goto(j, then) => Becomes(j, then, job[j].terms, job[j].state, job[j].status)
  BY GotoBecomes
<1>6. CASE case.state = next
  <2>1. CASE Goto(j, then) /\ case' = case
    BY <1>1, <1>2, <1>5, <2>1, JobTurns DEF docVars, Becomes
  <2> QED
    BY <1>4, <1>6, <2>1 DEF TransitionTo
<1>7. CASE case.state # next
  <2> DEFINE c == [case EXCEPT
               !.state = next,
               !.candidate = IF next = "AWAITING_CONFIRMATION" THEN job[j].terms ELSE @,
               !.ordered = @ \/ next = "ORDERED"]
  <2>1. case' = c /\ Goto(j, then)
    BY <1>7 DEF TransitionTo
  <2>2. c \in Case
    BY <1>3 DEF Case
  <2>3. /\ c.state = next /\ c.commitment = case.commitment
        /\ c.ordered = (case.ordered \/ next = "ORDERED")
        /\ c.candidate = IF next = "AWAITING_CONFIRMATION" THEN job[j].terms ELSE case.candidate
    BY <1>3 DEF Case
  <2> HIDE DEF c
  <2>4. /\ case.candidate # None => Stands(POLICY_EVALUATED, case.candidate)
        /\ case.commitment # None => case.commitment = case.candidate
        /\ case.state \in {"CONFIRMED", "ORDER_SUBMITTING"} => case.commitment # None
    BY DEF PhoneInv, CaseAgrees
  <2>5. case.candidate # None => c.candidate = case.candidate
    BY <2>3, <2>4 DEF Stands
  <2>6. JobInv(job[j])'
    BY <1>2, <1>5, <2>1, <2>3, <2>5
  <2> QED
    BY <1>1, <1>5, <2>1, <2>2, <2>3, <2>4, <2>5, <2>6, CaseTurns DEF Becomes
<1> QED
  BY <1>6, <1>7

LEMMA TransitionStepKeeps ==
  ASSUME PhoneTypeOK, PhoneInv, NEW j \in Jobs, Transition(j) PROVE Kept
<1>1. At(j, "transition") /\ TransitionTo(j, job[j].state, "save")
  BY DEF Transition
<1>2. /\ job[j] # None /\ JobInv(job[j]) /\ job[j].step = "transition"
      /\ job[j].state \in CaseState /\ job[j].kind # "BEGIN" /\ case # None /\ case \in Case
      /\ job[j].kind \in {"INTERPRET", "SELECT", "CONFIRM", "CANCEL"} /\ phone # None
  BY <1>1, JobAtHand DEF JobInv, JobPlaced, StepsOf, Kinds, ShortSteps, EventSteps, OrderSteps
<1>3. /\ job[j].state = "AWAITING_CONFIRMATION" =>
           job[j].terms \in Offers /\ Stands(POLICY_EVALUATED, job[j].terms)
      /\ job[j].state \notin {"CONFIRMED", "ORDER_SUBMITTING"}
  BY <1>2 DEF JobInv, JobSelects
<1>4. ASSUME Becomes(j, "save", job[j].terms, job[j].state, job[j].status),
             UNCHANGED <<phone, execution, supplierOrder, idempotency>>,
             case.ordered => case'.ordered
      PROVE  JobInv(job[j])'
  BY <1>2, <1>4 DEF Becomes, JobInv, JobPlaced, JobSelects, JobConfirms, JobOrders,
     StepsOf, EventSteps, ShortSteps, OrderSteps
<1> QED
  BY <1>1, <1>2, <1>3, <1>4, TransitionKeeps DEF Steps

LEMMA SubmittingKeeps ==
  ASSUME PhoneTypeOK, PhoneInv, NEW j \in Jobs, Submitting(j) PROVE Kept
<1>1. At(j, "submitting") /\ TransitionTo(j, "ORDER_SUBMITTING", "preview")
  BY DEF Submitting
<1>2. /\ job[j] # None /\ JobInv(job[j]) /\ job[j].step = "submitting"
      /\ job[j].kind = "CONFIRM" /\ case # None /\ phone # None
  BY <1>1, JobAtHand DEF JobInv, JobPlaced, StepsOf, Kinds, ShortSteps, EventSteps, OrderSteps
<1>3. /\ case.candidate = job[j].terms /\ case.commitment = job[j].terms
      /\ job[j].terms \in Offers /\ job[j].terms # None /\ Stands(USER_CONFIRMED, job[j].terms)
  BY <1>2, PhoneConditions, NoneAssumption DEF JobInv, JobConfirms, ShortSteps, OrderSteps
<1>4. ASSUME Becomes(j, "preview", job[j].terms, job[j].state, job[j].status),
             UNCHANGED <<phone, execution, supplierOrder, idempotency>>,
             case.candidate # None => case'.candidate = case.candidate,
             case.commitment # None => case'.commitment = case.commitment
      PROVE  JobInv(job[j])'
  BY <1>2, <1>3, <1>4 DEF Becomes, JobInv, JobPlaced, JobSelects, JobConfirms, JobOrders,
     StepsOf, EventSteps, ShortSteps, OrderSteps, Stands, Known
<1> QED
  BY <1>1, <1>2, <1>3, <1>4, TransitionKeeps DEF Steps, CaseState

LEMMA SubmitKeeps ==
  ASSUME PhoneTypeOK, PhoneInv, NEW j \in Jobs, Submit(j) PROVE Kept
<1> DEFINE step == IF case.state = "CONFIRMED" THEN "submitting" ELSE "preview"
<1>1. At(j, "submit") /\ Goto(j, step) /\ UNCHANGED <<vars, docVars, orderVars>>
  BY DEF Submit
<1>2. step \in {"submitting", "preview"}
  OBVIOUS
<1> HIDE DEF step
<1>3. /\ job[j] # None /\ JobInv(job[j]) /\ job[j].step = "submit"
      /\ job[j].kind = "CONFIRM" /\ phone # None
  BY <1>1, JobAtHand DEF JobInv, JobPlaced, StepsOf, Kinds, ShortSteps, EventSteps, OrderSteps
<1>4. Becomes(j, step, job[j].terms, job[j].state, job[j].status)
  BY <1>1, <1>2, <1>3, GotoBecomes DEF Steps
<1>5. UNCHANGED <<case, phone, execution, supplierOrder, idempotency>>
  BY <1>1 DEF docVars, orderVars, vars, ledgerVars
<1>6. JobInv(job[j])'
  BY <1>2, <1>3, <1>4, <1>5 DEF Becomes, JobInv, JobPlaced, JobSelects, JobConfirms, JobOrders,
     StepsOf, EventSteps, ShortSteps, OrderSteps, Stands, Known
<1> QED
  BY <1>1, <1>2, <1>4, <1>6, JobTurns DEF Becomes

\* A step that leaves everything but the phone record alone.
LEMMA PhoneTurns ==
  ASSUME PhoneTypeOK, PhoneInv, UNCHANGED <<vars, case, orderVars>>,
         NEW j \in Jobs, OnlyJob(j), phone # None, phone' \in Phone,
         phone.ordered => phone'.ordered,
         phone'.ordered => supplierOrder /\ case.ordered,
         job'[j] # None => JobInv(job[j])' /\ job'[j].step # "enrol"
  PROVE  Kept
<1>1. /\ UNCHANGED vars /\ case' = case /\ execution' = execution
      /\ supplierOrder' = supplierOrder /\ termsChanged' = termsChanged
  BY DEF orderVars
<1>2. phone' # None
  BY NoDocumentAssumption
<1>3. RecordsStay => Grows
  BY <1>1, <1>2 DEF Grows
<1>4. RecordsStay
  BY LedgerStill DEF PhoneTypeOK, PhoneInv
<1>5. DocsFollow'
  BY <1>1, <1>2 DEF PhoneInv, DocsFollow
<1>6. OrderedAsConfirmed'
  BY <1>1 DEF PhoneInv, OrderedAsConfirmed, Known, vars, ledgerVars
<1>7. /\ case \in Case \cup {None} /\ execution \in Execution \cup {None}
      /\ supplierOrder \in BOOLEAN /\ termsChanged \in BOOLEAN
  BY DEF PhoneTypeOK
<1> QED
  BY <1>1, <1>3, <1>4, <1>5, <1>6, <1>7, CaseStill, DocTurns

LEMMA SavePhoneWrites ==
  ASSUME NEW j \in Jobs, phone \in Phone, NEW status \in PhoneStatus, SavePhone(j, status)
  PROVE  /\ phone' \in Phone
         /\ phone'.ordered <=> phone.ordered \/ status = "ORDERED"
         /\ UNCHANGED <<vars, case, orderVars>>
<1> DEFINE revision == phone.revision + 1
           found == status = "CANDIDATES_READY" \/ (phone.candidates /\ job[j].kind # "INTERPRET")
           placed == phone.ordered \/ status = "ORDERED"
           p == [phone EXCEPT !.revision = revision, !.status = status,
                              !.candidates = found, !.ordered = placed]
<1>1. phone' = p /\ UNCHANGED <<vars, case, orderVars>>
  BY DEF SavePhone
<1>2. revision \in Nat /\ found \in BOOLEAN /\ placed \in BOOLEAN
  BY DEF Phone
<1>3. placed <=> phone.ordered \/ status = "ORDERED"
  OBVIOUS
<1> HIDE DEF revision, found, placed
<1>4. p \in Phone /\ p.ordered = placed
  BY <1>2 DEF Phone
<1> QED
  BY <1>1, <1>3, <1>4

LEMMA SaveKeeps ==
  ASSUME PhoneTypeOK, PhoneInv, NEW j \in Jobs, Save(j) PROVE Kept
<1>1. At(j, "save") /\ SavePhone(j, job[j].status) /\ Done(j)
  BY DEF Save
<1>2. /\ job[j] # None /\ JobInv(job[j]) /\ job[j].step = "save" /\ job[j].status \in PhoneStatus
      /\ phone # None /\ phone \in Phone
  BY <1>1, JobAtHand
<1>3. job[j].status = "ORDERED" => supplierOrder /\ case.ordered
  BY <1>2 DEF JobInv, JobOrders, ShortSteps
<1>4. phone.ordered => supplierOrder /\ case.ordered
  BY <1>2 DEF PhoneInv, DocsFollow
<1> QED
  BY <1>1, <1>2, <1>3, <1>4, SavePhoneWrites, DoneEnds, PhoneTurns DEF Ends

LEMMA HoldKeeps ==
  ASSUME PhoneTypeOK, PhoneInv, NEW j \in Jobs, Hold(j) PROVE Kept
<1> DEFINE revision == job[j].revision + 1
           b == [job[j] EXCEPT !.revision = revision, !.step = "advance"]
<1>1. At(j, "hold") /\ SavePhone(j, "ORDER_SUBMITTING")
  BY DEF Hold
<1>2. /\ job[j] # None /\ JobInv(job[j]) /\ job[j].step = "hold" /\ job[j] \in Job
      /\ job[j].kind = "CONFIRM" /\ phone # None /\ phone \in Phone
  BY <1>1, JobAtHand DEF JobInv, JobPlaced, StepsOf, Kinds, ShortSteps, EventSteps, OrderSteps
<1>3. job' = [job EXCEPT ![j] = b]
  BY DEF Hold, PhoneTypeOK
<1>4. b \in Job /\ b.kind = job[j].kind /\ b.step = "advance" /\ b.terms = job[j].terms
      /\ b.state = job[j].state /\ b.status = job[j].status
  <2>1. revision \in Nat
    BY <1>2 DEF Job
  <2> HIDE DEF revision
  <2> QED
    BY <1>2, <2>1 DEF Job, Steps
<1> HIDE DEF b
<1>5. OnlyJob(j) /\ job'[j] = b
  BY <1>3, <1>4 DEF OnlyJob, PhoneTypeOK
<1>6. phone' \in Phone /\ (phone'.ordered <=> phone.ordered) /\ UNCHANGED <<vars, case, orderVars>>
  BY <1>1, <1>2, SavePhoneWrites DEF PhoneStatus
<1>7. phone' # None /\ UNCHANGED <<case, execution, supplierOrder, idempotency>>
  BY <1>6, NoDocumentAssumption DEF orderVars, vars, ledgerVars
<1>8. JobInv(job[j])'
  BY <1>2, <1>4, <1>5, <1>7 DEF JobInv, JobPlaced, JobSelects, JobConfirms, JobOrders,
     StepsOf, EventSteps, ShortSteps, OrderSteps
<1>9. phone.ordered => supplierOrder /\ case.ordered
  BY <1>2 DEF PhoneInv, DocsFollow
<1> QED
  BY <1>2, <1>4, <1>5, <1>6, <1>8, <1>9, PhoneTurns

LEMMA RecordKeeps ==
  ASSUME PhoneTypeOK, PhoneInv, NEW j \in Jobs, RecordReconciled(j) PROVE Kept
<1> DEFINE revision == phone.revision + 1
           p == [phone EXCEPT !.revision = revision, !.status = "ORDERED", !.ordered = TRUE]
<1>1. At(j, "record") /\ Done(j) /\ UNCHANGED <<vars, case, orderVars>>
      /\ (phone' = phone \/ phone' = p)
  BY DEF RecordReconciled
<1>2. /\ job[j] # None /\ JobInv(job[j]) /\ job[j].step = "record"
      /\ phone # None /\ phone \in Phone
  BY <1>1, JobAtHand
<1>3. supplierOrder /\ case.ordered
  BY <1>2 DEF JobInv, JobOrders
<1>4. p \in Phone /\ p.ordered
  <2>1. revision \in Nat
    BY <1>2 DEF Phone
  <2> HIDE DEF revision
  <2> QED
    BY <1>2, <2>1 DEF Phone, PhoneStatus
<1> HIDE DEF p
<1> QED
  BY <1>1, <1>2, <1>3, <1>4, DoneEnds, PhoneTurns DEF Ends
-----------------------------------------------------------------------------
(***************************************************************************)
(* Steps of the order.                                                     *)
(***************************************************************************)
LEMMA PreviewKeeps ==
  ASSUME PhoneTypeOK, PhoneInv, NEW j \in Jobs, Preview(j) PROVE Kept
<1>1. At(j, "preview") /\ UNCHANGED <<vars, docVars, execution, supplierOrder>>
  BY DEF Preview
<1>2. /\ job[j] # None /\ JobInv(job[j]) /\ job[j].step = "preview"
      /\ job[j].kind = "CONFIRM" /\ phone # None
  BY <1>1, JobAtHand DEF JobInv, JobPlaced, StepsOf, Kinds, ShortSteps, EventSteps, OrderSteps
<1>3. UNCHANGED <<case, phone, execution, supplierOrder, idempotency>>
  BY <1>1 DEF docVars, vars, ledgerVars
<1>4. /\ OnlyJob(j) /\ JobInv(job[j])' /\ job'[j].step # "enrol"
      /\ termsChanged' \in BOOLEAN
  <2>1. CASE Goto(j, "claim") /\ termsChanged' = termsChanged
    <3>1. Becomes(j, "claim", job[j].terms, job[j].state, job[j].status)
      BY <1>2, <2>1, GotoBecomes DEF Steps
    <3>2. JobInv(job[j])'
      BY <1>2, <1>3, <3>1 DEF Becomes, JobInv, JobPlaced, JobSelects, JobConfirms, JobOrders,
         StepsOf, EventSteps, ShortSteps, OrderSteps, Stands, Known
    <3> QED
      BY <2>1, <3>1, <3>2 DEF Becomes, PhoneTypeOK
  <2>2. CASE TellTermsChanged(j)
    <3>1. Becomes(j, "transition", job[j].terms, "NEEDS_CLARIFICATION", "NEEDS_CLARIFICATION")
      BY <1>2, <2>2, EndingBecomes DEF TellTermsChanged, Steps, CaseState, PhoneStatus
    <3>2. JobInv(job[j])'
      BY <1>2, <1>3, <3>1 DEF Becomes, JobInv, JobPlaced, JobSelects, JobConfirms, JobOrders,
         StepsOf, EventSteps, ShortSteps, OrderSteps
    <3> QED
      BY <2>2, <3>1, <3>2 DEF Becomes, TellTermsChanged
  <2> QED
    BY <2>1, <2>2 DEF Preview
<1>5. RecordsStay
  BY <1>1, LedgerStill DEF PhoneTypeOK, PhoneInv
<1>6. Grows
  BY <1>3, <1>5 DEF Grows
<1>7. /\ case \in Case \cup {None} /\ phone \in Phone \cup {None}
      /\ execution \in Execution \cup {None} /\ supplierOrder \in BOOLEAN
  BY DEF PhoneTypeOK
<1> QED
  BY <1>1, <1>3, <1>4, <1>6, <1>7, CaseStill, DocsStill, DocTurns

\* A step that leaves everything but the order alone.
LEMMA OrderTurns ==
  ASSUME PhoneTypeOK, PhoneInv, UNCHANGED <<vars, docVars, termsChanged>>,
         NEW j \in Jobs, OnlyJob(j), phone # None,
         execution' \in Execution \cup {None}, supplierOrder' \in BOOLEAN,
         execution # None => execution' # None /\ execution'.terms = execution.terms,
         supplierOrder => supplierOrder',
         OrderedAsConfirmed',
         job'[j] # None => JobInv(job[j])' /\ job'[j].step # "enrol"
  PROVE  Kept
<1>1. UNCHANGED vars /\ case' = case /\ phone' = phone /\ termsChanged' = termsChanged
  BY DEF docVars
<1>2. RecordsStay
  BY <1>1, LedgerStill DEF PhoneTypeOK, PhoneInv
<1>3. Grows
  BY <1>1, <1>2 DEF Grows
<1>4. DocsFollow'
  BY <1>1 DEF PhoneInv, DocsFollow
<1>5. /\ case \in Case \cup {None} /\ phone \in Phone \cup {None} /\ termsChanged \in BOOLEAN
  BY DEF PhoneTypeOK
<1> QED
  BY <1>1, <1>3, <1>4, <1>5, CaseStill, DocTurns

LEMMA ClaimKeeps ==
  ASSUME PhoneTypeOK, PhoneInv, NEW j \in Jobs, Claim(j) PROVE Kept
<1>1. At(j, "claim") /\ UNCHANGED <<vars, docVars, supplierOrder, termsChanged>>
  BY DEF Claim
<1>2. /\ job[j] # None /\ JobInv(job[j]) /\ job[j].step = "claim"
      /\ job[j].kind = "CONFIRM" /\ phone # None /\ case # None
  BY <1>1, JobAtHand DEF JobInv, JobPlaced, StepsOf, Kinds, ShortSteps, EventSteps, OrderSteps
<1>3. /\ case.candidate = job[j].terms /\ case.commitment = job[j].terms
      /\ job[j].terms \in Offers /\ job[j].terms # None /\ Stands(USER_CONFIRMED, job[j].terms)
  BY <1>2, PhoneConditions, NoneAssumption DEF JobInv, JobConfirms, ShortSteps, OrderSteps
<1>4. UNCHANGED <<case, phone, supplierOrder, idempotency>>
  BY <1>1 DEF docVars, vars, ledgerVars
<1>5. CASE execution = None
  <2> DEFINE x == [terms |-> job[j].terms, status |-> "IN_FLIGHT"]
  <2>1. execution' = x /\ Goto(j, "post")
    BY <1>5 DEF Claim
  <2>2. x \in Execution /\ x.terms = job[j].terms
    BY <1>3 DEF Execution
  <2> HIDE DEF x
  <2>3. execution' # None
    BY <2>1, <2>2, NoDocumentAssumption
  <2>4. Becomes(j, "post", job[j].terms, job[j].state, job[j].status)
    BY <1>2, <2>1, GotoBecomes DEF Steps
  <2>5. JobInv(job[j])'
    BY <1>2, <1>4, <2>3, <2>4 DEF Becomes, JobInv, JobPlaced, JobSelects, JobConfirms, JobOrders,
       StepsOf, EventSteps, ShortSteps, OrderSteps, Stands, Known
  <2>6. Stands(POLICY_EVALUATED, job[j].terms)
    BY <1>2, <1>3 DEF PhoneInv, CaseAgrees
  <2>7. OrderedAsConfirmed'
    BY <1>3, <1>4, <2>1, <2>2, <2>6 DEF OrderedAsConfirmed, Stands, Known
  <2>8. supplierOrder' \in BOOLEAN
    BY <1>4 DEF PhoneTypeOK
  <2> QED
    BY <1>1, <1>2, <1>4, <1>5, <2>1, <2>2, <2>4, <2>5, <2>7, <2>8, OrderTurns DEF Becomes
<1>6. CASE Done(j) /\ UNCHANGED execution
  BY <1>1, <1>6, EndKeeps DEF orderVars
<1> QED
  BY <1>5, <1>6 DEF Claim

\* An execution that is marked completed is still the one that was claimed.
LEMMA CompletedStill ==
  ASSUME PhoneTypeOK, PhoneInv, execution # None,
         execution' = [execution EXCEPT !.status = "COMPLETED"]
  PROVE  execution' \in Execution /\ execution' # None /\ execution'.terms = execution.terms
<1>1. execution \in Execution
  BY DEF PhoneTypeOK
<1>2. execution' \in Execution /\ execution'.terms = execution.terms
  BY <1>1 DEF Execution
<1> QED
  BY <1>2, NoDocumentAssumption

LEMMA PostKeeps ==
  ASSUME PhoneTypeOK, PhoneInv, NEW j \in Jobs, Post(j) PROVE Kept
<1>1. At(j, "post") /\ UNCHANGED <<vars, docVars, termsChanged>>
  BY DEF Post
<1>2. /\ job[j] # None /\ JobInv(job[j]) /\ job[j].step = "post"
      /\ job[j].kind = "CONFIRM" /\ phone # None /\ case # None
  BY <1>1, JobAtHand DEF JobInv, JobPlaced, StepsOf, Kinds, ShortSteps, EventSteps, OrderSteps
<1>3. /\ case.candidate = job[j].terms /\ case.commitment = job[j].terms
      /\ job[j].terms \in Offers /\ Stands(USER_CONFIRMED, job[j].terms)
      /\ execution # None /\ execution \in Execution
  BY <1>2 DEF JobInv, JobConfirms, JobOrders, ShortSteps, OrderSteps, PhoneTypeOK
<1>4. UNCHANGED <<case, phone, idempotency>>
  BY <1>1 DEF docVars, vars, ledgerVars
<1>5. execution'.terms = execution.terms /\ execution' # None => OrderedAsConfirmed'
  BY <1>3, <1>4 DEF PhoneInv, OrderedAsConfirmed, Known
<1>6. CASE /\ supplierOrder' = TRUE /\ Goto(j, "rollup")
           /\ execution' = [execution EXCEPT !.status = "COMPLETED"]
  <2>1. Becomes(j, "rollup", job[j].terms, job[j].state, job[j].status)
    BY <1>2, <1>6, GotoBecomes DEF Steps
  <2>2. execution' \in Execution /\ execution' # None /\ execution'.terms = execution.terms
    BY <1>3, <1>6, CompletedStill
  <2>3. JobInv(job[j])'
    BY <1>2, <1>3, <1>4, <1>6, <2>1, <2>2 DEF Becomes, JobInv, JobPlaced, JobSelects,
       JobConfirms, JobOrders, StepsOf, EventSteps, ShortSteps, OrderSteps
  <2> QED
    BY <1>1, <1>2, <1>5, <1>6, <2>1, <2>2, <2>3, OrderTurns DEF Becomes
<1>7. CASE supplierOrder' \in {supplierOrder, TRUE} /\ RecordReviewRequired(j)
           /\ execution' = execution
  <2>1. Becomes(j, "transition", job[j].terms, "ORDER_REVIEW_REQUIRED", "ORDER_REVIEW_REQUIRED")
    BY <1>2, <1>7, EndingBecomes DEF RecordReviewRequired, Steps, CaseState, PhoneStatus
  <2>2. JobInv(job[j])'
    BY <1>2, <1>4, <2>1 DEF Becomes, JobInv, JobPlaced, JobSelects, JobConfirms, JobOrders,
       StepsOf, EventSteps, ShortSteps, OrderSteps
  <2>3. supplierOrder' \in BOOLEAN /\ (supplierOrder => supplierOrder')
    <3>1. supplierOrder' = supplierOrder \/ supplierOrder' = TRUE
      BY <1>7
    <3>2. CASE supplierOrder' = supplierOrder
      BY <3>2 DEF PhoneTypeOK
    <3>3. CASE supplierOrder' = TRUE
      BY <3>3
    <3> QED
      BY <3>1, <3>2, <3>3
  <2> QED
    BY <1>1, <1>2, <1>3, <1>5, <1>7, <2>1, <2>2, <2>3, OrderTurns DEF Becomes
<1> QED
  BY <1>6, <1>7 DEF Post

LEMMA RollupKeeps ==
  ASSUME PhoneTypeOK, PhoneInv, NEW j \in Jobs, Rollup(j) PROVE Kept
<1> DEFINE c == [case EXCEPT !.state = "ORDERED", !.ordered = TRUE]
           step == IF job[j].kind = "RECONCILE" THEN "record" ELSE "transition"
<1>1. /\ At(j, "rollup") /\ UNCHANGED <<vars, phone, supplierOrder, termsChanged>>
      /\ execution' = [execution EXCEPT !.status = "COMPLETED"] /\ case' = c
      /\ Ending(j, step, "ORDERED", "ORDERED")
  BY DEF Rollup, RecordOrdered
<1>2. /\ job[j] # None /\ JobInv(job[j]) /\ job[j].step = "rollup"
      /\ job[j].kind \in {"CONFIRM", "RECONCILE"}
      /\ phone # None /\ case # None /\ case \in Case
  BY <1>1, JobAtHand DEF JobInv, JobPlaced, StepsOf, Kinds, ShortSteps, EventSteps, OrderSteps
<1>3. execution # None /\ supplierOrder
  BY <1>2 DEF JobInv, JobOrders
<1>4. execution' \in Execution /\ execution' # None /\ execution'.terms = execution.terms
  BY <1>1, <1>3, CompletedStill
<1>5. /\ c \in Case /\ c.state = "ORDERED" /\ c.ordered
      /\ c.candidate = case.candidate /\ c.commitment = case.commitment
  BY <1>2 DEF Case, CaseState
<1>6. case' # None
  BY <1>1, <1>5, NoDocumentAssumption
<1>7. step \in {"record", "transition"} /\ (job[j].kind = "RECONCILE" <=> step = "record")
  OBVIOUS
<1> HIDE DEF c, step
<1>8. Becomes(j, step, job[j].terms, "ORDERED", "ORDERED")
  BY <1>1, <1>2, <1>7, EndingBecomes DEF Steps, CaseState, PhoneStatus
<1>9. UNCHANGED idempotency
  BY <1>1 DEF vars, ledgerVars
<1>10. JobInv(job[j])'
  BY <1>1, <1>2, <1>3, <1>4, <1>5, <1>7, <1>8 DEF Becomes, JobInv, JobPlaced, JobSelects,
     JobConfirms, JobOrders, StepsOf, EventSteps, ShortSteps, OrderSteps
<1>11. CaseAgrees'
  BY <1>1, <1>2, <1>5, <1>9 DEF PhoneInv, CaseAgrees, Stands, Known
<1>12. DocsFollow'
  BY <1>1, <1>2, <1>3, <1>5, <1>6 DEF DocsFollow
<1>13. OrderedAsConfirmed'
  BY <1>1, <1>3, <1>4, <1>5, <1>9 DEF PhoneInv, OrderedAsConfirmed, Known
<1>14. RecordsStay => Grows
  BY <1>1, <1>3, <1>4, <1>5, <1>6 DEF Grows
<1>15. /\ phone \in Phone \cup {None} /\ supplierOrder \in BOOLEAN /\ termsChanged \in BOOLEAN
  BY DEF PhoneTypeOK
<1> QED
  BY <1>1, <1>2, <1>4, <1>5, <1>7, <1>8, <1>10, <1>11, <1>12, <1>13, <1>14, <1>15, DocTurns
     DEF Becomes
-----------------------------------------------------------------------------
(***************************************************************************)
(* The invariant, and what follows.                                        *)
(***************************************************************************)
LEMMA WorkKeeps ==
  ASSUME PhoneTypeOK, PhoneInv, NEW j \in Jobs, Work(j) \/ Stop(j) PROVE Kept
<1>1. CASE Stop(j) \/ Conflict(j)
  BY <1>1, EndKeeps DEF Stop, Conflict
<1>2. CASE \/ OpenCanonicalCase(j) \/ Create(j) \/ Enrol(j) \/ Value(j)
           \/ ConsumeConfirmation(j) \/ Hold(j)
  BY <1>2, OpenKeeps, CreateKeeps, EnrolKeeps, ValueKeeps, ConsumeKeeps, HoldKeeps
<1>3. CASE \/ Advance(j) \/ ExecuteCommand(j) \/ Submit(j) \/ Submitting(j)
           \/ Preview(j) \/ Claim(j)
  BY <1>3, AdvanceKeeps, ExecuteCommandKeeps, SubmitKeeps, SubmittingKeeps, PreviewKeeps,
     ClaimKeeps
<1>4. CASE Post(j) \/ Rollup(j) \/ RecordReconciled(j) \/ Transition(j) \/ Save(j)
  BY <1>4, PostKeeps, RollupKeeps, RecordKeeps, TransitionStepKeeps, SaveKeeps
<1> QED
  BY <1>1, <1>2, <1>3, <1>4 DEF Work

LEMMA PhoneStepKeeps ==
  ASSUME PhoneTypeOK, PhoneInv, PhoneNext PROVE Kept
  BY WebhookKeeps, WorkKeeps DEF PhoneNext

\* The types of the call's documents, and the invariant above them.
THEOREM PhoneTypeCorrect == PhoneSpec => []PhoneTypeOK /\ []PhoneInv
<1>1. PhoneInit => PhoneTypeOK /\ PhoneInv
  <2> SUFFICES ASSUME PhoneInit PROVE PhoneTypeOK /\ PhoneInv
    OBVIOUS
  <2>1. /\ case = None /\ phone = None /\ execution = None
        /\ supplierOrder = FALSE /\ termsChanged = FALSE
        /\ job = [j \in Jobs |-> None]
    BY DEF PhoneInit
  <2>2. LedgerTypeOK /\ LedgerInv /\ log = <<>>
    BY LedgerInitOK DEF PhoneInit, Init
  <2>3. KeysAreTypes
    BY <2>2 DEF KeysAreTypes
  <2>4. PhoneTypeOK
    BY <2>1, <2>2 DEF PhoneTypeOK
  <2> QED
    BY <2>1, <2>2, <2>3, <2>4 DEF PhoneInv, CaseAgrees, DocsFollow, OrderedAsConfirmed,
       JobsKnow, OneEnrols, At
<1>2. PhoneTypeOK /\ PhoneInv /\ [PhoneNext]_phoneVars => PhoneTypeOK' /\ PhoneInv'
  <2> SUFFICES ASSUME PhoneTypeOK, PhoneInv, [PhoneNext]_phoneVars
               PROVE  PhoneTypeOK' /\ PhoneInv'
    OBVIOUS
  <2>1. CASE UNCHANGED phoneVars
    <3>1. /\ UNCHANGED vars /\ case' = case /\ phone' = phone /\ execution' = execution
          /\ supplierOrder' = supplierOrder /\ termsChanged' = termsChanged /\ job' = job
      BY <2>1 DEF phoneVars, docVars, orderVars
    <3>2. LedgerTypeOK' /\ LedgerInv' /\ KeysAreTypes' /\ idempotency' = idempotency
      BY <3>1, LedgerStill DEF PhoneTypeOK, PhoneInv, vars, ledgerVars
    <3>3. PhoneTypeOK'
      BY <3>1, <3>2 DEF PhoneTypeOK
    <3>4. JobsKnow'
      BY <3>1, <3>2 DEF PhoneInv, JobsKnow, JobInv, JobPlaced, JobSelects, JobConfirms,
         JobOrders, Stands, Known
    <3> QED
      BY <3>1, <3>2, <3>3, <3>4 DEF PhoneInv, CaseAgrees, DocsFollow, OrderedAsConfirmed,
         OneEnrols, At, Stands, Known
  <2>2. CASE PhoneNext
    BY <2>2, PhoneStepKeeps DEF Kept
  <2> QED
    BY <2>1, <2>2
<1> QED
  BY <1>1, <1>2, PTL DEF PhoneSpec

\* What is claimed for payment is what the caller confirmed, what the case says
\* and what the ledger's keys stand for (submitConfirmedOrder).
THEOREM OrdersAreConfirmed == PhoneSpec => []OrderedAsConfirmed
<1>1. PhoneInv => OrderedAsConfirmed
  BY DEF PhoneInv
<1> QED
  BY <1>1, PhoneTypeCorrect, PTL

\* A case has one candidate and one confirmation, of that candidate, for ever
\* (coordinator.transition and consumeConfirmation).
THEOREM AgreementsAreFinal == PhoneSpec => AgreementIsFinal
<1>1. PhoneTypeOK /\ PhoneInv /\ [PhoneNext]_phoneVars =>
        [case # None =>
           /\ case.candidate # None => case'.candidate = case.candidate
           /\ case.commitment # None => case'.commitment = case.commitment
           /\ case'.commitment # case.commitment => case'.commitment = case'.candidate]_phoneVars
  <2> SUFFICES ASSUME PhoneTypeOK, PhoneInv, PhoneNext, case # None
        PROVE  /\ case.candidate # None => case'.candidate = case.candidate
               /\ case.commitment # None => case'.commitment = case.commitment
               /\ case'.commitment # case.commitment => case'.commitment = case'.candidate
    OBVIOUS
  <2> QED
    BY PhoneStepKeeps DEF Kept, Grows, PhoneInv, CaseAgrees
<1> QED
  BY <1>1, PhoneTypeCorrect, PTL DEF PhoneSpec, AgreementIsFinal

\* An order that reached the phone record or the case stays there, and is one
\* the supplier has taken (save, rollupReconciledOrder, orderSubmitDirect).
THEOREM OrdersAreKept == PhoneSpec => OrderNeverForgotten
<1>1. PhoneTypeOK /\ PhoneInv /\ [PhoneNext]_phoneVars =>
        [/\ phone # None /\ phone.ordered => phone'.ordered
         /\ case # None /\ case.ordered => case'.ordered
         /\ phone' # None /\ phone'.ordered => supplierOrder' /\ case'.ordered]_phoneVars
  <2> SUFFICES ASSUME PhoneTypeOK, PhoneInv, PhoneNext
        PROVE  /\ phone # None /\ phone.ordered => phone'.ordered
               /\ case # None /\ case.ordered => case'.ordered
               /\ phone' # None /\ phone'.ordered => supplierOrder' /\ case'.ordered
    OBVIOUS
  <2> QED
    BY PhoneStepKeeps DEF Kept, Grows, PhoneInv, DocsFollow
<1> QED
  BY <1>1, PhoneTypeCorrect, PTL DEF PhoneSpec, OrderNeverForgotten

\* A call takes its case through the procedure of module CaseProcedure, or
\* leaves it alone: what is proved there of every history holds of telephone
\* orders too (the coordinator has no way into the ledger but its commands).
THEOREM CallImplementsProcedure == PhoneSpec => ProcSpec
<1>1. PhoneInit => ProcInit
  BY DEF PhoneInit, Init
<1>2. PhoneTypeOK /\ PhoneInv /\ [PhoneNext]_phoneVars => [ProcNext]_procVars
  <2> SUFFICES ASSUME PhoneTypeOK, PhoneInv, [PhoneNext]_phoneVars
               PROVE  ProcNext \/ UNCHANGED procVars
    OBVIOUS
  <2>1. ASSUME NEW type \in Keys, NEW hash \in Conditions, NEW expected \in Nat,
               Execute(Command(type, hash, expected))
        PROVE  ProcNext \/ UNCHANGED procVars
    BY <2>1, PhoneCommand, ExecuteRefines DEF AnyCommand
  <2>2. CASE UNCHANGED vars
    BY <2>2 DEF vars
  <2>3. ASSUME NEW j \in Jobs, OpenCanonicalCase(j) PROVE ProcNext \/ UNCHANGED procVars
    <3>1. PHONE_CONNECTED \in Keys /\ CallId \in Conditions /\ 0 \in Nat
      BY PhoneKeys, PhoneConditions
    <3> QED
      BY <2>1, <2>2, <2>3, <3>1 DEF OpenCanonicalCase
  <2>4. ASSUME NEW j \in Jobs, ExecuteCommand(j) PROVE ProcNext \/ UNCHANGED procVars
    <3>1. At(j, "execute") /\ Execute(Command(EventOf(j), job[j].terms, job[j].expected))
      BY <2>4 DEF ExecuteCommand
    <3>2. /\ JobInv(job[j]) /\ job[j].step = "execute" /\ job[j] \in Job
          /\ job[j].kind \in {"INTERPRET", "SELECT", "CONFIRM"}
      BY <3>1, JobAtHand DEF JobInv, JobPlaced, StepsOf, Kinds, ShortSteps, EventSteps, OrderSteps
    <3>3. job[j].terms \in Conditions
      BY <3>2, PhoneConditions DEF JobInv, JobSelects, JobConfirms, ShortSteps
    <3>4. EventOf(j) \in Keys /\ job[j].expected \in Nat
      BY <3>2, PhoneKeys DEF EventOf, Job
    <3> QED
      BY <2>1, <3>1, <3>3, <3>4
  <2>5. CASE Webhook
    BY <2>2, <2>5 DEF Webhook, Begin, Interpret, GoodsFound, Select, Approved, Confirm,
       ReconcileDirect, Start
  <2>6. ASSUME NEW j \in Jobs, Work(j) \/ Stop(j),
               ~OpenCanonicalCase(j), ~ExecuteCommand(j)
        PROVE  UNCHANGED vars
    <3>1. CASE Stop(j) \/ Conflict(j) \/ Create(j) \/ Enrol(j) \/ Value(j)
      BY <3>1 DEF Stop, Conflict, Create, Enrol, Value
    <3>2. CASE ConsumeConfirmation(j) \/ Hold(j) \/ Advance(j) \/ Submit(j) \/ Save(j)
      BY <3>2 DEF ConsumeConfirmation, Hold, SavePhone, Advance, Submit, Save
    <3>3. CASE Submitting(j) \/ Transition(j) \/ Preview(j) \/ Claim(j)
      BY <3>3 DEF Submitting, Transition, TransitionTo, Preview, Claim
    <3>4. CASE Post(j) \/ Rollup(j) \/ RecordReconciled(j)
      BY <3>4 DEF Post, Rollup, RecordReconciled
    <3> QED
      BY <2>6, <3>1, <3>2, <3>3, <3>4 DEF Work
  <2>7. CASE UNCHANGED phoneVars
    BY <2>2, <2>7 DEF phoneVars
  <2> QED
    BY <2>2, <2>3, <2>4, <2>5, <2>6, <2>7 DEF PhoneNext
<1> QED
  BY <1>1, <1>2, PhoneTypeCorrect, PTL DEF PhoneSpec, ProcSpec
=============================================================================
