---------------------------- MODULE MCCaseLedger ----------------------------
(***************************************************************************)
(* Commands of callers that see old tails, repeat themselves and reuse     *)
(* keys, in the two places where they differ: from the opening on, with    *)
(* every expected tail and with and without authority; and on a case whose *)
(* payment has been proved by seven events of their own keys, where terms  *)
(* are ordered, confirmed, withdrawn or evaluated anew.                    *)
(***************************************************************************)
EXTENDS CaseLedger, TLC

CONSTANTS c1, c2, k1, k2, k3, h1, h2, h3, h4, h5, h6, h7,
          EarlyLog, LateLog    \* bounds on the two logs

MCConditions == {c1, c2}
Paved        == <<h1, h2, h3, h4, h5, h6, h7>>
Fresh        == {k1, k2, k3}
MCKeys       == Fresh \cup {h1, h2, h3, h4, h5, h6, h7}
MCCommandTypes ==
  PHONE_CONNECTED .. SUPPLIER_CONFIRMED \cup {APPROVAL_INVALIDATED, POLICY_REEVALUATED}
KeySymmetry == Permutations(Fresh)

DataOf(revisions, conditions) == [revision : revisions, condition : conditions]

Origin(actor, source) == [actor |-> actor, source |-> source, attested |-> TRUE]

\* An actor and a source the event type is taken from.
Own(type) ==
  LET pair == CHOOSE pair \in Authority(type) : TRUE IN Origin(pair[1], pair[2])

\* The model answers, but names no response: good for none of the first events.
Unattested == [Origin("GEMINI", "VERTEX_GEMINI") EXCEPT !.attested = FALSE]

Early == \A i \in DOMAIN Paved : ~Known(Paved[i])
EarlyCommands ==
  UNION {[type : {type}, key : Fresh, data : DataOf({0, 1}, {c1}), until : {0}, at : {0},
          origin : {Own(type), Unattested}, expected : 0 .. Len(log)] :
           type \in PHONE_CONNECTED .. POLICY_EVALUATED}

\* The next of the seven events, on the tail.
PavedCommand ==
  [type |-> Len(log), key |-> Paved[Len(log) + 1], data |-> [revision |-> 1, condition |-> c1],
   until |-> 1, at |-> 0, origin |-> Own(Len(log)), expected |-> Len(log)]

Late == Len(log) >= Len(Paved) /\ Known(h1)
LateTypes == {SUPPLIER_ORDER_SUBMITTED, SUPPLIER_CONFIRMED, APPROVAL_INVALIDATED, POLICY_REEVALUATED}
LateCommands ==
  UNION {[type : {type}, key : Fresh \cup {h7}, data : DataOf({1}, {c1, c2}), until : {1},
          at : {0, 1}, origin : {Own(type)}, expected : {Len(log) - 1, Len(log)}] :
           type \in LateTypes}

Unhashable(types) ==
  \E key \in Fresh, type \in types : \E fault \in DataFaults(type) :
    RejectUnhashable(key, type, UnsafeReason(fault))

MCNext ==
  \/ /\ Early /\ Len(log) < EarlyLog
     /\ \/ \E cmd \in EarlyCommands : Execute(cmd)
        \/ Unhashable(PHONE_CONNECTED .. POLICY_EVALUATED)
  \/ /\ log = <<>> \/ Known(h1)
     /\ Len(log) < Len(Paved)
     /\ Accept(PavedCommand)
  \/ /\ Late /\ Len(log) < LateLog
     /\ \/ \E cmd \in LateCommands : Execute(cmd)
        \/ Unhashable({SUPPLIER_ORDER_SUBMITTED})

MCSpec == Init /\ [][MCNext]_vars
=============================================================================
