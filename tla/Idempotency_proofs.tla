------------------------- MODULE Idempotency_proofs -------------------------
(***************************************************************************)
(* Proofs about the idempotency middleware of the back office, for any     *)
(* number of requests, bodies, servers and failures.                       *)
(***************************************************************************)
EXTENDS Office, TLAPS

(* A request at its handler, or past it, has gone by a record of its own body. *)
HeldFits ==
    \A p \in Posts :
        ppc[p] \in {"handle", "save"} \/ p \in ran => held[p] \in Posts /\ BodyOf[held[p]] = BodyOf[p]

(* So has the request whose response a record holds. *)
AnswerFits == answer # NoPost => record # NoPost /\ BodyOf[answer] = BodyOf[record]

RepliesFit == \A p \in Posts : reply[p] # NoPost => BodyOf[reply[p]] = BodyOf[p]

MiddlewareInv == Middleware!TypeOK /\ HeldFits /\ AnswerFits /\ RepliesFit

LEMMA MiddlewareInit == Middleware!Init => MiddlewareInv
<1> SUFFICES ASSUME Middleware!Init
             PROVE  MiddlewareInv
    OBVIOUS
<1> USE DEF Middleware!Init
<1>1. Middleware!TypeOK
    <2>1. record = NoPost /\ answer = NoPost /\ expired \in BOOLEAN
        OBVIOUS
    <2>2. {ran, done, crowded, unsaved} \subseteq SUBSET Posts
        OBVIOUS
    <2>3. ppc \in [Posts -> Middleware!Positions]
        BY DEF Middleware!Positions
    <2>4. failures \in 0..MaxFailures
        BY MaxFailuresAssumption
    <2>5. QED
        BY <2>1, <2>2, <2>3, <2>4 DEF Middleware!TypeOK
<1>2. HeldFits /\ AnswerFits /\ RepliesFit
    BY DEF HeldFits, AnswerFits, RepliesFit
<1>3. QED
    BY <1>1, <1>2 DEF MiddlewareInv

(* The steps of one request. *)
LEMMA PostKeepsInv ==
    ASSUME MiddlewareInv, NEW p \in Posts, Middleware!PostStep(p)
    PROVE  MiddlewareInv'
<1> USE NoPostAssumption, MaxFailuresAssumption
    DEF Middleware!TypeOK, Middleware!Positions, Middleware!Goto, Middleware!Fails, Middleware!Crowd,
        Middleware!recordVars, Middleware!pastVars
<1>0. Middleware!TypeOK /\ HeldFits /\ AnswerFits /\ RepliesFit
    BY DEF MiddlewareInv
<1>1. CASE Middleware!Purge(p)
    <2>1. Middleware!TypeOK'
        <3>1. {record, answer}' \subseteq Posts \cup {NoPost} /\ expired' \in BOOLEAN
            BY <1>0, <1>1 DEF Middleware!Purge
        <3>2. failures' \in 0..MaxFailures
            BY <1>0, <1>1 DEF Middleware!Purge
        <3>3. QED
            BY <1>0, <1>1, <3>1, <3>2 DEF Middleware!Purge
    <2>2. HeldFits' /\ AnswerFits' /\ RepliesFit'
        BY <1>0, <1>1 DEF Middleware!Purge, HeldFits, AnswerFits, RepliesFit
    <2>3. QED
        BY <2>1, <2>2 DEF MiddlewareInv
<1>2. CASE Middleware!FindRecord(p)
    <2>1. Middleware!TypeOK'
        BY <1>0, <1>2 DEF Middleware!FindRecord
    <2>2. HeldFits' /\ AnswerFits' /\ RepliesFit'
        BY <1>0, <1>2 DEF Middleware!FindRecord, Middleware!SameBody, HeldFits, AnswerFits, RepliesFit
    <2>3. QED
        BY <2>1, <2>2 DEF MiddlewareInv
<1>3. CASE Middleware!FindNothing(p)
    <2>1. Middleware!TypeOK'
        BY <1>0, <1>3 DEF Middleware!FindNothing
    <2>2. HeldFits' /\ AnswerFits' /\ RepliesFit'
        BY <1>0, <1>3 DEF Middleware!FindNothing, HeldFits, AnswerFits, RepliesFit
    <2>3. QED
        BY <2>1, <2>2 DEF MiddlewareInv
<1>4. CASE Middleware!CreateRecord(p)
    <2>1. Middleware!TypeOK'
        BY <1>0, <1>4 DEF Middleware!CreateRecord
    <2>2. HeldFits' /\ AnswerFits' /\ RepliesFit'
        BY <1>0, <1>4 DEF Middleware!CreateRecord, HeldFits, AnswerFits, RepliesFit
    <2>3. QED
        BY <2>1, <2>2 DEF MiddlewareInv
<1>5. CASE Middleware!CreateRejects(p)
    <2>1. Middleware!TypeOK'
        BY <1>0, <1>5 DEF Middleware!CreateRejects, Middleware!ServerDies, HeldFits
    <2>2. HeldFits' /\ AnswerFits' /\ RepliesFit'
        BY <1>0, <1>5 DEF Middleware!CreateRejects, Middleware!ServerDies, HeldFits, AnswerFits, RepliesFit
    <2>3. QED
        BY <2>1, <2>2 DEF MiddlewareInv
<1>6. CASE Middleware!Handle(p)
    <2>1. Middleware!TypeOK'
        BY <1>0, <1>6 DEF Middleware!Handle
    <2>2. HeldFits' /\ AnswerFits' /\ RepliesFit'
        BY <1>0, <1>6 DEF Middleware!Handle, HeldFits, AnswerFits, RepliesFit
    <2>3. QED
        BY <2>1, <2>2 DEF MiddlewareInv
<1>7. CASE Middleware!Save(p)
    <2>1. Middleware!TypeOK'
        BY <1>0, <1>7 DEF Middleware!Save, HeldFits
    <2>2. HeldFits' /\ AnswerFits' /\ RepliesFit'
        BY <1>0, <1>7 DEF Middleware!Save, HeldFits, AnswerFits, RepliesFit
    <2>3. QED
        BY <2>1, <2>2 DEF MiddlewareInv
<1>8. QED
    BY <1>1, <1>2, <1>3, <1>4, <1>5, <1>6, <1>7 DEF Middleware!PostStep

(* What befalls servers and records. *)
LEMMA ServersKeepInv ==
    ASSUME MiddlewareInv, Middleware!Crash \/ Middleware!Expire
    PROVE  MiddlewareInv'
<1> USE NoPostAssumption, MaxFailuresAssumption
    DEF Middleware!TypeOK, Middleware!Positions, Middleware!Fails, Middleware!recordVars, Middleware!pastVars
<1>0. Middleware!TypeOK /\ HeldFits /\ AnswerFits /\ RepliesFit
    BY DEF MiddlewareInv
<1>1. CASE Middleware!Crash
    <2>1. Middleware!TypeOK'
        BY <1>0, <1>1 DEF Middleware!Crash, Middleware!ServerDies, HeldFits
    <2>2. HeldFits' /\ AnswerFits' /\ RepliesFit'
        BY <1>0, <1>1 DEF Middleware!Crash, Middleware!ServerDies, HeldFits, AnswerFits, RepliesFit
    <2>3. QED
        BY <2>1, <2>2 DEF MiddlewareInv
<1>2. CASE Middleware!Expire
    BY <1>0, <1>2 DEF Middleware!Expire, MiddlewareInv, HeldFits, AnswerFits, RepliesFit
<1>3. QED
    BY <1>1, <1>2

LEMMA MiddlewareNext == MiddlewareInv /\ [Next]_sceneVars => MiddlewareInv'
<1> SUFFICES ASSUME MiddlewareInv, [Next]_sceneVars
             PROVE  MiddlewareInv'
    OBVIOUS
<1>1. CASE Middleware!Next
    BY <1>1, PostKeepsInv, ServersKeepInv DEF Middleware!Next
<1>2. CASE UNCHANGED middlewareVars
    BY <1>2 DEF middlewareVars, MiddlewareInv, Middleware!TypeOK, HeldFits, AnswerFits, RepliesFit
<1>3. QED
    BY <1>1, <1>2 DEF Next, sceneVars

LEMMA MiddlewareAlways == Spec => []MiddlewareInv
<1>1. Init => MiddlewareInv
    BY MiddlewareInit DEF Init
<1>2. QED
    BY <1>1, MiddlewareNext, PTL DEF Spec

LEMMA InvGivesOneBody == MiddlewareInv => OneBodyPerKey
BY DEF MiddlewareInv, OneBodyPerKey, Middleware!OneBodyPerKey, Middleware!TypeOK, HeldFits, RepliesFit

(***************************************************************************)
(* Under one record handlers run for one body only, and responses are      *)
(* replayed to requests with that body only, for any number of requests.   *)
(***************************************************************************)
THEOREM OneBodyPerKeyHolds == Spec => []OneBodyPerKey
BY MiddlewareAlways, InvGivesOneBody, PTL

-----------------------------------------------------------------------------
(* The requests that have looked for a record and may still change one. *)
Busy == {p \in Posts : ppc[p] \in {"create", "handle", "save"}}

(* Of those at most one found nobody else there. *)
OneUncrowded == \A p, q \in Busy \ crowded : p = q

(* A record is named after a request that has created it. *)
NamesAreUsed ==
    /\ \A p \in Posts : held[p] # NoPost => ppc[held[p]] \in {"handle", "save", "over"}
    /\ record # NoPost => ppc[record] \in {"handle", "save", "over"}

DoneIsLate == \A p \in done : ppc[p] \in {"save", "over"} /\ held[p] # NoPost

(* A request that has succeeded alone has left its response in the record, if that is still there. *)
Good(p) == p \in done \ crowded /\ held[p] \notin unsaved

ResponseIsThere == \A p \in Posts : Good(p) /\ ppc[p] = "over" /\ held[p] = record => answer # NoPost

(* Nobody else comes to the handler under the same record. *)
NobodyFollows ==
    \A p, q \in Posts : Good(p) /\ q \notin crowded /\ ppc[q] = "handle" => held[p] # held[q]

SuccessInv ==
    /\ MiddlewareInv
    /\ OneUncrowded /\ NamesAreUsed /\ DoneIsLate /\ ResponseIsThere /\ NobodyFollows
    /\ Middleware!SucceedsOnce

LEMMA SuccessInit == Middleware!Init => SuccessInv
BY MiddlewareInit
DEF Middleware!Init, SuccessInv, Busy, OneUncrowded, NamesAreUsed, DoneIsLate, Good, ResponseIsThere,
    NobodyFollows, Middleware!SucceedsOnce

LEMMA PostKeepsSuccess ==
    ASSUME SuccessInv, NEW p \in Posts, Middleware!PostStep(p)
    PROVE  SuccessInv'
<1> USE NoPostAssumption
    DEF Middleware!TypeOK, Middleware!Positions, Middleware!Goto, Middleware!Fails, Middleware!Crowd,
        Middleware!recordVars, Middleware!pastVars, Busy, Good
<1>0. /\ Middleware!TypeOK /\ HeldFits /\ OneUncrowded /\ NamesAreUsed /\ DoneIsLate
      /\ ResponseIsThere /\ NobodyFollows /\ Middleware!SucceedsOnce
    BY DEF SuccessInv, MiddlewareInv
<1>i. MiddlewareInv' /\ Middleware!TypeOK'
    BY PostKeepsInv DEF SuccessInv, MiddlewareInv
<1>1. CASE Middleware!Purge(p)
    <2>1. OneUncrowded'
        BY <1>0, <1>1 DEF Middleware!Purge, OneUncrowded
    <2>2. NamesAreUsed' /\ DoneIsLate'
        BY <1>0, <1>1 DEF Middleware!Purge, NamesAreUsed, DoneIsLate, HeldFits
    <2>3. ResponseIsThere'
        BY <1>0, <1>1 DEF Middleware!Purge, ResponseIsThere, NamesAreUsed, DoneIsLate, HeldFits
    <2>4. NobodyFollows'
        BY <1>0, <1>1 DEF Middleware!Purge, NobodyFollows, NamesAreUsed, DoneIsLate, ResponseIsThere, OneUncrowded, HeldFits
    <2>5. Middleware!SucceedsOnce'
        BY <1>0, <1>1 DEF Middleware!Purge, Middleware!SucceedsOnce, NobodyFollows
    <2>6. QED
        BY <1>i, <2>1, <2>2, <2>3, <2>4, <2>5 DEF SuccessInv
<1>2. CASE Middleware!FindRecord(p)
    <2>1. OneUncrowded'
        BY <1>0, <1>2 DEF Middleware!FindRecord, OneUncrowded
    <2>2. NamesAreUsed' /\ DoneIsLate'
        BY <1>0, <1>2 DEF Middleware!FindRecord, NamesAreUsed, DoneIsLate, HeldFits
    <2>3. ResponseIsThere'
        BY <1>0, <1>2 DEF Middleware!FindRecord, ResponseIsThere, NamesAreUsed, DoneIsLate, HeldFits
    <2>4. NobodyFollows'
        BY <1>0, <1>2 DEF Middleware!FindRecord, NobodyFollows, NamesAreUsed, DoneIsLate, ResponseIsThere, OneUncrowded, HeldFits
    <2>5. Middleware!SucceedsOnce'
        BY <1>0, <1>2 DEF Middleware!FindRecord, Middleware!SucceedsOnce, NobodyFollows, DoneIsLate
    <2>6. QED
        BY <1>i, <2>1, <2>2, <2>3, <2>4, <2>5 DEF SuccessInv
<1>3. CASE Middleware!FindNothing(p)
    <2>1. OneUncrowded'
        BY <1>0, <1>3 DEF Middleware!FindNothing, OneUncrowded
    <2>2. NamesAreUsed' /\ DoneIsLate'
        BY <1>0, <1>3 DEF Middleware!FindNothing, NamesAreUsed, DoneIsLate, HeldFits
    <2>3. ResponseIsThere'
        BY <1>0, <1>3 DEF Middleware!FindNothing, ResponseIsThere, NamesAreUsed, DoneIsLate, HeldFits
    <2>4. NobodyFollows'
        BY <1>0, <1>3 DEF Middleware!FindNothing, NobodyFollows, NamesAreUsed, DoneIsLate, ResponseIsThere, OneUncrowded, HeldFits
    <2>5. Middleware!SucceedsOnce'
        BY <1>0, <1>3 DEF Middleware!FindNothing, Middleware!SucceedsOnce, NobodyFollows
    <2>6. QED
        BY <1>i, <2>1, <2>2, <2>3, <2>4, <2>5 DEF SuccessInv
<1>4. CASE Middleware!CreateRecord(p)
    <2>1. OneUncrowded'
        BY <1>0, <1>4 DEF Middleware!CreateRecord, OneUncrowded
    <2>2. NamesAreUsed' /\ DoneIsLate'
        BY <1>0, <1>4 DEF Middleware!CreateRecord, NamesAreUsed, DoneIsLate, HeldFits
    <2>3. ResponseIsThere'
        BY <1>0, <1>4 DEF Middleware!CreateRecord, ResponseIsThere, NamesAreUsed, DoneIsLate, HeldFits
    <2>4. NobodyFollows'
        BY <1>0, <1>4 DEF Middleware!CreateRecord, NobodyFollows, NamesAreUsed, DoneIsLate, ResponseIsThere, OneUncrowded, HeldFits
    <2>5. Middleware!SucceedsOnce'
        BY <1>0, <1>4 DEF Middleware!CreateRecord, Middleware!SucceedsOnce, NobodyFollows, DoneIsLate
    <2>6. QED
        BY <1>i, <2>1, <2>2, <2>3, <2>4, <2>5 DEF SuccessInv
<1>5. CASE Middleware!CreateRejects(p)
    <2>1. OneUncrowded'
        BY <1>0, <1>5 DEF Middleware!CreateRejects, Middleware!ServerDies, OneUncrowded
    <2>2. NamesAreUsed' /\ DoneIsLate'
        BY <1>0, <1>5 DEF Middleware!CreateRejects, Middleware!ServerDies, NamesAreUsed, DoneIsLate, HeldFits
    <2>3. ResponseIsThere'
        BY <1>0, <1>5 DEF Middleware!CreateRejects, Middleware!ServerDies, ResponseIsThere, NamesAreUsed, DoneIsLate, HeldFits
    <2>4. NobodyFollows'
        BY <1>0, <1>5 DEF Middleware!CreateRejects, Middleware!ServerDies, NobodyFollows, NamesAreUsed, DoneIsLate, ResponseIsThere, OneUncrowded, HeldFits
    <2>5. Middleware!SucceedsOnce'
        BY <1>0, <1>5 DEF Middleware!CreateRejects, Middleware!ServerDies, Middleware!SucceedsOnce, NobodyFollows
    <2>6. QED
        BY <1>i, <2>1, <2>2, <2>3, <2>4, <2>5 DEF SuccessInv
<1>6. CASE Middleware!Handle(p)
    <2>1. OneUncrowded'
        BY <1>0, <1>6 DEF Middleware!Handle, OneUncrowded
    <2>2. NamesAreUsed' /\ DoneIsLate'
        BY <1>0, <1>6 DEF Middleware!Handle, NamesAreUsed, DoneIsLate, HeldFits
    <2>3. ResponseIsThere'
        BY <1>0, <1>6 DEF Middleware!Handle, ResponseIsThere, NamesAreUsed, DoneIsLate, HeldFits
    <2>4. NobodyFollows'
        BY <1>0, <1>6 DEF Middleware!Handle, NobodyFollows, NamesAreUsed, DoneIsLate, ResponseIsThere, OneUncrowded, HeldFits
    <2>5. Middleware!SucceedsOnce'
        BY <1>0, <1>6 DEF Middleware!Handle, Middleware!SucceedsOnce, NobodyFollows
    <2>6. QED
        BY <1>i, <2>1, <2>2, <2>3, <2>4, <2>5 DEF SuccessInv
<1>7. CASE Middleware!Save(p)
    <2>1. OneUncrowded'
        BY <1>0, <1>7 DEF Middleware!Save, OneUncrowded
    <2>2. NamesAreUsed' /\ DoneIsLate'
        BY <1>0, <1>7 DEF Middleware!Save, NamesAreUsed, DoneIsLate, HeldFits
    <2>3. ResponseIsThere'
        BY <1>0, <1>7 DEF Middleware!Save, ResponseIsThere, NamesAreUsed, DoneIsLate, HeldFits
    <2>4. NobodyFollows'
        BY <1>0, <1>7 DEF Middleware!Save, NobodyFollows, NamesAreUsed, DoneIsLate, ResponseIsThere, OneUncrowded, HeldFits
    <2>5. Middleware!SucceedsOnce'
        BY <1>0, <1>7 DEF Middleware!Save, Middleware!SucceedsOnce, NobodyFollows
    <2>6. QED
        BY <1>i, <2>1, <2>2, <2>3, <2>4, <2>5 DEF SuccessInv
<1>8. QED
    BY <1>1, <1>2, <1>3, <1>4, <1>5, <1>6, <1>7 DEF Middleware!PostStep

LEMMA ServersKeepSuccess ==
    ASSUME SuccessInv, Middleware!Crash \/ Middleware!Expire
    PROVE  SuccessInv'
<1> USE NoPostAssumption
    DEF Middleware!TypeOK, Middleware!Positions, Middleware!Fails, Middleware!recordVars,
        Middleware!pastVars, Busy, Good
<1>0. /\ Middleware!TypeOK /\ HeldFits /\ OneUncrowded /\ NamesAreUsed /\ DoneIsLate
      /\ ResponseIsThere /\ NobodyFollows /\ Middleware!SucceedsOnce
    BY DEF SuccessInv, MiddlewareInv
<1>i. MiddlewareInv'
    BY ServersKeepInv DEF SuccessInv
<1>1. CASE Middleware!Crash
    <2> USE DEF Middleware!Crash, Middleware!ServerDies
    <2>1. OneUncrowded'
        BY <1>0, <1>1 DEF OneUncrowded
    <2>2. NamesAreUsed' /\ DoneIsLate'
        BY <1>0, <1>1 DEF NamesAreUsed, DoneIsLate, HeldFits
    <2>3. ResponseIsThere'
        BY <1>0, <1>1 DEF ResponseIsThere, DoneIsLate, HeldFits
    <2>4. NobodyFollows'
        BY <1>0, <1>1 DEF NobodyFollows
    <2>5. Middleware!SucceedsOnce'
        BY <1>0, <1>1 DEF Middleware!SucceedsOnce
    <2>6. QED
        BY <1>i, <2>1, <2>2, <2>3, <2>4, <2>5 DEF SuccessInv
<1>2. CASE Middleware!Expire
    BY <1>0, <1>i, <1>2
    DEF Middleware!Expire, SuccessInv, OneUncrowded, NamesAreUsed, DoneIsLate, ResponseIsThere,
        NobodyFollows, Middleware!SucceedsOnce
<1>3. QED
    BY <1>1, <1>2

LEMMA SuccessNext == SuccessInv /\ [Next]_sceneVars => SuccessInv'
<1> SUFFICES ASSUME SuccessInv, [Next]_sceneVars
             PROVE  SuccessInv'
    OBVIOUS
<1>1. CASE Middleware!Next
    BY <1>1, PostKeepsSuccess, ServersKeepSuccess DEF Middleware!Next
<1>2. CASE UNCHANGED middlewareVars
    BY <1>2, MiddlewareNext
    DEF middlewareVars, SuccessInv, Busy, OneUncrowded, NamesAreUsed, DoneIsLate, Good, ResponseIsThere,
        NobodyFollows, Middleware!SucceedsOnce
<1>3. QED
    BY <1>1, <1>2 DEF Next, sceneVars

(***************************************************************************)
(* Under one record at most one handler succeeds, unless a request looked  *)
(* for the record while an earlier one was at it, or a response was never  *)
(* entered; for any number of requests, servers and failures.              *)
(***************************************************************************)
THEOREM SucceedsOnceHolds == Spec => []SucceedsOnce
<1>1. Init => SuccessInv
    BY SuccessInit DEF Init
<1>2. SuccessInv => SucceedsOnce
    BY DEF SuccessInv, SucceedsOnce
<1>3. QED
    BY <1>1, <1>2, SuccessNext, PTL DEF Spec
=============================================================================
