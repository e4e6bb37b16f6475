---------------------------- MODULE Idempotency ----------------------------
(***************************************************************************)
(* idempotency.middleware.ts: requests that bear one Idempotency-Key, with *)
(* one method and path.  The middleware deletes expired records, looks for *)
(* the record of the key, refuses another body, replays a completed        *)
(* response, and otherwise lets the handler run, of which it records the   *)
(* response when it is sent, without waiting for the update.  A record is  *)
(* named after the request that created it.                                *)
(***************************************************************************)
EXTENDS Integers, FiniteSets

CONSTANTS
    Posts,             \* requests with the key, retries included
    BodyOf,            \* their bodies
    Servers,           \* processes of the API
    ServerOf,          \* the one that serves each request
    MaxFailures,       \* bound: failed statements, failed handlers, dying servers, expiries
    NoPost

VARIABLES
    record,   \* name of the record, NoPost for none
    expired,  \* the record is past its time
    answer,   \* the request whose response the record holds, NoPost while it is started
    ppc,      \* position of each request
    held,     \* the record each one has gone by: found or created
    reply,    \* the request whose response each one has got
    \* history and bound
    ran,      \* requests whose handler ran
    done,     \* those whose handler answered with less than 500
    crowded,  \* requests that looked while another one was on its way from look to record
    unsaved,  \* records that a response was not entered in
    failures

recordVars == <<record, expired, answer>>
pastVars == <<ran, done, crowded, unsaved>>
vars == <<recordVars, ppc, held, reply, pastVars, failures>>

Positions == {"new", "find", "create", "handle", "save", "over"}

TypeOK ==
    /\ {record, answer} \subseteq Posts \cup {NoPost}
    /\ expired \in BOOLEAN
    /\ ppc \in [Posts -> Positions]
    /\ held \in [Posts -> Posts \cup {NoPost}]
    /\ reply \in [Posts -> Posts \cup {NoPost}]
    /\ {ran, done, crowded, unsaved} \subseteq SUBSET Posts
    /\ failures \in 0..MaxFailures

Init ==
    /\ record = NoPost /\ answer = NoPost /\ expired = FALSE
    /\ ppc = [p \in Posts |-> "new"]
    /\ held = [p \in Posts |-> NoPost]
    /\ reply = [p \in Posts |-> NoPost]
    /\ ran = {} /\ done = {} /\ crowded = {} /\ unsaved = {}
    /\ failures = 0

Fails == failures < MaxFailures /\ failures' = failures + 1

Goto(p, where) == ppc' = [ppc EXCEPT ![p] = where]

-----------------------------------------------------------------------------
(* A failure to delete is ignored. *)
Purge(p) ==
    /\ ppc[p] = "new"
    /\ Goto(p, "find")
    /\ \/ /\ expired
          /\ record' = NoPost /\ answer' = NoPost /\ expired' = FALSE
          /\ UNCHANGED failures
       \/ ~expired /\ UNCHANGED <<recordVars, failures>>
       \/ expired /\ Fails /\ UNCHANGED recordVars
    /\ UNCHANGED <<held, reply, pastVars>>

Crowd(p) ==
    crowded' = IF \E q \in Posts \ {p} : ppc[q] \in {"create", "handle", "save"} THEN crowded \cup {p} ELSE crowded

(* Faulty variant: the hash is not compared. *)
SameBody_Always(p) == TRUE

SameBody(p) == BodyOf[record] = BodyOf[p]

(* Another body is refused; a completed record is replayed; a started one does not keep the handler from running. *)
FindRecord(p) ==
    /\ ppc[p] = "find" /\ record # NoPost
    /\ IF SameBody(p)
       THEN IF answer # NoPost
            THEN /\ Goto(p, "over")
                 /\ reply' = [reply EXCEPT ![p] = answer]
                 /\ UNCHANGED <<held, crowded>>
            ELSE /\ Goto(p, "handle")
                 /\ held' = [held EXCEPT ![p] = record]
                 /\ Crowd(p)
                 /\ UNCHANGED reply
       ELSE Goto(p, "over") /\ UNCHANGED <<held, reply, crowded>>
    /\ UNCHANGED <<recordVars, ran, done, unsaved, failures>>

(* A failure to read counts as no record. *)
FindNothing(p) ==
    /\ ppc[p] = "find"
    /\ IF record = NoPost THEN UNCHANGED failures ELSE Fails
    /\ Goto(p, "create")
    /\ Crowd(p)
    /\ UNCHANGED <<recordVars, held, reply, ran, done, unsaved>>

CreateRecord(p) ==
    /\ ppc[p] = "create" /\ record = NoPost
    /\ record' = p
    /\ held' = [held EXCEPT ![p] = p]
    /\ Goto(p, "handle")
    /\ UNCHANGED <<expired, answer, reply, pastVars, failures>>

(* A server dies, with all the requests that it serves. *)
ServerDies(s) ==
    LET lost == {p \in Posts : ServerOf[p] = s /\ ppc[p] \notin {"new", "over"}}
    IN  /\ ppc' = [p \in Posts |-> IF p \in lost THEN "over" ELSE ppc[p]]
        /\ unsaved' = unsaved \cup {held[p] : p \in {q \in lost : ppc[q] = "save"}}
        /\ UNCHANGED <<recordVars, held, reply, ran, done, crowded>>

(* The key is unique: the creation rejects, in a middleware that nobody waits for. *)
CreateRejects(p) ==
    /\ ppc[p] = "create" /\ record # NoPost
    /\ ServerDies(ServerOf[p])
    /\ UNCHANGED failures

(* The handler answers, with less than 500 or not; only the first is recorded. *)
Handle(p) ==
    /\ ppc[p] = "handle"
    /\ ran' = ran \cup {p}
    /\ \/ /\ done' = done \cup {p}
          /\ reply' = [reply EXCEPT ![p] = p]
          /\ Goto(p, "save")
          /\ UNCHANGED failures
       \/ /\ Fails
          /\ Goto(p, "over")
          /\ UNCHANGED <<done, reply>>
    /\ UNCHANGED <<recordVars, held, crowded, unsaved>>

(* Faulty variant: the response is sent, the record is not updated. *)
Save_Omitted(p) ==
    /\ ppc[p] = "save"
    /\ Goto(p, "over")
    /\ UNCHANGED <<recordVars, held, reply, pastVars, failures>>

(* The update, of a record that may be gone, and may fail unnoticed. *)
Save(p) ==
    /\ ppc[p] = "save"
    /\ Goto(p, "over")
    /\ \/ /\ answer' = IF record = held[p] THEN p ELSE answer
          /\ UNCHANGED <<unsaved, failures>>
       \/ Fails /\ unsaved' = unsaved \cup {held[p]} /\ UNCHANGED answer
    /\ UNCHANGED <<record, expired, held, reply, ran, done, crowded>>

Crash == \E s \in Servers : Fails /\ ServerDies(s)

(* A day passes; no request lasts that long. *)
Expire ==
    /\ record # NoPost /\ ~expired
    /\ \A p \in Posts : ppc[p] \in {"new", "over"}
    /\ Fails
    /\ expired' = TRUE
    /\ UNCHANGED <<record, answer, ppc, held, reply, pastVars>>

PostStep(p) ==
    \/ Purge(p) \/ FindRecord(p) \/ FindNothing(p)
    \/ CreateRecord(p) \/ CreateRejects(p) \/ Handle(p) \/ Save(p)

Next == (\E p \in Posts : PostStep(p)) \/ Crash \/ Expire

Spec == Init /\ [][Next]_vars
-----------------------------------------------------------------------------
(***************************************************************************)
(* Under one record handlers run for one body only, and a response is      *)
(* replayed to requests with that body only, though the record is looked   *)
(* for and created in separate statements, may fail to be read, and may    *)
(* expire.                                                                 *)
(***************************************************************************)
OneBodyPerKey ==
    /\ \A p, q \in ran : held[p] = held[q] => BodyOf[p] = BodyOf[q]
    /\ \A p \in Posts : reply[p] # NoPost => BodyOf[reply[p]] = BodyOf[p]

(***************************************************************************)
(* Under one record at most one handler succeeds, retries after failures   *)
(* and after crashes included, unless a request looked for the record      *)
(* before an earlier one had entered its response, or a response was never *)
(* entered.                                                                *)
(***************************************************************************)
SucceedsOnce ==
    \A p, q \in done \ crowded : held[p] = held[q] /\ held[p] \notin unsaved => p = q
=============================================================================
