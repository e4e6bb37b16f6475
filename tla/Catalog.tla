------------------------------ MODULE Catalog ------------------------------
(***************************************************************************)
(* Three values of one organisation that a request reads in one statement  *)
(* and writes from what it read in a later one, with no transaction:       *)
(* the images of a listing (listings.service.ts), the number of its units  *)
(* under the limit of the plan (plan-enforcement.service.ts,               *)
(* sites.service.ts; sites are counted in the same way) and the versions   *)
(* of a document of one subject and kind (documents.service.ts).           *)
(***************************************************************************)
EXTENDS Integers

CONSTANTS
    Editors,          \* concurrent requests
    Images,
    Limits, FreeLimit, \* the limits of the plans, of the free one
    Documents,        \* of one subject and kind
    MaxCatalogEvents, \* bound: requests, plan changes and stops
    NoDocument

VARIABLES
    images,                  \* the listing's images
    units, limit,            \* units without deletedAt, the limit of the plan
    docVersion, previous,    \* of each document; version 0 for one not yet there
    epc, about,              \* editors: position, the image or document they bring
    copy, allowed, latest,   \* what they have read: images, limit, latest document
    \* history and bound
    edited,                  \* the images that the requests have asked for
    mixed, loose, forked,    \* an image edit, a unit, a version met another request
    catalogEvents

editorVars == <<epc, about, copy, allowed, latest>>
listingVars == <<images, edited, mixed>>
planVars == <<units, limit, loose>>
documentVars == <<docVersion, previous, forked>>
vars == <<listingVars, planVars, documentVars, editorVars, catalogEvents>>

TypeOK ==
    /\ images \in SUBSET Images /\ edited \in SUBSET Images
    /\ units \in Nat /\ limit \in Limits
    /\ docVersion \in [Documents -> Nat]
    /\ previous \in [Documents -> Documents \cup {NoDocument}]
    /\ epc \in [Editors -> {"idle", "add", "remove", "count", "create", "version"}]
    /\ about \in [Editors -> Images \cup Documents \cup {NoDocument}]
    /\ copy \in [Editors -> SUBSET Images]
    /\ allowed \in [Editors -> Limits \cup {0}]
    /\ latest \in [Editors -> Documents \cup {NoDocument}]
    /\ mixed \in BOOLEAN /\ loose \in BOOLEAN /\ forked \in BOOLEAN
    /\ catalogEvents \in 0..MaxCatalogEvents

Init ==
    /\ images = {} /\ edited = {}
    /\ units = 0 /\ limit = FreeLimit
    /\ docVersion = [d \in Documents |-> 0]
    /\ previous = [d \in Documents |-> NoDocument]
    /\ epc = [e \in Editors |-> "idle"]
    /\ about = [e \in Editors |-> NoDocument]
    /\ copy = [e \in Editors |-> {}]
    /\ allowed = [e \in Editors |-> 0]
    /\ latest = [e \in Editors |-> NoDocument]
    /\ mixed = FALSE /\ loose = FALSE /\ forked = FALSE
    /\ catalogEvents = 0

Happens == catalogEvents < MaxCatalogEvents /\ catalogEvents' = catalogEvents + 1

Begin(e, where) ==
    /\ epc[e] = "idle"
    /\ Happens
    /\ epc' = [epc EXCEPT ![e] = where]

Return(e) ==
    /\ epc' = [epc EXCEPT ![e] = "idle"]
    /\ about' = [about EXCEPT ![e] = NoDocument]
    /\ copy' = [copy EXCEPT ![e] = {}]
    /\ allowed' = [allowed EXCEPT ![e] = 0]
    /\ latest' = [latest EXCEPT ![e] = NoDocument]

(* Somebody other than those in "but" is at one of the positions. *)
Others(but, positions) == \E o \in Editors \ but : epc[o] \in positions

(* A name that nobody brings yet: keys and ids are random. *)
Fresh(x) == \A e \in Editors : about[e] # x

-----------------------------------------------------------------------------
(* addImage and removeImage up to the upload, or the filter. *)
FindListing(e, i, edit) ==
    /\ edit = "add" => Fresh(i) /\ i \notin images \cup edited
    /\ Begin(e, edit)
    /\ about' = [about EXCEPT ![e] = i]
    /\ copy' = [copy EXCEPT ![e] = images]
    /\ UNCHANGED <<listingVars, planVars, documentVars, allowed, latest>>

Edit(list, e) == IF epc[e] = "add" THEN list \cup {about[e]} ELSE list \ {about[e]}

WriteImages(e) ==
    /\ epc[e] \in {"add", "remove"}
    /\ images' = Edit(copy[e], e)
    /\ edited' = Edit(edited, e)
    /\ mixed' = (mixed \/ Others({e}, {"add", "remove"}))
    /\ Return(e)
    /\ UNCHANGED <<planVars, documentVars, catalogEvents>>

(* A list of images that a form sends replaces the list. *)
UpdateListing(list) ==
    /\ Happens
    /\ images' = list
    /\ edited' = list
    /\ mixed' = (mixed \/ Others({}, {"add", "remove"}))
    /\ UNCHANGED <<planVars, documentVars, editorVars>>

-----------------------------------------------------------------------------
ReadPlan(e) ==
    /\ Begin(e, "count")
    /\ allowed' = [allowed EXCEPT ![e] = limit]
    /\ UNCHANGED <<listingVars, planVars, documentVars, about, copy, latest>>

CountUnits(e) ==
    /\ epc[e] = "count"
    /\ IF units >= allowed[e]
       THEN Return(e) /\ UNCHANGED loose
       ELSE /\ epc' = [epc EXCEPT ![e] = "create"]
            /\ loose' = (loose \/ Others({e}, {"create"}))
            /\ UNCHANGED <<about, copy, allowed, latest>>
    /\ UNCHANGED <<listingVars, units, limit, documentVars, catalogEvents>>

(* A code or a type that the site refuses ends the request without a unit: Stop. *)
CreateUnit(e) ==
    /\ epc[e] = "create"
    /\ units' = units + 1
    /\ Return(e)
    /\ UNCHANGED <<listingVars, limit, loose, documentVars, catalogEvents>>

(* The inventory's own route, where nobody counts. *)
CreateUncounted ==
    /\ Happens
    /\ units' = units + 1
    /\ loose' = (loose \/ units >= limit \/ Others({}, {"create"}))
    /\ UNCHANGED <<listingVars, limit, documentVars, editorVars>>

DeleteUnit ==
    /\ units > 0
    /\ Happens
    /\ units' = units - 1
    /\ UNCHANGED <<listingVars, limit, loose, documentVars, editorVars>>

ChangePlan(to) ==
    /\ Happens
    /\ limit' = to
    /\ loose' = (loose \/ to < units \/ (to < limit /\ Others({}, {"count", "create"})))
    /\ UNCHANGED <<listingVars, units, documentVars, editorVars>>

-----------------------------------------------------------------------------
Stored == {d \in Documents : docVersion[d] > 0}

StoreGeneratedDocument(d) ==
    /\ docVersion[d] = 0 /\ Fresh(d)
    /\ Happens
    /\ docVersion' = [docVersion EXCEPT ![d] = 1]
    /\ UNCHANGED <<listingVars, planVars, previous, forked, editorVars>>

(* Faulty variant: the new version follows the named document, not the latest. *)
FindLatest_Named(e, d, named) ==
    /\ d \notin Stored /\ Fresh(d) /\ named \in Stored
    /\ Begin(e, "version")
    /\ about' = [about EXCEPT ![e] = d]
    /\ latest' = [latest EXCEPT ![e] = named]
    /\ UNCHANGED <<listingVars, planVars, documentVars, copy, allowed>>

(* createVersion of a named document up to the upload: any latest one of its subject and kind. *)
FindLatest(e, d, named) ==
    /\ d \notin Stored /\ Fresh(d) /\ named \in Stored
    /\ Begin(e, "version")
    /\ about' = [about EXCEPT ![e] = d]
    /\ \E l \in Stored : /\ \A o \in Stored : docVersion[o] <= docVersion[l]
                         /\ latest' = [latest EXCEPT ![e] = l]
    /\ UNCHANGED <<listingVars, planVars, documentVars, copy, allowed>>

CreateVersion(e) ==
    /\ epc[e] = "version"
    /\ docVersion' = [docVersion EXCEPT ![about[e]] = docVersion[latest[e]] + 1]
    /\ previous' = [previous EXCEPT ![about[e]] = latest[e]]
    /\ forked' = (forked \/ Others({e}, {"version"}))
    /\ Return(e)
    /\ UNCHANGED <<listingVars, planVars, catalogEvents>>

-----------------------------------------------------------------------------
(* A statement or an upload throws, or the process dies. *)
Stop(e) ==
    /\ epc[e] # "idle"
    /\ Happens
    /\ Return(e)
    /\ UNCHANGED <<listingVars, planVars, documentVars>>

EditorStep(e) ==
    \/ \E i \in Images, edit \in {"add", "remove"} : FindListing(e, i, edit)
    \/ \E d, named \in Documents : FindLatest(e, d, named)
    \/ WriteImages(e) \/ ReadPlan(e) \/ CountUnits(e) \/ CreateUnit(e) \/ CreateVersion(e) \/ Stop(e)

Next ==
    \/ \E e \in Editors : EditorStep(e)
    \/ \E list \in SUBSET Images : UpdateListing(list)
    \/ CreateUncounted \/ DeleteUnit
    \/ \E to \in Limits : ChangePlan(to)
    \/ \E d \in Documents : StoreGeneratedDocument(d)

Spec == Init /\ [][Next]_vars
-----------------------------------------------------------------------------
(***************************************************************************)
(* What is written from a copy agrees with what has happened meanwhile,    *)
(* however many requests are under way.  The listing shows the images that *)
(* were asked for, unless an image edit was overtaken by another one.      *)
(* There are no more units than the plan allows, unless two creations      *)
(* overlapped, one was not counted, or the plan became smaller.  Documents *)
(* form one line: no two versions above one have the same number, and each *)
(* follows one with the number before, unless two were made at once.       *)
(***************************************************************************)
CatalogAgrees ==
    /\ ~mixed => images = edited
    /\ ~loose => units <= limit
    /\ ~forked => \A c, d \in Stored : docVersion[d] > 1 =>
           /\ docVersion[c] = docVersion[d] => c = d
           /\ previous[d] \in Stored /\ docVersion[previous[d]] = docVersion[d] - 1
=============================================================================
