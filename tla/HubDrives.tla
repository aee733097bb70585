------------------------------- MODULE HubDrives ------------------------------
(***************************************************************************)
(* The pages of drives: HubClient.drives() with its cursor bindings        *)
(* (src/src/hub/client.ts) and the walk over all pages of one vehicle      *)
(* (collectDrivePages, src/scripts/drive-pagination.mjs), while another    *)
(* caller reads pages of its own, discoveries come and go, and the         *)
(* session may end.                                                        *)
(*                                                                         *)
(* A filter is a vehicle with its bounds of time, what a cursor is bound   *)
(* to.  Of discovery only the effects on this part are kept (HubDiscovery  *)
(* is about the rest).                                                     *)
(*                                                                         *)
(* External: the Hub.  An honest one keeps the drives of a filter in the   *)
(* order of their keys, newest first; its cursor stands for "below this    *)
(* key" of one filter, and drives are added while a walk is under way.     *)
(* Any other Hub may answer with any page the validators accept.           *)
(***************************************************************************)
EXTENDS Integers, Sequences

CONSTANTS
    Filters,        \* vehicles with their bounds
    WalkFilter,     \* the one the walk is about
    Limit,          \* drives on a page
    MaxPages,       \* maxPages of collectDrivePages
    MaxDrives       \* bounds the drives of a filter

ASSUME DrivesAssumption ==
    /\ WalkFilter \in Filters
    /\ Limit \in Nat \ {0}
    /\ MaxPages \in Nat \ {0}
    /\ MaxDrives \in Nat \ {0}

VARIABLES
    honest,         \* whether the Hub keeps to the description above
    newest,         \* the key of the newest drive
    known,          \* #discovery is set, with the capability query.drives
    bindings,       \* #cursorBindings
    pc,             \* pc[c]: what the drives() of caller c awaits
    options,        \* options[c]: the caller's object: filter and cursor
    asked,          \* asked[c]: what drives() took from it
    pages,          \* the keys on each page of the walk
    seen,           \* seenCursors
    walk,           \* the walk: "running", "returned" or "threw"
    began           \* history: the newest drive when the walk began, 0 before

vars ==
    <<honest, newest, known, bindings, pc, options, asked, pages, seen, walk,
      began>>

-----------------------------------------------------------------------------
Callers == {"walker", "reader"}
Keys    == 1 .. MaxDrives
Cursors == [filter : Filters, below : 2 .. MaxDrives]
End     == [filter |-> WalkFilter, below |-> 1]     \* no cursor
Unbound == "unbound"

Options == [filter : Filters, cursor : Cursors \cup {End}]

DrivesTypeOK ==
    /\ honest \in BOOLEAN
    /\ known \in BOOLEAN
    /\ newest \in Keys
    /\ bindings \in [Cursors -> Filters \cup {Unbound}]
    /\ pc \in [Callers -> {"idle", "identity", "credential", "sent"}]
    /\ options \in [Callers -> Options]
    /\ asked \in [Callers -> Options]
    /\ pages \in Seq(Seq(Keys))
    /\ seen \subseteq Cursors
    /\ walk \in {"running", "returned", "threw"}
    /\ began \in Keys \cup {0}

NoBindings == [c \in Cursors |-> Unbound]
FirstPage(f) == [filter |-> f, cursor |-> End]

Rest == FirstPage(WalkFilter)

Init ==
    /\ honest \in BOOLEAN
    /\ newest \in IF honest THEN Keys ELSE {1}
    /\ known = FALSE
    /\ bindings = NoBindings
    /\ pc = [c \in Callers |-> "idle"]
    /\ options = [c \in Callers |-> Rest]
    /\ asked = options
    /\ pages = <<>>
    /\ seen = {}
    /\ walk = "running"
    /\ began = 0

-----------------------------------------------------------------------------
(* drives() is entered: the options are read once, before the first await. *)
Ask(c, o) ==
    /\ pc[c] = "idle"
    /\ pc' = [pc EXCEPT ![c] = "identity"]
    /\ options' = [options EXCEPT ![c] = o]
    /\ asked' = [asked EXCEPT ![c] = o]
    /\ UNCHANGED <<honest, newest, known, bindings, pages, seen, walk>>

ReaderAsks == (\E o \in Options : Ask("reader", o)) /\ UNCHANGED began

(* The walk asks for the page behind its last cursor; the options are made *)
(* anew for each page and nobody else has them.                            *)
WalkerAsks ==
    /\ walk = "running"
    /\ Ask("walker", options["walker"])
    /\ began' = IF began = 0 THEN newest ELSE began

(* A caller changes its object while its call is under way.                *)
ReaderChangesOptions ==
    /\ pc["reader"] # "idle"
    /\ \E f \in Filters : options' = [options EXCEPT !["reader"].filter = f]
    /\ UNCHANGED <<honest, newest, known, bindings, pc, asked, pages, seen, walk,
                   began>>

(* The call is over, and its options are gone; those of the walk's next    *)
(* call are left to Collect.                                               *)
CallEnds(c) ==
    /\ pc' = [pc EXCEPT ![c] = "idle"]
    /\ asked' = [asked EXCEPT ![c] = Rest]

ReaderForgets == options' = [options EXCEPT !["reader"] = Rest]

(* The walk ends with whatever its call threw.                             *)
CallFails(c) ==
    /\ CallEnds(c)
    /\ options' = [options EXCEPT ![c] = Rest]
    /\ walk' = IF c = "walker" THEN "threw" ELSE walk

(* #requireCapability resolves: the cursor must not be bound to another    *)
(* filter.                                                                 *)
Bound(c) ==
    /\ asked[c].cursor # End
    /\ bindings[asked[c].cursor] \notin {Unbound, asked[c].filter}

IdentityKnown(c) ==
    /\ pc[c] = "identity"
    /\ known
    /\ \/ Bound(c) /\ CallFails(c)
       \/ /\ ~Bound(c)
          /\ pc' = [pc EXCEPT ![c] = "credential"]
          /\ UNCHANGED <<options, asked, walk>>
    /\ UNCHANGED <<honest, newest, known, bindings, pages, seen, began>>

(* The credential is loaded and the request dispatched.                    *)
Dispatch(c) ==
    /\ pc[c] = "credential"
    /\ pc' = [pc EXCEPT ![c] = "sent"]
    /\ UNCHANGED <<honest, newest, known, bindings, options, asked, pages, seen,
                   walk, began>>

(* Anything else a call may end with: no capability or credential, the     *)
(* network, an error of the Hub, a page that fails a check of its vehicle, *)
(* limit, bounds or order, an abort; and for the reader also "not          *)
(* modified", which changes as little.                                     *)
Fails(c) ==
    /\ pc[c] # "idle"
    /\ CallFails(c)
    /\ UNCHANGED <<honest, newest, known, bindings, pages, seen, began>>

-----------------------------------------------------------------------------
(* The Hub's answers.                                                      *)
Top(o)      == IF o.cursor = End THEN newest ELSE o.cursor.below - 1
Least(a, b) == IF a < b THEN a ELSE b

HonestPage(o) ==
    LET n    == Least(Limit, Top(o))
        last == Top(o) - n + 1
    IN [keys |-> [i \in 1 .. n |-> Top(o) - i + 1],
        next |-> IF last = 1 THEN End ELSE [filter |-> o.filter, below |-> last]]

(* An honest Hub answers no cursor of another filter.  Of the pages of any *)
(* other Hub the keys do not matter, so one stands for all.                *)
Answers(o) ==
    IF honest
    THEN IF o.cursor = End \/ o.cursor.filter = o.filter THEN {HonestPage(o)} ELSE {}
    ELSE [keys : {<<1>>}, next : Cursors \cup {End}]

(* The binding is made of the caller's object as it is now.                *)
BadBind(c, page) ==
    bindings' = IF page.next = End THEN bindings
                ELSE [bindings EXCEPT ![page.next] = options[c].filter]

(* The cursor of a page is bound to the filter of its call.                *)
Bind(c, page) ==
    bindings' = IF page.next = End THEN bindings
                ELSE [bindings EXCEPT ![page.next] = asked[c].filter]

ReaderAnswered ==
    /\ pc["reader"] = "sent"
    /\ \E page \in Answers(asked["reader"]) : Bind("reader", page)
    /\ CallEnds("reader")
    /\ ReaderForgets
    /\ UNCHANGED <<honest, newest, known, pages, seen, walk, began>>

(* A page takes the place of the one before.                               *)
BadCollectLast(page) ==
    /\ pages' = <<page.keys>>
    /\ \/ page.next = End /\ walk' = "returned" /\ UNCHANGED <<seen, options>>
       \/ page.next \in seen /\ walk' = "threw" /\ UNCHANGED <<seen, options>>
       \/ /\ page.next # End /\ page.next \notin seen
          /\ seen' = seen \cup {page.next}
          /\ options' = [options EXCEPT !["walker"].cursor = page.next]
          /\ UNCHANGED walk

(* A cursor that cannot be followed ends the walk as its last page does.   *)
BadCollectQuietly(page) ==
    /\ pages' = Append(pages, page.keys)
    /\ \/ /\ page.next = End \/ page.next \in seen \/ Len(pages') >= MaxPages
          /\ walk' = "returned"
          /\ UNCHANGED <<seen, options>>
       \/ /\ page.next # End /\ page.next \notin seen /\ Len(pages') < MaxPages
          /\ seen' = seen \cup {page.next}
          /\ options' = [options EXCEPT !["walker"].cursor = page.next]
          /\ UNCHANGED walk

(* collectDrivePages takes a page.                                         *)
Collect(page) ==
    /\ pages' = Append(pages, page.keys)
    /\ \/ page.next = End /\ walk' = "returned" /\ UNCHANGED <<seen, options>>
       \/ /\ page.next # End /\ (page.next \in seen \/ Len(pages') >= MaxPages)
          /\ walk' = "threw"
          /\ UNCHANGED <<seen, options>>
       \/ /\ page.next # End /\ page.next \notin seen /\ Len(pages') < MaxPages
          /\ seen' = seen \cup {page.next}
          /\ options' = [options EXCEPT !["walker"].cursor = page.next]
          /\ UNCHANGED walk

WalkerAnswered ==
    /\ pc["walker"] = "sent"
    /\ \E page \in Answers(asked["walker"]) : Bind("walker", page) /\ Collect(page)
    /\ CallEnds("walker")
    /\ UNCHANGED <<honest, newest, known, began>>

-----------------------------------------------------------------------------
(* A discovery of this session succeeds, or fails and takes the identity   *)
(* with it; both forget the bindings.                                      *)
Discovery ==
    /\ known' \in BOOLEAN
    /\ bindings' = NoBindings
    /\ UNCHANGED <<honest, newest, pc, options, asked, pages, seen, walk, began>>

(* logout(): what is under way is aborted.                                 *)
Logout ==
    /\ known' = FALSE
    /\ bindings' = NoBindings
    /\ pc' = [c \in Callers |-> "idle"]
    /\ options' = [c \in Callers |-> IF pc[c] = "idle" THEN options[c] ELSE Rest]
    /\ asked' = [c \in Callers |-> Rest]
    /\ walk' = IF pc["walker"] = "idle" THEN walk ELSE "threw"
    /\ UNCHANGED <<honest, newest, pages, seen, began>>

(* The car has driven.                                                     *)
DriveAdded ==
    /\ honest
    /\ newest < MaxDrives
    /\ newest' = newest + 1
    /\ UNCHANGED <<honest, known, bindings, pc, options, asked, pages, seen, walk,
                   began>>

Next ==
    \/ ReaderAsks \/ WalkerAsks \/ ReaderChangesOptions
    \/ \E c \in Callers : IdentityKnown(c) \/ Dispatch(c) \/ Fails(c)
    \/ ReaderAnswered \/ WalkerAnswered
    \/ Discovery \/ Logout \/ DriveAdded

Spec == Init /\ [][Next]_vars

-----------------------------------------------------------------------------
(* docs/api.md:36: "cursors are bound to the vehicle and millisecond       *)
(* filter set": what the client holds against a cursor is the filter the   *)
(* Hub made it for, whichever calls were answered in which order and       *)
(* whatever became of their options meanwhile (client.ts:364-376, 442).    *)
BindingsAreTrue ==
    honest => \A c \in Cursors : bindings[c] \in {Unbound, c.filter}

LastOf(keys) == keys[Len(keys)]

(* A walk that returns has every drive there was when it began, once and   *)
(* in order: its first page is not older than the newest drive of that     *)
(* moment, each page goes on where the one before it ended, and the last   *)
(* ends with the oldest; even if drives were added, bindings were          *)
(* forgotten or a discovery failed on the way (drive-pagination.mjs:1-23). *)
WalkIsComplete ==
    honest /\ walk = "returned" =>
        /\ began \in 1 .. pages[1][1]
        /\ \A p \in DOMAIN pages : \A i \in 1 .. Len(pages[p]) - 1 :
              pages[p][i + 1] = pages[p][i] - 1
        /\ \A p \in 1 .. Len(pages) - 1 : pages[p + 1][1] = LastOf(pages[p]) - 1
        /\ LastOf(LastOf(pages)) = 1

(* Whatever cursors the Hub hands out, the walk takes no more pages than   *)
(* it was allowed (drive-pagination.mjs:14-19).                            *)
WalkIsBounded == Len(pages) <= MaxPages
=============================================================================
