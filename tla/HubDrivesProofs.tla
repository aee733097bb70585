---------------------------- MODULE HubDrivesProofs ---------------------------
(***************************************************************************)
(* Proofs about HubDrives, for any filters, any limit, any number of       *)
(* drives and pages: bindings are true, a walk that returns is complete,   *)
(* and no walk is longer than it may be.                                   *)
(***************************************************************************)
EXTENDS HubDrives, TLAPS

(* What a page is, whoever answers it.                                     *)
IsPage(page) ==
    /\ page.keys \in Seq(Keys)
    /\ page.next \in Cursors \cup {End}

(* What the page of an honest Hub is in addition: it begins where it was   *)
(* asked to, skips nothing, and its cursor stands for what is behind it.   *)
IsHonestPage(o, page) ==
    /\ Len(page.keys) > 0
    /\ page.keys[1] = Top(o)
    /\ \A i \in 1 .. Len(page.keys) - 1 : page.keys[i + 1] = page.keys[i] - 1
    /\ page.next = IF LastOf(page.keys) = 1 THEN End
                   ELSE [filter |-> o.filter, below |-> LastOf(page.keys)]

LEMMA TopIsKey ==
    ASSUME newest \in Keys, NEW o \in Options PROVE Top(o) \in Keys
<1> USE DrivesAssumption
<1>1. CASE o.cursor = End
  BY <1>1 DEF Top
<1>2. CASE o.cursor # End
  <2>1. o.cursor.below \in 2 .. MaxDrives
    BY <1>2 DEF Options, Cursors
  <2> QED
    BY <1>2, <2>1 DEF Top, Keys
<1> QED
  BY <1>1, <1>2

LEMMA HonestPageIsHonest ==
    ASSUME newest \in Keys, NEW o \in Options
    PROVE  IsPage(HonestPage(o)) /\ IsHonestPage(o, HonestPage(o))
<1> DEFINE n == Least(Limit, Top(o))
<1> DEFINE page == HonestPage(o)
<1>1. Top(o) \in Keys
  BY TopIsKey
<1>2. n \in 1 .. Top(o)
  BY <1>1, DrivesAssumption DEF Keys, Least
<1>3. /\ page.keys = [i \in 1 .. n |-> Top(o) - i + 1]
      /\ page.next = IF Top(o) - n + 1 = 1 THEN End
                     ELSE [filter |-> o.filter, below |-> Top(o) - n + 1]
  BY DEF HonestPage
<1> HIDE DEF n, page
<1>4. page.keys \in Seq(Keys) /\ Len(page.keys) = n
  <2>1. \A i \in 1 .. n : Top(o) - i + 1 \in Keys
    BY <1>1, <1>2, DrivesAssumption DEF Keys
  <2>2. page.keys \in [1 .. n -> Keys]
    BY <1>3, <2>1
  <2>3. n \in Nat
    BY <1>1, <1>2 DEF Keys
  <2> QED
    BY <2>2, <2>3
<1>5. LastOf(page.keys) = Top(o) - n + 1
  BY <1>1, <1>2, <1>3, <1>4 DEF LastOf, Keys
<1>6. page.next \in Cursors \cup {End}
  <2>1. o.filter \in Filters
    BY DEF Options
  <2> QED
    BY <1>1, <1>2, <1>3, <2>1, DrivesAssumption DEF Keys, Cursors
<1>7. page.keys[1] = Top(o)
  BY <1>1, <1>2, <1>3 DEF Keys
<1>8. \A i \in 1 .. Len(page.keys) - 1 : page.keys[i + 1] = page.keys[i] - 1
  BY <1>1, <1>2, <1>3, <1>4 DEF Keys
<1> QED
  BY <1>2, <1>3, <1>4, <1>5, <1>6, <1>7, <1>8 DEF IsPage, IsHonestPage, page

LEMMA AnswerIsPage ==
    ASSUME newest \in Keys, NEW o \in Options, NEW page \in Answers(o)
    PROVE  /\ IsPage(page)
           /\ honest => IsHonestPage(o, page)
<1>1. CASE honest
  <2>1. page = HonestPage(o)
    BY <1>1 DEF Answers
  <2> QED
    BY <1>1, <2>1, HonestPageIsHonest
<1>2. CASE ~honest
  <2>1. page.keys = <<1>> /\ page.next \in Cursors \cup {End}
    BY <1>2 DEF Answers
  <2>2. 1 \in Keys
    BY DrivesAssumption DEF Keys
  <2> QED
    BY <1>2, <2>1, <2>2 DEF IsPage
<1> QED
  BY <1>1, <1>2

-----------------------------------------------------------------------------
(* The invariant.                                                          *)
Flags == honest \in BOOLEAN /\ known \in BOOLEAN

Data ==
    /\ newest \in Keys
    /\ bindings \in [Cursors -> Filters \cup {Unbound}]
    /\ pc \in [Callers -> {"idle", "identity", "credential", "sent"}]
    /\ options \in [Callers -> Options]
    /\ asked \in [Callers -> Options]
    /\ pages \in Seq(Seq(Keys))
    /\ seen \subseteq Cursors
    /\ walk \in {"running", "returned", "threw"}

(* A walk that goes on has a page left, and nobody touches its options.    *)
WalkOrder ==
    /\ walk = "running" => Len(pages) < MaxPages
    /\ Len(pages) <= MaxPages
    /\ pc["walker"] # "idle" => walk = "running" /\ asked["walker"] = options["walker"]
    /\ options["walker"].filter = WalkFilter

(* No page skips a drive, nor does the step from one page to the next; the *)
(* walk goes on where its last page ended.                                 *)
Unbroken ==
    /\ \A p \in DOMAIN pages :
          /\ Len(pages[p]) > 0
          /\ \A i \in 1 .. Len(pages[p]) - 1 : pages[p][i + 1] = pages[p][i] - 1
    /\ \A p \in 1 .. Len(pages) - 1 : pages[p + 1][1] = LastOf(pages[p]) - 1

Continued ==
    walk = "running" =>
        \/ pages = <<>> /\ options["walker"].cursor = End
        \/ /\ pages # <<>> /\ options["walker"].cursor # End
           /\ options["walker"].cursor.below = LastOf(LastOf(pages))

AtTheEnd == walk = "returned" => LastOf(LastOf(pages)) = 1

Position == honest => Unbroken /\ Continued /\ AtTheEnd

(* The first page begins with the newest drive of a moment after the walk  *)
(* began.                                                                  *)
Beginning ==
    /\ began \in 0 .. newest
    /\ pc["walker"] # "idle" \/ pages # <<>> => began > 0
    /\ honest /\ pages # <<>> => pages[1][1] >= began
    /\ walk = "returned" => pages # <<>>

IInv == Flags /\ Data /\ BindingsAreTrue /\ WalkOrder /\ Position /\ Beginning

LEMMA RestIsOption == Rest \in Options /\ Rest.filter = WalkFilter /\ Rest.cursor = End
BY DrivesAssumption DEF Rest, FirstPage, Options

LEMMA InitInv == Init => IInv
<1> SUFFICES ASSUME Init PROVE IInv
  OBVIOUS
<1> USE DrivesAssumption DEF Init
<1>1. Flags
  BY DEF Flags
<1>2. Data
  BY RestIsOption DEF Data, Keys, NoBindings, Callers
<1>3. BindingsAreTrue
  BY DEF BindingsAreTrue, NoBindings
<1>4. WalkOrder
  BY RestIsOption DEF WalkOrder, Callers
<1>5. Position
  BY RestIsOption DEF Position, Unbroken, Continued, AtTheEnd, Callers
<1>6. Beginning
  BY DEF Beginning, Keys, Callers
<1> QED
  BY <1>1, <1>2, <1>3, <1>4, <1>5, <1>6 DEF IInv

-----------------------------------------------------------------------------
(* Steps that take no page change of the walk at most that it has thrown.  *)
LEMMA NoPageTaken ==
    ASSUME IInv, Data',
           UNCHANGED <<honest, pages>>,
           walk' = walk \/ walk' = "threw",
           walk' = "running" => options'["walker"] = options["walker"],
           options'["walker"].filter = WalkFilter,
           pc'["walker"] # "idle" =>
               walk' = "running" /\ asked'["walker"] = options'["walker"]
    PROVE  WalkOrder' /\ Position'
<1>1. WalkOrder'
  BY DEF IInv, WalkOrder
<1>2. Position'
  BY DEF IInv, Position, Unbroken, Continued, AtTheEnd
<1> QED
  BY <1>1, <1>2

LEMMA BeginningStays ==
    ASSUME IInv, newest' \in Nat, newest' >= newest,
           UNCHANGED <<honest, pages, began>>,
           walk' = walk \/ walk' = "threw",
           pc'["walker"] # "idle" => pc["walker"] # "idle"
    PROVE  Beginning'
BY DEF IInv, Data, Keys, Beginning

(* A cursor is bound to the filter it was made for.                        *)
LEMMA BindIsTrue ==
    ASSUME IInv, NEW c \in Callers, NEW page \in Answers(asked[c]), Bind(c, page),
           UNCHANGED honest
    PROVE  /\ bindings' \in [Cursors -> Filters \cup {Unbound}]
           /\ BindingsAreTrue'
<1> USE DEF IInv, Data
<1>1. asked[c] \in Options /\ asked[c].filter \in Filters
  BY DEF Options
<1>2. IsPage(page) /\ (honest => IsHonestPage(asked[c], page))
  BY <1>1, AnswerIsPage
<1>3. bindings' \in [Cursors -> Filters \cup {Unbound}]
  BY <1>1 DEF Bind
<1>4. CASE page.next = End
  BY <1>3, <1>4 DEF Bind, BindingsAreTrue
<1>5. CASE page.next # End
  <2>1. honest => page.next.filter = asked[c].filter
    BY <1>2, <1>5 DEF IsHonestPage
  <2>2. bindings' = [bindings EXCEPT ![page.next] = asked[c].filter]
    BY <1>5 DEF Bind
  <2> QED
    BY <1>3, <2>1, <2>2 DEF BindingsAreTrue
<1> QED
  BY <1>3, <1>4, <1>5

(* A page is put behind the others.                                        *)
LEMMA WalkIsContinued ==
    ASSUME IInv, pc["walker"] = "sent", NEW page \in Answers(asked["walker"]),
           Collect(page), UNCHANGED honest
    PROVE  /\ pages' \in Seq(Seq(Keys))
           /\ seen' \subseteq Cursors
           /\ walk' \in {"running", "returned", "threw"}
           /\ options' \in [Callers -> Options]
           /\ options'["walker"].filter = WalkFilter
           /\ Len(pages') <= MaxPages
           /\ walk' = "running" => Len(pages') < MaxPages
           /\ Position'
           /\ pages' # <<>>
           /\ honest => pages'[1][1] >= began
<1> USE DrivesAssumption DEF IInv, Data
<1> DEFINE o == asked["walker"]
<1>1. /\ "walker" \in Callers
      /\ o \in Options
      /\ o = options["walker"]
      /\ o.filter = WalkFilter
      /\ walk = "running"
      /\ Len(pages) < MaxPages
  BY DEF Callers, WalkOrder
<1>2. IsPage(page) /\ (honest => IsHonestPage(o, page))
  BY <1>1, AnswerIsPage
<1>3. pages' = Append(pages, page.keys)
  BY DEF Collect
<1>4. /\ pages' \in Seq(Seq(Keys))
      /\ Len(pages') = Len(pages) + 1
      /\ pages'[Len(pages')] = page.keys
      /\ \A p \in 1 .. Len(pages) : pages'[p] = pages[p]
  BY <1>2, <1>3 DEF IsPage
<1>5. /\ seen' \subseteq Cursors
      /\ walk' \in {"running", "returned", "threw"}
  BY <1>1, <1>2 DEF Collect, IsPage
<1>6. /\ options' \in [Callers -> Options]
      /\ options'["walker"].filter = WalkFilter
  <2>1. CASE UNCHANGED options
    BY <1>1, <2>1
  <2>2. CASE /\ page.next # End
             /\ options' = [options EXCEPT !["walker"].cursor = page.next]
    <3>1. page.next \in Cursors
      BY <1>2, <2>2 DEF IsPage
    <3> QED
      BY <1>1, <2>2, <3>1 DEF Options
  <2> QED
    BY <2>1, <2>2 DEF Collect
<1>7. /\ Len(pages') <= MaxPages
      /\ walk' = "running" => Len(pages') < MaxPages
  BY <1>1, <1>3, <1>4 DEF Collect
<1>8. Position'
  <2> SUFFICES ASSUME honest PROVE (Unbroken /\ Continued /\ AtTheEnd)'
    BY DEF Position
  <2>1. IsHonestPage(o, page)
    BY <1>2
  <2>2. Unbroken /\ Continued
    BY DEF Position
  <2>3. ASSUME NEW p \in 1 .. Len(pages') - 1
        PROVE  pages'[p + 1][1] = LastOf(pages'[p]) - 1
    <3>1. CASE pages = <<>>
      BY <1>4, <3>1
    <3>2. CASE pages # <<>>
      <4>1. Top(o) = LastOf(LastOf(pages)) - 1
        BY <1>1, <2>2, <3>2 DEF Continued, Top
      <4>2. CASE p < Len(pages)
        <5>1. p \in 1 .. Len(pages) - 1 /\ p + 1 \in 1 .. Len(pages)
          BY <1>4, <4>2
        <5>2. pages'[p] = pages[p] /\ pages'[p + 1] = pages[p + 1]
          BY <1>4, <5>1
        <5> QED
          BY <2>2, <5>1, <5>2 DEF Unbroken
      <4>3. CASE p = Len(pages)
        <5>1. pages'[p] = LastOf(pages) /\ pages'[p + 1] = page.keys
          BY <1>4, <3>2, <4>3 DEF LastOf
        <5> QED
          BY <2>1, <4>1, <5>1 DEF IsHonestPage
      <4> QED
        BY <1>4, <4>2, <4>3
    <3> QED
      BY <3>1, <3>2
  <2>4. ASSUME NEW p \in DOMAIN pages'
        PROVE  /\ Len(pages'[p]) > 0
               /\ \A i \in 1 .. Len(pages'[p]) - 1 :
                     pages'[p][i + 1] = pages'[p][i] - 1
    <3>1. CASE p \in 1 .. Len(pages)
      <4>1. pages'[p] = pages[p] /\ p \in DOMAIN pages
        BY <1>4, <3>1
      <4> QED
        BY <2>2, <4>1 DEF Unbroken
    <3>2. CASE p = Len(pages')
      BY <1>4, <2>1, <3>2 DEF IsHonestPage
    <3> QED
      BY <1>4, <3>1, <3>2
  <2>5. LastOf(LastOf(pages')) = LastOf(page.keys) /\ pages' # <<>>
    BY <1>4 DEF LastOf
  <2>6. Continued'
    <3> SUFFICES ASSUME walk' = "running" PROVE Continued'
      BY DEF Continued
    <3>1. /\ page.next # End
          /\ options' = [options EXCEPT !["walker"].cursor = page.next]
      BY <1>1 DEF Collect
    <3>2. options'["walker"].cursor = page.next
      BY <1>1, <3>1 DEF Options
    <3>3. page.next.below = LastOf(page.keys)
      BY <2>1, <3>1 DEF IsHonestPage
    <3> QED
      BY <2>5, <3>1, <3>2, <3>3 DEF Continued
  <2>7. AtTheEnd'
    <3> SUFFICES ASSUME walk' = "returned" PROVE AtTheEnd'
      BY DEF AtTheEnd
    <3>1. page.next = End
      BY <1>1 DEF Collect
    <3>2. LastOf(page.keys) = 1
      BY <2>1, <3>1 DEF IsHonestPage, End
    <3> QED
      BY <2>5, <3>2 DEF AtTheEnd
  <2> QED
    BY <2>3, <2>4, <2>6, <2>7 DEF Unbroken
<1>9. pages' # <<>>
  BY <1>4
<1>10. ASSUME honest PROVE pages'[1][1] >= began
  <2>1. CASE pages = <<>>
    <3>1. o.cursor = End
      BY <1>1, <1>10, <2>1 DEF Position, Continued
    <3>2. pages'[1][1] = newest
      BY <1>2, <1>4, <1>10, <2>1, <3>1 DEF IsHonestPage, Top
    <3> QED
      BY <3>2 DEF Beginning, Keys
  <2>2. CASE pages # <<>>
    <3>1. pages'[1] = pages[1]
      BY <1>4, <2>2
    <3> QED
      BY <1>10, <2>2, <3>1 DEF Beginning
  <2> QED
    BY <2>1, <2>2
<1> QED
  BY <1>4, <1>5, <1>6, <1>7, <1>8, <1>9, <1>10

-----------------------------------------------------------------------------
(* How a call ends that brings no page.                                    *)
LEMMA FailedCall ==
    ASSUME IInv, NEW c \in Callers, pc[c] # "idle", CallFails(c),
           UNCHANGED <<honest, newest, known, bindings, pages, seen, began>>
    PROVE  IInv'
<1> USE RestIsOption DEF IInv, CallFails, CallEnds, Callers
<1>1. Flags'
  BY DEF Flags
<1>2. Data'
  BY DEF Data
<1>3. BindingsAreTrue'
  BY DEF BindingsAreTrue
<1>4. WalkOrder' /\ Position'
  <2>1. CASE c = "walker"
    BY <1>2, <2>1, NoPageTaken DEF Data
  <2>2. CASE c = "reader"
    BY <1>2, <2>2, NoPageTaken DEF Data, WalkOrder
  <2> QED
    BY <2>1, <2>2
<1>5. Beginning'
  BY BeginningStays DEF Data, Keys
<1> QED
  BY <1>1, <1>2, <1>3, <1>4, <1>5

LEMMA AskInv ==
    ASSUME IInv, NEW c \in Callers, NEW o \in Options, Ask(c, o),
           c = "walker" => walk = "running" /\ o = options["walker"],
           began' = IF c = "walker" /\ began = 0 THEN newest ELSE began
    PROVE  IInv'
<1> USE DEF IInv, Ask, Callers
<1>1. Flags'
  BY DEF Flags
<1>2. Data'
  BY DEF Data
<1>3. BindingsAreTrue'
  BY DEF BindingsAreTrue
<1>4. WalkOrder' /\ Position'
  BY <1>2, NoPageTaken DEF Data, WalkOrder
<1>5. Beginning'
  <2>1. newest \in Nat \ {0}
    BY DEF Data, Keys
  <2>2. CASE c = "walker"
    BY <2>1, <2>2 DEF Data, Beginning
  <2>3. CASE c = "reader"
    BY <2>1, <2>3, BeginningStays DEF Data
  <2> QED
    BY <2>2, <2>3
<1> QED
  BY <1>1, <1>2, <1>3, <1>4, <1>5

LEMMA NextInv == IInv /\ [Next]_vars => IInv'
<1> SUFFICES ASSUME IInv, [Next]_vars PROVE IInv'
  OBVIOUS
<1>1. CASE ReaderAsks
  BY <1>1, AskInv DEF ReaderAsks, Callers
<1>2. CASE WalkerAsks
  BY <1>2, AskInv DEF WalkerAsks, Callers, IInv, Data
<1>3. CASE ReaderChangesOptions
  <2> USE <1>3 DEF IInv, ReaderChangesOptions, Callers
  <2>1. Flags' /\ BindingsAreTrue'
    BY DEF Flags, BindingsAreTrue
  <2>2. Data'
    BY DEF Data, Options
  <2>3. WalkOrder' /\ Position'
    BY <2>2, NoPageTaken DEF Data, WalkOrder
  <2>4. Beginning'
    BY BeginningStays DEF Data, Keys
  <2> QED
    BY <2>1, <2>2, <2>3, <2>4
<1>4. ASSUME NEW c \in Callers, IdentityKnown(c) PROVE IInv'
  <2>1. CASE CallFails(c)
    BY <1>4, <2>1, FailedCall DEF IdentityKnown
  <2>2. CASE /\ pc' = [pc EXCEPT ![c] = "credential"]
             /\ UNCHANGED <<options, asked, walk>>
    <3> USE <1>4, <2>2 DEF IInv, IdentityKnown
    <3>1. Flags' /\ BindingsAreTrue'
      BY DEF Flags, BindingsAreTrue
    <3>2. Data'
      BY DEF Data
    <3>3. WalkOrder' /\ Position'
      BY <3>2, NoPageTaken DEF Data, WalkOrder, Callers
    <3>4. Beginning'
      BY BeginningStays DEF Data, Keys
    <3> QED
      BY <3>1, <3>2, <3>3, <3>4
  <2> QED
    BY <1>4, <2>1, <2>2 DEF IdentityKnown
<1>5. ASSUME NEW c \in Callers, Dispatch(c) PROVE IInv'
  <2> USE <1>5 DEF IInv, Dispatch
  <2>1. Flags' /\ BindingsAreTrue'
    BY DEF Flags, BindingsAreTrue
  <2>2. Data'
    BY DEF Data
  <2>3. WalkOrder' /\ Position'
    BY <2>2, NoPageTaken DEF Data, WalkOrder, Callers
  <2>4. Beginning'
    BY BeginningStays DEF Data, Keys
  <2> QED
    BY <2>1, <2>2, <2>3, <2>4
<1>6. ASSUME NEW c \in Callers, Fails(c) PROVE IInv'
  BY <1>6, FailedCall DEF Fails
<1>7. CASE ReaderAnswered
  <2> USE <1>7 DEF IInv, ReaderAnswered, CallEnds, ReaderForgets, Callers
  <2>1. PICK page \in Answers(asked["reader"]) : Bind("reader", page)
    OBVIOUS
  <2>2. Flags'
    BY DEF Flags
  <2>3. BindingsAreTrue' /\ bindings' \in [Cursors -> Filters \cup {Unbound}]
    BY <2>1, BindIsTrue
  <2>4. Data'
    BY <2>3, RestIsOption DEF Data
  <2>5. WalkOrder' /\ Position'
    BY <2>4, NoPageTaken DEF Data, WalkOrder
  <2>6. Beginning'
    BY BeginningStays DEF Data, Keys
  <2> QED
    BY <2>2, <2>3, <2>4, <2>5, <2>6
<1>8. CASE WalkerAnswered
  <2> USE <1>8 DEF IInv, WalkerAnswered, CallEnds, Callers
  <2>1. PICK page \in Answers(asked["walker"]) : Bind("walker", page) /\ Collect(page)
    OBVIOUS
  <2>2. Flags'
    BY DEF Flags
  <2>3. BindingsAreTrue' /\ bindings' \in [Cursors -> Filters \cup {Unbound}]
    BY <2>1, BindIsTrue
  <2>4. /\ pages' \in Seq(Seq(Keys))
        /\ seen' \subseteq Cursors
        /\ walk' \in {"running", "returned", "threw"}
        /\ options' \in [Callers -> Options]
        /\ options'["walker"].filter = WalkFilter
        /\ Len(pages') <= MaxPages
        /\ walk' = "running" => Len(pages') < MaxPages
        /\ Position'
        /\ pages' # <<>>
        /\ honest => pages'[1][1] >= began
    BY <2>1, WalkIsContinued
  <2>5. Data'
    BY <2>3, <2>4, RestIsOption DEF Data
  <2>6. WalkOrder'
    BY <2>4 DEF WalkOrder, Data
  <2>7. Beginning'
    BY <2>4 DEF Beginning
  <2> QED
    BY <2>2, <2>3, <2>4, <2>5, <2>6, <2>7
<1>9. CASE Discovery
  <2> USE <1>9 DEF IInv, Discovery
  <2>1. Flags'
    BY DEF Flags
  <2>2. BindingsAreTrue'
    BY DEF BindingsAreTrue, NoBindings
  <2>3. Data'
    BY DEF Data, NoBindings
  <2>4. WalkOrder' /\ Position'
    BY <2>3, NoPageTaken DEF Data, WalkOrder
  <2>5. Beginning'
    BY BeginningStays DEF Data, Keys
  <2> QED
    BY <2>1, <2>2, <2>3, <2>4, <2>5
<1>10. CASE Logout
  <2> USE <1>10, RestIsOption DEF IInv, Logout, Callers
  <2>1. Flags'
    BY DEF Flags
  <2>2. BindingsAreTrue'
    BY DEF BindingsAreTrue, NoBindings
  <2>3. Data'
    BY DEF Data, NoBindings
  <2>4. WalkOrder' /\ Position'
    BY <2>3, NoPageTaken DEF Data, WalkOrder
  <2>5. Beginning'
    BY BeginningStays DEF Data, Keys
  <2> QED
    BY <2>1, <2>2, <2>3, <2>4, <2>5
<1>11. CASE DriveAdded
  <2> USE <1>11 DEF IInv, DriveAdded
  <2>1. Flags' /\ BindingsAreTrue'
    BY DEF Flags, BindingsAreTrue
  <2>2. Data'
    BY DrivesAssumption DEF Data, Keys
  <2>3. WalkOrder' /\ Position'
    BY <2>2, NoPageTaken DEF Data, WalkOrder
  <2>4. Beginning'
    BY BeginningStays DEF Data, Keys
  <2> QED
    BY <2>1, <2>2, <2>3, <2>4
<1>12. CASE UNCHANGED vars
  BY <1>12 DEF vars, IInv, Flags, Data, BindingsAreTrue, WalkOrder, Position,
     Unbroken, Continued, AtTheEnd, Beginning
<1> QED
  BY <1>1, <1>2, <1>4, <1>5, <1>6, <1>3, <1>7, <1>8, <1>9, <1>10, <1>11, <1>12 DEF Next

LEMMA InvHolds == Spec => []IInv
  BY InitInv, NextInv, PTL DEF Spec

-----------------------------------------------------------------------------
(* Every variable keeps its type.                                          *)
THEOREM TypeCorrect == Spec => []DrivesTypeOK
<1>1. IInv => DrivesTypeOK
  <2> SUFFICES ASSUME IInv PROVE DrivesTypeOK
    OBVIOUS
  <2>1. honest \in BOOLEAN /\ known \in BOOLEAN
    BY DEF IInv, Flags
  <2>2. began \in Keys \cup {0}
    BY DrivesAssumption DEF IInv, Data, Beginning, Keys
  <2> QED
    BY <2>1, <2>2 DEF IInv, Data, DrivesTypeOK
<1> QED
  BY <1>1, InvHolds, PTL

(* A cursor of an honest Hub is never held to belong to another filter     *)
(* (src/src/hub/client.ts:364-376, 442).                                   *)
THEOREM CursorsAreBoundTruly == Spec => []BindingsAreTrue
<1>1. IInv => BindingsAreTrue
  BY DEF IInv
<1> QED
  BY <1>1, InvHolds, PTL

(* A walk that returns misses no drive there was when it began, and has    *)
(* none twice (src/scripts/drive-pagination.mjs:1-23).                     *)
THEOREM ReturnedWalksAreComplete == Spec => []WalkIsComplete
<1>1. IInv => WalkIsComplete
  <2> SUFFICES ASSUME IInv, honest, walk = "returned" PROVE WalkIsComplete
    BY DEF WalkIsComplete
  <2>1. pages # <<>> /\ pages \in Seq(Seq(Keys))
    BY DEF IInv, Data, Beginning
  <2>2. pages[1][1] \in Int
    <3>1. pages[1] \in Seq(Keys) /\ Len(pages[1]) > 0
      BY <2>1 DEF IInv, Position, Unbroken
    <3>2. pages[1][1] \in Keys
      BY <3>1
    <3> QED
      BY <3>2, DrivesAssumption DEF Keys
  <2>3. began \in Nat \ {0} /\ pages[1][1] >= began
    BY <2>1 DEF IInv, Data, Beginning, Keys
  <2>4. began \in 1 .. pages[1][1]
    BY <2>2, <2>3
  <2> QED
    BY <2>4 DEF IInv, WalkIsComplete, Position, Unbroken, AtTheEnd
<1> QED
  BY <1>1, InvHolds, PTL

(* The walk takes no page too many, whatever the Hub answers               *)
(* (src/scripts/drive-pagination.mjs:14-19).                               *)
THEOREM WalksAreBounded == Spec => []WalkIsBounded
<1>1. IInv => WalkIsBounded
  BY DEF IInv, WalkOrder, WalkIsBounded
<1> QED
  BY <1>1, InvHolds, PTL
=============================================================================
