----------------------------- MODULE PagesProofs ------------------------------
(***************************************************************************)
(* What a user keeps and is shown: the address a project was published at  *)
(* and the verdict the dialog shows of one (Publishing), the one link that *)
(* changes a password (Accounts), the report of the deep check (DeepQc),   *)
(* the builder's answers, spinners and preview (Builder), and the outcome  *)
(* the regeneration panel shows (Regeneration).  For every number of       *)
(* projects, calls in flight, addresses, accounts, links, pages, visits    *)
(* and runs.                                                               *)
(***************************************************************************)
EXTENDS Publishing, Accounts, DeepQc, Builder, Regeneration, FiniteSetTheorems,
        WellFoundedInduction, TLAPS

-----------------------------------------------------------------------------
(* Publishing.                                                             *)

\* Only a project's own address was ever told, a project that was never
\* created has none, and no two projects that exist share one.
Addresses ==
    /\ \A p \in Project : row[p].st = "never" => row[p].slug = None /\ told[p] = {}
    /\ \A p \in Project : Exists(p) => told[p] \subseteq {row[p].slug} \ {None}
    /\ \A p, q \in Project :
          Exists(p) /\ Exists(q) /\ row[p].slug = row[q].slug /\ row[p].slug # None => p = q

\* The call the dialog waits for asks about the address typed in it, and a
\* verdict it shows is about that address.
Checking ==
    /\ dialog.asking # None =>
          /\ call[dialog.asking].at # "idle"
          /\ call[dialog.asking].op = "check"
          /\ call[dialog.asking].slug = dialog.value
    /\ VerdictIsOfValue

\* A check that was answered has its verdict.
Judged ==
    \A c \in ApiCall :
        call[c].at = "answered" /\ call[c].op = "check" => call[c].got \in Verdict

PublishingInv == PublishingTypeOK /\ Addresses /\ Checking /\ Judged

\* The sentinel is no address, no project and no call.
LEMMA NoneIsNothing ==
  /\ None \notin Slug /\ None \notin Project /\ None \notin ApiCall
  /\ None \notin Base /\ Bad \notin Base /\ None # Bad
BY PublishingAssumption DEF Slug, Long

\* Whatever is assigned is an address, and free.
LEMMA WritableIsFree ==
  ASSUME NEW b \in Base \cup Project, NEW s \in Writable(b)
  PROVE  s \in Slug /\ ~Taken(s)
<1>1. Assigned(b) \subseteq 1..Long
  <2>1. MaxTry \in Nat
    BY PublishingAssumption
  <2>2. CASE FreeTries(b) = {}
    BY <2>1, <2>2 DEF Assigned, Short, Long
  <2>3. CASE FreeTries(b) # {}
    <3>1. Assigned(b) \subseteq FreeTries(b)
      BY <2>3 DEF Assigned
    <3>2. FreeTries(b) \subseteq 1..MaxTry
      BY DEF FreeTries
    <3>3. 1..MaxTry \subseteq 1..Long
      BY <2>1 DEF Long
    <3> QED BY <3>1, <3>2, <3>3
  <2> QED BY <2>2, <2>3
<1>2. Long \in 1..Long
  BY PublishingAssumption DEF Long
<1>3. s \in {b} \X (Assigned(b) \cup {Long}) /\ ~Taken(s)
  BY DEF Writable, FirstSlugs
<1> QED BY <1>1, <1>2, <1>3 DEF Slug

\* An answer changes how far a call is, not its question.
LEMMA CallsStayCalls ==
  ASSUME NEW x \in CallState, NEW b \in BOOLEAN, NEW y, y = [x EXCEPT !.at = "answered", !.ok = b]
  PROVE  y \in CallState /\ y.at = "answered" /\ y.op = x.op /\ y.slug = x.slug
BY DEF CallState

\* A call that is not out is a call.
LEMMA NoCallIsCall ==
  NoCall \in CallState
BY DEF NoCall, CallState

\* Nothing has been told, sent or shown at the start.
LEMMA PublishingStarts ==
  PublishingInit => PublishingInv
<1> SUFFICES ASSUME PublishingInit
             PROVE  PublishingInv
  OBVIOUS
<1>1. PublishingTypeOK
  BY NoCallIsCall DEF PublishingInit, PublishingTypeOK, NoPage, NoDialog, Status, PageState, DialogState
<1>2. Addresses
  BY DEF PublishingInit, Addresses, Exists
<1>3. Checking /\ Judged
  BY DEF PublishingInit, Checking, Judged, VerdictIsOfValue, NoDialog, NoCall, Verdict
<1> QED BY <1>1, <1>2, <1>3 DEF PublishingInv

\* A step that gives a project another status, or takes it away with its
\* address, leaves the addresses of the others alone.
LEMMA AddressesKeep ==
  ASSUME PublishingTypeOK, Addresses, UNCHANGED told, row' \in [Project -> [st : Status, slug : Slug \cup {None}]],
         \A p \in Project :
            \/ row'[p] = row[p]
            \/ row'[p].st = "deleted"
            \/ Exists(p) /\ row'[p].slug = row[p].slug /\ row'[p].st # "never"
            \/ row[p].st = "never" /\ row'[p].slug = None
  PROVE  Addresses'
<1>1. \A p \in Project : row'[p].st = "never" => row'[p].slug = None /\ told'[p] = {}
  BY DEF Addresses, PublishingTypeOK, Exists, Status
<1>2. \A p \in Project : (Exists(p))' => told'[p] \subseteq {row'[p].slug} \ {None}
  BY DEF Addresses, PublishingTypeOK, Exists, Status
<1>3. \A p \in Project : (Exists(p))' /\ row'[p].slug # None
                            => Exists(p) /\ row'[p].slug = row[p].slug
  BY DEF Addresses, PublishingTypeOK, Exists, Status
<1>4. \A p, q \in Project :
        (Exists(p))' /\ (Exists(q))' /\ row'[p].slug = row'[q].slug /\ row'[p].slug # None => p = q
  BY <1>3 DEF Addresses
<1> QED BY <1>1, <1>2, <1>4 DEF Addresses

\* A publication gives a project its own address again, or a free one.
LEMMA AddressesPublish ==
  ASSUME PublishingTypeOK, Addresses, NEW c \in ApiCall, PublishRow(c)
  PROVE  Addresses' /\ row' \in [Project -> [st : Status, slug : Slug \cup {None}]]
         /\ told' \in [Project -> SUBSET Slug]
<1>. DEFINE p == call[c].p
<1>1. p \in Project \cup {None} /\ call[c].slug \in Base \cup {Bad, None}
  BY DEF PublishingTypeOK, CallState
<1>2. PICK s \in IF row[p].slug # None THEN {row[p].slug} ELSE Writable(BaseOf(p, call[c].slug)) :
        /\ row' = [row EXCEPT ![p] = [st |-> "published", slug |-> s]]
        /\ told' = [told EXCEPT ![p] = @ \cup {s}]
  BY DEF PublishRow
<1>3. CASE p \notin Project
  <2>1. row' = row /\ told' = told
    BY <1>2, <1>3 DEF PublishingTypeOK
  <2> QED BY <2>1 DEF Addresses, Exists, PublishingTypeOK
<1>4. CASE p \in Project
  <2>1. Exists(p) /\ row[p] \in [st : Status, slug : Slug \cup {None}]
    BY <1>4 DEF PublishRow, PublishingTypeOK
  <2>2. s \in Slug /\ s # None
        /\ (s = row[p].slug \/ (row[p].slug = None /\ ~Taken(s)))
    <3>1. CASE row[p].slug # None
      BY <1>2, <2>1, <3>1, NoneIsNothing
    <3>2. CASE row[p].slug = None
      <4>1. BaseOf(p, call[c].slug) \in Base \cup Project
        BY <1>4 DEF BaseOf
      <4>2. s \in Writable(BaseOf(p, call[c].slug))
        BY <1>2, <3>2
      <4> QED BY <3>2, <4>1, <4>2, WritableIsFree, NoneIsNothing
    <3> QED BY <3>1, <3>2
  <2>3. /\ row' \in [Project -> [st : Status, slug : Slug \cup {None}]]
        /\ told' \in [Project -> SUBSET Slug]
    BY <1>2, <1>4, <2>2 DEF PublishingTypeOK, Status
  <2>4. row'[p].st = "published" /\ row'[p].slug = s /\ told'[p] = told[p] \cup {s}
    BY <1>2, <1>4 DEF PublishingTypeOK
  <2>5. \A q \in Project \ {p} : row'[q] = row[q] /\ told'[q] = told[q]
    BY <1>2, <1>4 DEF PublishingTypeOK
  <2>6. told[p] \subseteq {s}
    BY <1>4, <2>1, <2>2 DEF Addresses
  <2>7. \A q \in Project \ {p} : Exists(q) => row[q].slug # s
    <3>1. CASE s = row[p].slug
      BY <1>4, <2>1, <2>2, <3>1 DEF Addresses
    <3>2. CASE ~Taken(s)
      BY <3>2 DEF Taken, TakenBy
    <3> QED BY <2>2, <3>1, <3>2
  <2>8. \A q \in Project : row'[q].st = "never" => row'[q].slug = None /\ told'[q] = {}
    BY <2>4, <2>5 DEF Addresses
  <2>9. \A q \in Project : (Exists(q))' => told'[q] \subseteq {row'[q].slug} \ {None}
    <3>1. told'[p] \subseteq {row'[p].slug} \ {None}
      BY <2>2, <2>4, <2>6
    <3>2. ASSUME NEW q \in Project \ {p}, (Exists(q))'
          PROVE  told'[q] \subseteq {row'[q].slug} \ {None}
      <4>1. Exists(q)
        BY <2>5, <3>2 DEF Exists
      <4> QED BY <2>5, <4>1 DEF Addresses
    <3> QED BY <3>1, <3>2
  <2>10. \A q, r \in Project :
           (Exists(q))' /\ (Exists(r))' /\ row'[q].slug = row'[r].slug /\ row'[q].slug # None => q = r
    <3>1. \A q \in Project \ {p} : (Exists(q))' => Exists(q) /\ row'[q].slug # s
      BY <2>5, <2>7 DEF Exists
    <3> QED BY <2>4, <2>5, <3>1 DEF Addresses
  <2> QED BY <2>3, <2>8, <2>9, <2>10 DEF Addresses
<1> QED BY <1>3, <1>4

\* Sending a call keeps the types of the calls, and every call that is out.
LEMMA SendKeeps ==
  ASSUME PublishingTypeOK, NEW c \in ApiCall, NEW slug \in Base \cup {Bad, None},
         NEW op \in {"publish", "unpublish", "delete", "check"}, NEW from \in {"none", "page", "dialog"},
         Send(c, op, from, slug)
  PROVE  /\ call' \in [ApiCall -> CallState]
         /\ \A d \in ApiCall : call[d].at # "idle" => call'[d] = call[d]
         /\ call'[c].at = "sent" /\ call'[c].op = op /\ call'[c].slug = slug
BY ZenonT(60) DEF Send, PublishingTypeOK, NoCall, CallState, PageState

\* While the call it waits for is as it was, the dialog is right as it is.
LEMMA CheckingKeeps ==
  ASSUME PublishingTypeOK, Checking, dialog' = dialog,
         \A d \in ApiCall : d = dialog.asking =>
            /\ call'[d].at # "idle"
            /\ call'[d].op = call[d].op /\ call'[d].slug = call[d].slug
  PROVE  Checking'
BY DEF Checking, VerdictIsOfValue, PublishingTypeOK, DialogState

\* A call is answered, whatever that does to the rows: its question stays.
LEMMA AnsweredKeeps ==
  ASSUME PublishingInv, NEW c \in ApiCall, call[c].op # "check", NEW b \in BOOLEAN,
         call' = [call EXCEPT ![c].at = "answered", ![c].ok = b],
         UNCHANGED <<page, dialog>>, Addresses',
         row' \in [Project -> [st : Status, slug : Slug \cup {None}]],
         told' \in [Project -> SUBSET Slug]
  PROVE  PublishingInv'
<1>1. call \in [ApiCall -> CallState]
  BY DEF PublishingInv, PublishingTypeOK
<1>2. /\ call' = [call EXCEPT ![c] = [call[c] EXCEPT !.at = "answered", !.ok = b]]
      /\ \A d \in ApiCall \ {c} : call'[d] = call[d]
      /\ call'[c] = [call[c] EXCEPT !.at = "answered", !.ok = b]
  BY <1>1
<1>3. /\ call'[c] \in CallState
      /\ call'[c].at = "answered" /\ call'[c].op = call[c].op /\ call'[c].slug = call[c].slug
  <2>. DEFINE x == call[c]
              y == call'[c]
  <2>1. x \in CallState /\ y = [x EXCEPT !.at = "answered", !.ok = b]
    BY <1>1, <1>2
  <2>. HIDE DEF x, y
  <2>2. y \in CallState /\ y.at = "answered" /\ y.op = x.op /\ y.slug = x.slug
    BY <2>1, CallsStayCalls
  <2> QED BY <2>2 DEF x, y
<1>4. PublishingTypeOK'
  <2>1. call' \in [ApiCall -> CallState]
    BY <1>1, <1>2, <1>3
  <2> QED BY <2>1 DEF PublishingInv, PublishingTypeOK
<1>5. Checking'
  BY ZenonT(60), <1>2, <1>3, CheckingKeeps, NoneIsNothing DEF Checking, PublishingInv
<1>6. Judged'
  BY <1>2, <1>3 DEF Judged, PublishingInv
<1> QED BY <1>4, <1>5, <1>6 DEF PublishingInv

\* A check is answered with its verdict, and touches no row.
LEMMA JudgedKeeps ==
  ASSUME PublishingInv, NEW c \in ApiCall, NEW b \in BOOLEAN, NEW v \in Verdict,
         call' = [call EXCEPT ![c].at = "answered", ![c].ok = b, ![c].got = v],
         UNCHANGED <<row, page, dialog, told>>
  PROVE  PublishingInv'
<1>1. call \in [ApiCall -> CallState]
  BY DEF PublishingInv, PublishingTypeOK
<1>2. /\ call' = [call EXCEPT ![c] = [call[c] EXCEPT !.at = "answered", !.ok = b, !.got = v]]
      /\ \A d \in ApiCall \ {c} : call'[d] = call[d]
      /\ call'[c] = [call[c] EXCEPT !.at = "answered", !.ok = b, !.got = v]
  BY <1>1
<1>3. /\ call'[c] \in CallState /\ call'[c].op = call[c].op /\ call'[c].slug = call[c].slug
      /\ call'[c].got = v /\ call'[c].at = "answered"
  <2>. DEFINE x == call[c]
              y == call'[c]
  <2>1. x \in CallState /\ y = [x EXCEPT !.at = "answered", !.ok = b, !.got = v]
    BY <1>1, <1>2
  <2>. HIDE DEF x, y
  <2>. DEFINE w == [x EXCEPT !.at = "answered", !.ok = b]
  <2>2. w \in CallState /\ w.at = "answered" /\ w.op = x.op /\ w.slug = x.slug
    BY <2>1, CallsStayCalls
  <2>3. y = [w EXCEPT !.got = v]
    BY <2>1 DEF CallState
  <2>. HIDE DEF w
  <2>4. y \in CallState
    BY <2>2, <2>3 DEF CallState
  <2>5. y.op = w.op /\ y.slug = w.slug /\ y.got = v /\ y.at = w.at
    BY <2>2, <2>3 DEF CallState
  <2> QED BY <2>2, <2>4, <2>5 DEF x, y
<1>4. PublishingTypeOK'
  <2>1. call' \in [ApiCall -> CallState]
    BY <1>1, <1>2, <1>3
  <2> QED BY <2>1 DEF PublishingInv, PublishingTypeOK
<1>5. Checking'
  <2>1. \A d \in ApiCall : d = dialog.asking =>
          call[d].at # "idle" /\ call'[d].at # "idle"
          /\ call'[d].op = call[d].op /\ call'[d].slug = call[d].slug
    <3> SUFFICES ASSUME NEW d \in ApiCall, d = dialog.asking
                 PROVE  call[d].at # "idle" /\ call'[d].at # "idle"
                        /\ call'[d].op = call[d].op /\ call'[d].slug = call[d].slug
      OBVIOUS
    <3>1. call[d].at # "idle"
      BY NoneIsNothing DEF Checking, PublishingInv
    <3>2. CASE d = c
      BY <1>3, <3>1, <3>2
    <3>3. CASE d # c
      BY <1>2, <3>1, <3>3
    <3> QED BY <3>2, <3>3
  <2>2. PublishingTypeOK /\ Checking /\ dialog' = dialog
    BY DEF PublishingInv
  <2> QED BY <2>1, <2>2, CheckingKeeps
<1>6. Judged'
  BY <1>2, <1>3 DEF Judged, PublishingInv
<1> QED BY <1>4, <1>5, <1>6 DEF PublishingInv, Addresses, Exists

\* The server takes a call.
LEMMA ServeKeeps ==
  ASSUME PublishingInv, NEW c \in ApiCall, Serve(c)
  PROVE  PublishingInv'
<1>. USE DEF PublishingInv
<1>1. CASE PublishRow(c)
  <2>1. Addresses' /\ row' \in [Project -> [st : Status, slug : Slug \cup {None}]]
        /\ told' \in [Project -> SUBSET Slug]
    BY <1>1, AddressesPublish
  <2>2. UNCHANGED <<page, dialog>> /\ call' = [call EXCEPT ![c].at = "answered", ![c].ok = TRUE]
    BY <1>1 DEF PublishRow, Respond
  <2>3. call[c].op # "check"
    BY <1>1 DEF PublishRow, Asked
  <2> HIDE DEF PublishingInv
  <2> QED BY <2>1, <2>2, <2>3, AnsweredKeeps
<1>2. CASE PublishRefused(c)
  <2>1. UNCHANGED <<row, page, dialog, told>> /\ call' = [call EXCEPT ![c].at = "answered", ![c].ok = FALSE]
    BY <1>2 DEF PublishRefused, Respond
  <2>2. call[c].op # "check"
    BY <1>2 DEF PublishRefused, Asked
  <2>3. Addresses' /\ row' \in [Project -> [st : Status, slug : Slug \cup {None}]]
        /\ told' \in [Project -> SUBSET Slug]
    BY <2>1 DEF PublishingTypeOK, Addresses, Exists
  <2> HIDE DEF PublishingInv
  <2> QED BY <2>1, <2>2, <2>3, AnsweredKeeps
<1>3. CASE Unpublish(c)
  <2>. DEFINE b == row[call[c].p].st = "published"
  <2>1. /\ UNCHANGED <<page, dialog, told>>
        /\ call' = [call EXCEPT ![c].at = "answered", ![c].ok = b]
        /\ row' = IF b THEN [row EXCEPT ![call[c].p].st = "unpublished"] ELSE row
    BY <1>3 DEF Unpublish, Respond
  <2>2. \A p \in Project : row'[p] = row[p] \/ (Exists(p) /\ row'[p].slug = row[p].slug /\ row'[p].st # "never")
    BY <2>1 DEF PublishingTypeOK, Exists
  <2>3. row' \in [Project -> [st : Status, slug : Slug \cup {None}]]
    BY ZenonT(60), <2>1 DEF PublishingTypeOK, Status
  <2>4. Addresses'
    BY <2>1, <2>2, <2>3, AddressesKeep
  <2>5. told' \in [Project -> SUBSET Slug] /\ call[c].op # "check"
    BY <1>3, <2>1 DEF PublishingTypeOK, Unpublish, Asked
  <2>6. b \in BOOLEAN
    OBVIOUS
  <2> HIDE DEF PublishingInv, b
  <2> QED BY <2>1, <2>3, <2>4, <2>5, <2>6, AnsweredKeeps
<1>4. CASE Delete(c)
  <2>. DEFINE b == Exists(call[c].p)
  <2>1. /\ UNCHANGED <<page, dialog, told>>
        /\ call' = [call EXCEPT ![c].at = "answered", ![c].ok = b]
        /\ row' = IF b THEN [row EXCEPT ![call[c].p] = [st |-> "deleted", slug |-> None]] ELSE row
    BY <1>4 DEF Delete, Respond
  <2>2. row' \in [Project -> [st : Status, slug : Slug \cup {None}]]
    BY <2>1 DEF PublishingTypeOK, Status
  <2>3. \A p \in Project : row'[p] = row[p] \/ row'[p].st = "deleted"
    BY <2>1 DEF PublishingTypeOK
  <2>4. Addresses'
    BY <2>1, <2>2, <2>3, AddressesKeep
  <2>5. told' \in [Project -> SUBSET Slug] /\ call[c].op # "check"
    BY <1>4, <2>1 DEF PublishingTypeOK, Delete, Asked
  <2>6. b \in BOOLEAN
    BY DEF Exists
  <2> HIDE DEF PublishingInv, b
  <2> QED BY <2>1, <2>2, <2>4, <2>5, <2>6, AnsweredKeeps
<1>5. CASE CheckSlug(c)
  <2>. DEFINE b == Exists(call[c].p)
  <2>1. UNCHANGED <<row, page, dialog, told>> /\ call \in [ApiCall -> CallState] /\ b \in BOOLEAN
    BY <1>5 DEF CheckSlug, PublishingTypeOK, Exists
  <2>2. PICK v \in Verdict : call' = [call EXCEPT ![c].at = "answered", ![c].ok = b, ![c].got = v]
    BY <1>5 DEF CheckSlug, Verdict
  <2>. HIDE DEF b, PublishingInv
  <2> QED BY <2>1, <2>2, JudgedKeeps
<1> QED BY <1>1, <1>2, <1>3, <1>4, <1>5 DEF Serve

\* A call is over: what waited for it waits no more.
LEMMA ReceiveKeeps ==
  ASSUME PublishingInv, NEW c \in ApiCall,
         ReceiveVerdict(c) \/ ReceivePublished(c) \/ ReceiveOther(c) \/ Lost(c)
  PROVE  PublishingInv'
<1>. USE DEF PublishingInv
<1>1. UNCHANGED <<row, told>> /\ call' = [call EXCEPT ![c] = NoCall]
  BY DEF ReceiveVerdict, ReceivePublished, ReceiveOther, Lost, Receive
<1>2. Addresses'
  BY <1>1 DEF Addresses, Exists
<1>3. \A d \in ApiCall : d # c => call'[d] = call[d]
  BY <1>1 DEF PublishingTypeOK
<1>4. dialog.asking = c => call[c].op = "check" /\ call[c].slug = dialog.value
  BY NoneIsNothing DEF Checking
<1>5. call' \in [ApiCall -> CallState]
  BY <1>1, NoCallIsCall DEF PublishingTypeOK
<1>6. Judged'
  BY <1>1 DEF Judged, PublishingTypeOK, NoCall
<1>7. ASSUME page' \in PageState,
             dialog' \in DialogState
      PROVE  PublishingTypeOK'
  BY <1>1, <1>5, <1>7 DEF PublishingTypeOK
<1>8. CASE ReceiveVerdict(c)
  <2>1. page' = page
    BY <1>8 DEF ReceiveVerdict
  <2>2. CASE dialog.asking # c
    <3>1. dialog' = dialog
      BY <1>8, <2>2 DEF ReceiveVerdict
    <3>2. Checking'
      BY <1>3, <2>2, <3>1, CheckingKeeps, NoneIsNothing DEF Checking
    <3> QED BY <1>2, <1>6, <1>7, <2>1, <3>1, <3>2 DEF PublishingTypeOK, DialogState, PageState
  <2>3. CASE dialog.asking = c
    <3>1. PICK v \in Verdict :
            dialog' = [dialog EXCEPT !.asking = None, !.of = call[c].slug, !.check = v]
      <4>1. call[c].at = "answered" /\ call[c].op = "check" /\ "taken" \in Verdict
        BY <1>8 DEF ReceiveVerdict, Receive, Verdict
      <4> QED BY <1>8, <2>3, <4>1 DEF ReceiveVerdict, Judged
    <3>2. dialog'.asking = None /\ dialog'.of = dialog'.value
      BY <1>4, <2>3, <3>1 DEF PublishingTypeOK, DialogState
    <3>3. Checking'
      BY <3>2 DEF Checking, VerdictIsOfValue
    <3>4. dialog' \in DialogState
      BY <3>1 DEF PublishingTypeOK, DialogState, CallState
    <3>5. page' \in PageState
      BY <2>1 DEF PublishingTypeOK
    <3> QED BY <1>2, <1>6, <1>7, <3>3, <3>4, <3>5
  <2> QED BY <2>2, <2>3
<1>9. CASE ReceivePublished(c)
  <2>1. page' = page /\ dialog' \in {NoDialog, [dialog EXCEPT !.busy = FALSE]} /\ dialog.asking # c
    BY <1>4, <1>9 DEF ReceivePublished
  <2>2. CASE dialog' = NoDialog
    <3>1. dialog' \in DialogState /\ Checking'
      BY <2>2 DEF Checking, VerdictIsOfValue, NoDialog, Verdict, DialogState
    <3>2. page' \in PageState
      BY <2>1 DEF PublishingTypeOK
    <3> QED BY <1>2, <1>6, <1>7, <3>1, <3>2
  <2>3. CASE dialog' = [dialog EXCEPT !.busy = FALSE]
    <3>1. /\ dialog'.asking = dialog.asking /\ dialog'.value = dialog.value
          /\ dialog'.check = dialog.check /\ dialog'.of = dialog.of
      BY <2>3 DEF PublishingTypeOK, DialogState
    <3>2. Checking'
      BY <1>3, <2>1, <3>1 DEF Checking, VerdictIsOfValue, PublishingTypeOK, DialogState
    <3>3. dialog' \in DialogState
      BY <2>3 DEF PublishingTypeOK, DialogState
    <3>4. page' \in PageState
      BY <2>1 DEF PublishingTypeOK
    <3> QED BY <1>2, <1>6, <1>7, <3>2, <3>3, <3>4
  <2> QED BY <2>1, <2>2, <2>3
<1>10. CASE ReceiveOther(c)
  <2>1. dialog' = dialog /\ page' \in {page, [page EXCEPT !.busy = FALSE]} /\ dialog.asking # c
    BY <1>4, <1>10 DEF ReceiveOther
  <2>2. Checking'
    BY <1>3, <2>1, CheckingKeeps, NoneIsNothing DEF Checking
  <2>3. page' \in PageState
    BY <2>1 DEF PublishingTypeOK, PageState
  <2>4. dialog' \in DialogState
    BY <2>1 DEF PublishingTypeOK
  <2> QED BY <1>2, <1>6, <1>7, <2>2, <2>3, <2>4
<1>11. CASE Lost(c)
  <2>0. page' \in {page, [page EXCEPT !.busy = FALSE]}
    BY <1>11 DEF Lost
  <2>1. page' \in PageState
    BY <2>0 DEF PublishingTypeOK, PageState
  <2>2. CASE dialog.asking = c
    <3>1. dialog' = [dialog EXCEPT !.asking = None, !.check = "idle"]
      BY <1>11, <2>2 DEF Lost
    <3>2. dialog' \in DialogState
      BY <3>1 DEF PublishingTypeOK, DialogState
    <3>3. dialog'.asking = None /\ dialog'.check = "idle"
      BY <3>1 DEF PublishingTypeOK, DialogState
    <3>4. Checking'
      BY <3>3 DEF Checking, VerdictIsOfValue, Verdict
    <3> QED BY <1>2, <1>6, <1>7, <2>1, <3>2, <3>4
  <2>3. CASE dialog.asking # c
    <3>1. dialog' \in {dialog, [dialog EXCEPT !.busy = FALSE]}
      BY <1>11, <2>3 DEF Lost
    <3>2. /\ dialog'.asking = dialog.asking /\ dialog'.value = dialog.value
          /\ dialog'.check = dialog.check /\ dialog'.of = dialog.of
      BY <3>1 DEF PublishingTypeOK, DialogState
    <3>3. Checking'
      BY <1>3, <2>3, <3>2 DEF Checking, VerdictIsOfValue, PublishingTypeOK, DialogState
    <3>4. dialog' \in DialogState
      BY <3>1 DEF PublishingTypeOK, DialogState
    <3> QED BY <1>2, <1>6, <1>7, <2>1, <3>3, <3>4
  <2> QED BY <2>2, <2>3
<1> QED BY <1>8, <1>9, <1>10, <1>11

\* The page and its dialog send a call, or change what they show.
LEMMA PageKeeps ==
  ASSUME PublishingInv,
         \/ \E c \in ApiCall : ClickPublish(c) \/ ClickUnpublish(c) \/ Debounced(c) \/ Confirm(c)
         \/ \E c \in ApiCall : \E op \in {"publish", "unpublish", "delete"} : FromGrid(c, op)
         \/ \E v \in Base \cup {Bad, None} : \E custom \in BOOLEAN : Choose(v, custom)
         \/ \E p \in Project : Load(p)
         \/ Close
  PROVE  PublishingInv'
<1>. USE DEF PublishingInv
<1>1. UNCHANGED <<row, told>>
  BY DEF ClickPublish, ClickUnpublish, Debounced, Confirm, FromGrid, Choose, Load, Close
<1>2. Addresses'
  BY <1>1 DEF Addresses, Exists
<1>3. ASSUME NEW c \in ApiCall, NEW op \in {"publish", "unpublish", "delete", "check"},
             NEW from \in {"none", "page", "dialog"}, NEW slug \in Base \cup {Bad, None},
             Send(c, op, from, slug), page' \in {page, [page EXCEPT !.busy = TRUE]},
             dialog' \in {dialog, [dialog EXCEPT !.busy = TRUE]}
      PROVE  PublishingInv'
  <2>1. PublishingTypeOK'
    <3>1. page' \in PageState
      BY <1>3 DEF PublishingTypeOK, PageState
    <3>2. dialog' \in DialogState
      BY <1>3 DEF PublishingTypeOK, DialogState
    <3>3. call' \in [ApiCall -> CallState]
      BY <1>3, SendKeeps
    <3> QED BY <1>1, <3>1, <3>2, <3>3 DEF PublishingTypeOK
  <2>2. /\ \A d \in ApiCall : call[d].at # "idle" => call'[d] = call[d]
        /\ call'[c].at = "sent"
    BY <1>3, SendKeeps
  <2>3. Judged'
    BY <1>3, <2>2 DEF Judged, PublishingTypeOK, Send
  <2>4. /\ dialog'.asking = dialog.asking /\ dialog'.value = dialog.value
        /\ dialog'.check = dialog.check /\ dialog'.of = dialog.of
    BY <1>3 DEF PublishingTypeOK, DialogState
  <2>5. Checking'
    BY <2>2, <2>4 DEF Checking, VerdictIsOfValue, PublishingTypeOK, DialogState
  <2> QED BY <1>2, <2>1, <2>3, <2>5
<1>4. ASSUME call' = call, dialog' = dialog,
             page' \in PageState
      PROVE  PublishingInv'
  BY <1>1, <1>2, <1>4 DEF PublishingTypeOK, Checking, VerdictIsOfValue, Judged
<1>5. ASSUME call' = call, page' = page, dialog'.asking = None, dialog'.check \notin Verdict,
             dialog' \in DialogState
      PROVE  PublishingInv'
  BY <1>1, <1>2, <1>5 DEF PublishingTypeOK, Checking, VerdictIsOfValue, Judged
<1>6. ASSUME NEW c \in ApiCall, ClickPublish(c)
      PROVE  PublishingInv'
  <2>1. CASE page.slug # None
    BY <1>3, <1>6, <2>1 DEF ClickPublish
  <2>2. CASE page.slug = None
    <3>1. call' = call /\ page' = page
      BY <1>6, <2>2 DEF ClickPublish
    <3>2. PICK first \in Base \cup {None} :
            dialog' = [NoDialog EXCEPT !.open = TRUE, !.custom = first = None, !.value = first]
      BY <1>6, <2>2 DEF ClickPublish
    <3> QED BY <1>5, <3>1, <3>2 DEF NoDialog, Verdict, DialogState
  <2> QED BY <2>1, <2>2
<1>7. ASSUME NEW c \in ApiCall, ClickUnpublish(c)
      PROVE  PublishingInv'
  BY <1>3, <1>7 DEF ClickUnpublish
<1>8. ASSUME NEW c \in ApiCall, Debounced(c)
      PROVE  PublishingInv'
  <2>1. dialog.value \in Base \cup {Bad, None} /\ c # None
    BY NoneIsNothing DEF PublishingTypeOK, DialogState
  <2>2. /\ Send(c, "check", "dialog", dialog.value) /\ page' = page
        /\ dialog' = [dialog EXCEPT !.asking = c] /\ dialog.check = "checking"
    BY <1>8 DEF Debounced
  <2>3. PublishingTypeOK'
    BY <1>1, <2>1, <2>2, SendKeeps DEF PublishingTypeOK, DialogState
  <2>4. /\ \A d \in ApiCall : call[d].at # "idle" => call'[d] = call[d]
        /\ call'[c].at = "sent" /\ call'[c].op = "check" /\ call'[c].slug = dialog.value
    BY <2>1, <2>2, SendKeeps
  <2>5. Judged'
    BY <2>2, <2>4 DEF Judged, PublishingTypeOK, Send
  <2>6. dialog'.asking = c /\ dialog'.value = dialog.value /\ dialog'.check = "checking"
    BY <2>2 DEF PublishingTypeOK
  <2>7. Checking'
    BY <2>4, <2>6 DEF Checking, VerdictIsOfValue, Verdict
  <2> QED BY <1>2, <2>3, <2>5, <2>7
<1>9. ASSUME NEW c \in ApiCall, Confirm(c)
      PROVE  PublishingInv'
  <2>1. PICK s \in {dialog.value, None} : Send(c, "publish", "dialog", s)
    BY <1>9 DEF Confirm
  <2>2. s \in Base \cup {Bad, None}
    BY <2>1 DEF PublishingTypeOK, DialogState
  <2> QED BY <1>3, <1>9, <2>1, <2>2 DEF Confirm
<1>10. ASSUME NEW c \in ApiCall, NEW op \in {"publish", "unpublish", "delete"}, FromGrid(c, op)
       PROVE  PublishingInv'
  BY <1>3, <1>10 DEF FromGrid
<1>11. ASSUME NEW v \in Base \cup {Bad, None}, NEW custom \in BOOLEAN, Choose(v, custom)
       PROVE  PublishingInv'
  <2>1. call' = call /\ page' = page
    BY <1>11 DEF Choose
  <2>2. PICK k \in {"checking", "idle"} :
          dialog' = [dialog EXCEPT !.custom = custom, !.value = v, !.of = None, !.asking = None, !.check = k]
    BY <1>11 DEF Choose
  <2>3. dialog'.asking = None /\ dialog'.check \notin Verdict
    BY <2>2 DEF PublishingTypeOK, Verdict, DialogState
  <2>4. dialog' \in DialogState
    BY <2>2 DEF PublishingTypeOK, DialogState
  <2> QED BY <1>5, <2>1, <2>3, <2>4
<1>12. ASSUME NEW p \in Project, Load(p)
       PROVE  PublishingInv'
  <2>1. page' \in PageState
    BY <1>12 DEF Load, PublishingTypeOK, PageState
  <2> QED BY <1>4, <1>12, <2>1 DEF Load
<1>13. CASE Close
  BY <1>5, <1>13 DEF Close, NoDialog, Verdict, DialogState
<1> QED BY <1>6, <1>7, <1>8, <1>9, <1>10, <1>11, <1>12, <1>13

\* Rows come, change and go without a call of the page.
LEMMA RowsKeep ==
  ASSUME PublishingInv, DeleteAccount \/ \E p \in Project : Create(p) \/ Generated(p)
  PROVE  PublishingInv'
<1>. USE DEF PublishingInv
<1>1. UNCHANGED <<call, page, dialog, told>>
  BY DEF DeleteAccount, Create, Generated
<1>2. ASSUME row' \in [Project -> [st : Status, slug : Slug \cup {None}]], Addresses'
      PROVE  PublishingInv'
  BY <1>1, <1>2 DEF PublishingTypeOK, Checking, VerdictIsOfValue, Judged
<1>3. CASE DeleteAccount
  <2>1. row' = [p \in Project |-> IF Exists(p) THEN [st |-> "deleted", slug |-> None] ELSE row[p]]
    BY <1>3 DEF DeleteAccount
  <2>2. row' \in [Project -> [st : Status, slug : Slug \cup {None}]]
    BY <2>1 DEF PublishingTypeOK, Status
  <2>3. \A p \in Project : row'[p] = row[p] \/ row'[p].st = "deleted"
    BY <2>1
  <2>4. Addresses'
    BY <1>1, <2>2, <2>3, AddressesKeep
  <2> QED BY <1>2, <2>2, <2>4
<1>4. ASSUME NEW p \in Project, Create(p)
      PROVE  PublishingInv'
  <2>1. PICK left \in {"draft", "deleted"} : row' = [row EXCEPT ![p].st = left]
    BY <1>4 DEF Create
  <2>2. row' \in [Project -> [st : Status, slug : Slug \cup {None}]]
    BY <2>1 DEF PublishingTypeOK, Status
  <2>3. \A q \in Project : row'[q] = row[q] \/ (row[q].st = "never" /\ row'[q].slug = None)
    BY <1>4, <2>1 DEF Create, PublishingTypeOK, Addresses
  <2>4. Addresses'
    BY <1>1, <2>2, <2>3, AddressesKeep
  <2> QED BY <1>2, <2>2, <2>4
<1>5. ASSUME NEW p \in Project, Generated(p)
      PROVE  PublishingInv'
  <2>1. row' = [row EXCEPT ![p].st = "generated"] /\ Exists(p)
    BY <1>5 DEF Generated
  <2>2. row' \in [Project -> [st : Status, slug : Slug \cup {None}]]
    BY <2>1 DEF PublishingTypeOK, Status
  <2>3. \A q \in Project : row'[q] = row[q] \/ (Exists(q) /\ row'[q].slug = row[q].slug /\ row'[q].st # "never")
    BY <2>1 DEF PublishingTypeOK
  <2>4. Addresses'
    BY <1>1, <2>2, <2>3, AddressesKeep
  <2> QED BY <1>2, <2>2, <2>4
<1> QED BY <1>3, <1>4, <1>5

\* No step of a page or of the server breaks the invariant.
LEMMA PublishingStays ==
  PublishingInv /\ [PublishingNext]_publishingVars => PublishingInv'
<1>1. ASSUME PublishingInv, UNCHANGED publishingVars
      PROVE  PublishingInv'
  BY <1>1 DEF PublishingInv, publishingVars, PublishingTypeOK, Addresses, Checking, VerdictIsOfValue,
              Judged, Exists
<1> QED BY <1>1, ServeKeeps, ReceiveKeeps, PageKeeps, RowsKeep DEF PublishingNext

(* An address that was given out leads to its project and to no other for  *)
(* as long as the project exists (assignUniqueSlug and publish).           *)
THEOREM AddressesAlwaysHold ==
  PublishingSpec => []AddressesHold
<1>1. PublishingInv => AddressesHold
  <2> SUFFICES ASSUME PublishingInv, NEW p \in Project, Exists(p), NEW s \in told[p]
               PROVE  SiteOf(s) = {p}
    BY DEF AddressesHold
  <2>1. s = row[p].slug /\ s # None
    BY DEF PublishingInv, Addresses
  <2>2. \A q \in Project : Exists(q) /\ row[q].slug = s => q = p
    BY <2>1 DEF PublishingInv, Addresses
  <2> QED BY <2>1, <2>2 DEF SiteOf
<1> HIDE DEF PublishingInv
<1> QED BY <1>1, PublishingStarts, PublishingStays, PTL DEF PublishingSpec

(* What the dialog says of an address, it says of the one that is typed in *)
(* it, however late an answer comes (PublishDialog's abort and debounce).  *)
THEOREM VerdictIsAlwaysOfValue ==
  PublishingSpec => []VerdictIsOfValue
<1>1. PublishingInv => VerdictIsOfValue
  BY DEF PublishingInv, Checking
<1> QED BY <1>1, PublishingStarts, PublishingStays, PTL DEF PublishingSpec

(* The rows, the pages and the calls between them keep their types.        *)
THEOREM PublishingIsTyped ==
  PublishingSpec => []PublishingTypeOK
<1>1. PublishingInv => PublishingTypeOK
  BY DEF PublishingInv
<1> QED BY <1>1, PublishingStarts, PublishingStays, PTL DEF PublishingSpec

-----------------------------------------------------------------------------
(* Accounts.                                                               *)

Users == [st : {"none", "active", "deleted"}, pw : Token \cup {NoOne}, verified : BOOLEAN]
Tokens == [st : {"free", "live", "consumed", "expired"},
           u : Holder \cup {NoOne}, type : {"none", "verify", "reset"}]

\* The part of LatestLinkOnly that is about the tables; a link that is good,
\* or was until it expired, is an account's.
LiveLinks ==
    /\ \A t \in Token : Consumable(t, "reset") => Active(token[t].u) /\ latest[token[t].u] = t
    /\ \A t \in Token : token[t].st \in {"live", "expired"} =>
            token[t].u \in Holder /\ Active(token[t].u)
    /\ \A u, v \in Holder : Active(u) /\ Active(v) => u = v

\* A reset that succeeded has used its link up; the page may not know yet.
ResetsUseLinks ==
    form.page = "reset" /\ form.st \in {"ok", "done"} =>
        form.link \in Token /\ token[form.link].st = "consumed"

AccountsInv == AccountsTypeOK /\ LiveLinks /\ ResetsUseLinks

\* The tables after what a call does to them: typed, with no link alive but
\* the latest, and what was used up still used up.
TablesKeep ==
    /\ user' \in [Holder -> Users]
    /\ token' \in [Token -> Tokens]
    /\ latest' \in [Holder -> Token \cup {NoOne}]
    /\ LiveLinks'
    /\ \A t \in Token : token[t].st = "consumed" => token'[t].st = "consumed"

\* No account, no link, no page.
LEMMA AccountsStart ==
  AccountsInit => AccountsInv
BY DEF AccountsInit, AccountsInv, AccountsTypeOK, LiveLinks, ResetsUseLinks, Consumable, Active,
       NoUser, NoToken, NoForm

\* Invalidating uses up the reset links of one account and touches no other.
LEMMA InvalidatedTable ==
  ASSUME NEW table \in [Token -> Tokens], NEW u \in Holder
  PROVE  /\ Invalidated(table, u) \in [Token -> Tokens]
         /\ \A t \in Token :
              /\ Invalidated(table, u)[t].u = table[t].u
              /\ Invalidated(table, u)[t].type = table[t].type
              /\ IF table[t].st = "live" /\ table[t].u = u /\ table[t].type = "reset"
                 THEN Invalidated(table, u)[t].st = "consumed"
                 ELSE Invalidated(table, u)[t].st = table[t].st
BY DEF Invalidated, Tokens

\* A token that is issued was never given out.
LEMMA NewTokenIsFree ==
  ASSUME Unissued # {}
  PROVE  NewToken \in Token /\ token[NewToken].st = "free"
BY DEF NewToken, Unissued

\* Signing up when nobody holds the address leaves no link of anyone alive.
LEMMA SignUpKeeps ==
  ASSUME AccountsTypeOK, LiveLinks, NEW ok, SignUp(ok)
  PROVE  TablesKeep
<1>. DEFINE n == NewToken
<1>0. PICK u : u = CHOOSE v \in Holder : user[v].st = "none"
  OBVIOUS
<1>1. u \in Holder /\ user[u].st = "none"
  BY <1>0 DEF SignUp
<1>2. n \in Token /\ token[n].st = "free"
  BY NewTokenIsFree DEF SignUp
<1>3. /\ user' = [user EXCEPT ![u] = [st |-> "active", pw |-> NoOne, verified |-> FALSE]]
      /\ token' = [token EXCEPT ![n] = [st |-> "live", u |-> u, type |-> "verify"]]
      /\ latest' = latest
      /\ \A v \in Holder : ~Active(v)
  BY <1>0 DEF SignUp, Issued
<1>. HIDE DEF n
<1>4. user' \in [Holder -> Users]
  BY <1>1, <1>3 DEF AccountsTypeOK, Users
<1>5. token' \in [Token -> Tokens]
  BY <1>1, <1>2, <1>3 DEF AccountsTypeOK, Tokens
<1>6. \A t \in Token \ {n} : token'[t] = token[t] /\ token[t].st \notin {"live", "expired"}
  BY <1>3 DEF LiveLinks, AccountsTypeOK
<1>7. token'[n].st = "live" /\ token'[n].u = u /\ token'[n].type = "verify"
  BY <1>2, <1>3 DEF AccountsTypeOK
<1>8. (Active(u))' /\ \A v \in Holder \ {u} : ~(Active(v))'
  <2>1. user'[u] = [st |-> "active", pw |-> NoOne, verified |-> FALSE]
        /\ \A v \in Holder \ {u} : user'[v] = user[v]
    BY <1>1, <1>3 DEF AccountsTypeOK
  <2>2. user'[u].st = "active"
    BY <2>1
  <2> QED BY <1>1, <1>3, <2>1, <2>2 DEF Active
<1>9. LiveLinks'
  <2>1. \A t \in Token : token'[t].st \in {"live", "expired"} => t = n
    BY <1>6
  <2>2. \A t \in Token : (Consumable(t, "reset"))' => FALSE
    BY <1>7, <2>1 DEF Consumable
  <2>3. \A t \in Token : token'[t].st \in {"live", "expired"} =>
          token'[t].u \in Holder /\ (Active(token[t].u))'
    BY <1>1, <1>7, <1>8, <2>1
  <2> QED BY <1>8, <2>2, <2>3 DEF LiveLinks
<1>10. \A t \in Token : token[t].st = "consumed" => token'[t].st = "consumed"
  BY <1>2, <1>6
<1> QED BY <1>3, <1>4, <1>5, <1>9, <1>10 DEF TablesKeep, AccountsTypeOK

\* A refusal changes nothing.
LEMMA NoEffectKeeps ==
  ASSUME AccountsTypeOK, LiveLinks, NoEffect
  PROVE  TablesKeep
BY DEF NoEffect, TablesKeep, AccountsTypeOK, LiveLinks, Consumable, Active, Users, Tokens

\* A new reset link is the only live one: the others were invalidated.
LEMMA RequestResetKeeps ==
  ASSUME AccountsTypeOK, LiveLinks, NEW ok, RequestReset(ok)
  PROVE  TablesKeep
<1>1. CASE \A u \in Holder : ~Active(u)
  BY <1>1, NoEffectKeeps DEF RequestReset
<1>2. CASE ~\A u \in Holder : ~Active(u)
  <2>1. PICK u \in Holder :
          /\ Active(u) /\ Unissued # {}
          /\ token' = Issued(Invalidated(token, u), NewToken, u, "reset")
          /\ latest' = [latest EXCEPT ![u] = NewToken]
          /\ user' = user
    BY <1>2 DEF RequestReset
  <2>. DEFINE n == NewToken
              table == Invalidated(token, u)
  <2>2. n \in Token /\ token[n].st = "free"
    BY <2>1, NewTokenIsFree
  <2>3. token' = [table EXCEPT ![n] = [st |-> "live", u |-> u, type |-> "reset"]]
        /\ latest' = [latest EXCEPT ![u] = n]
    BY <2>1 DEF Issued
  <2>4. /\ table \in [Token -> Tokens]
        /\ \A t \in Token :
              /\ table[t].u = token[t].u /\ table[t].type = token[t].type
              /\ IF token[t].st = "live" /\ token[t].u = u /\ token[t].type = "reset"
                 THEN table[t].st = "consumed" ELSE table[t].st = token[t].st
    <3>1. token \in [Token -> Tokens]
      BY DEF AccountsTypeOK, Tokens
    <3> QED BY <3>1, InvalidatedTable
  <2>. HIDE DEF n, table
  <2>5. token' \in [Token -> Tokens]
    BY <2>2, <2>3, <2>4 DEF Tokens
  <2>6. token'[n].st = "live" /\ token'[n].u = u /\ latest'[u] = n
    BY <2>2, <2>3, <2>4 DEF AccountsTypeOK
  <2>7. \A t \in Token \ {n} : token'[t] = table[t]
    BY <2>3, <2>4
  <2>8. LiveLinks'
    <3>1. \A v \in Holder : (Active(v))' <=> Active(v)
      BY <2>1 DEF Active
    <3>2. \A t \in Token \ {n} : token'[t].st \in {"live", "expired"} =>
            token'[t].u = token[t].u /\ token[t].u \in Holder /\ Active(token[t].u)
      BY <2>4, <2>7 DEF LiveLinks
    <3>3. \A t \in Token : token'[t].st \in {"live", "expired"} =>
            token'[t].u \in Holder /\ (Active(token[t].u))'
      BY <2>1, <2>6, <3>1, <3>2
    <3>4. ASSUME NEW t \in Token \ {n}, (Consumable(t, "reset"))'
          PROVE  FALSE
      <4>1. table[t].st = "live" /\ table[t].type = "reset"
        BY <2>7, <3>4 DEF Consumable
      <4>2. token[t].st = "live" /\ token[t].type = "reset" /\ token[t].u # u
        BY <2>4, <4>1
      <4>3. Active(token[t].u) /\ token[t].u \in Holder
        BY <4>2 DEF LiveLinks
      <4> QED BY <2>1, <4>2, <4>3 DEF LiveLinks
    <3>5. \A t \in Token : (Consumable(t, "reset"))' => (Active(token[t].u))' /\ latest'[token'[t].u] = t
      <4> SUFFICES ASSUME NEW t \in Token, (Consumable(t, "reset"))'
                   PROVE  (Active(token[t].u))' /\ latest'[token'[t].u] = t
        OBVIOUS
      <4>1. t = n
        BY <3>4
      <4> QED BY <2>1, <2>6, <3>1, <4>1
    <3>6. \A v, w \in Holder : (Active(v))' /\ (Active(w))' => v = w
      BY <3>1 DEF LiveLinks
    <3> QED BY <3>3, <3>5, <3>6 DEF LiveLinks
  <2>9. \A t \in Token : token[t].st = "consumed" => token'[t].st = "consumed"
    BY <2>2, <2>4, <2>7
  <2>10. user' \in [Holder -> Users] /\ latest' \in [Holder -> Token \cup {NoOne}]
    BY <2>1, <2>2, <2>3 DEF AccountsTypeOK, Users
  <2> QED BY <2>5, <2>8, <2>9, <2>10 DEF TablesKeep
<1> QED BY <1>1, <1>2

\* A use of a reset link uses up all of the account's.
LEMMA ResetPasswordKeeps ==
  ASSUME AccountsTypeOK, LiveLinks, NEW t \in Token \cup {NoOne}, NEW ok, ResetPassword(t, ok)
  PROVE  /\ TablesKeep
         /\ ok => t \in Token /\ token'[t].st = "consumed"
<1>1. CASE ~(t \in Token /\ Consumable(t, "reset"))
  <2>1. ~ok /\ NoEffect
    BY <1>1 DEF ResetPassword
  <2> QED BY <2>1, NoEffectKeeps
<1>2. CASE t \in Token /\ Consumable(t, "reset")
  <2>. DEFINE u == token[t].u
              used == [token EXCEPT ![t].st = "consumed"]
  <2>1. u \in Holder /\ Active(u)
    BY <1>2 DEF LiveLinks, Consumable
  <2>2. user' = [user EXCEPT ![u].pw = t] /\ token' = Invalidated(used, u) /\ latest' = latest
    BY <1>2 DEF ResetPassword
  <2>3. used \in [Token -> Tokens] /\ used[t].st = "consumed" /\ used[t].u = u
        /\ \A s \in Token \ {t} : used[s] = token[s]
    BY <1>2 DEF AccountsTypeOK, Tokens
  <2>. HIDE DEF u, used
  <2>4. /\ token' \in [Token -> Tokens]
        /\ \A s \in Token :
              /\ token'[s].u = used[s].u /\ token'[s].type = used[s].type
              /\ IF used[s].st = "live" /\ used[s].u = u /\ used[s].type = "reset"
                 THEN token'[s].st = "consumed" ELSE token'[s].st = used[s].st
    BY <2>1, <2>2, <2>3, InvalidatedTable
  <2>5. token'[t].st = "consumed"
    BY <1>2, <2>3, <2>4
  <2>6. user' \in [Holder -> Users] /\ \A v \in Holder : (Active(v))' <=> Active(v)
    BY <1>2, <2>1, <2>2 DEF AccountsTypeOK, Users, Active
  <2>7. \A s \in Token : token'[s].st \in {"live", "expired"} =>
          s # t /\ token'[s].st = token[s].st /\ token'[s].u = token[s].u /\ token'[s].type = token[s].type
    BY <2>3, <2>4, <2>5
  <2>8. LiveLinks'
    BY <2>2, <2>6, <2>7 DEF LiveLinks, Consumable
  <2>9. \A s \in Token : token[s].st = "consumed" => token'[s].st = "consumed"
    BY <2>3, <2>4, <2>5
  <2> QED BY <1>2, <2>2, <2>4, <2>5, <2>6, <2>8, <2>9 DEF TablesKeep, AccountsTypeOK
<1> QED BY <1>1, <1>2

\* A verification uses its own link up.
LEMMA VerifyEmailKeeps ==
  ASSUME AccountsTypeOK, LiveLinks, NEW t, NEW ok, VerifyEmail(t, ok)
  PROVE  TablesKeep
<1>1. CASE ~(t \in Token /\ Consumable(t, "verify"))
  BY <1>1, NoEffectKeeps DEF VerifyEmail
<1>2. CASE t \in Token /\ Consumable(t, "verify")
  <2>1. token[t].u \in Holder
    BY <1>2 DEF LiveLinks, Consumable
  <2>2. user' = [user EXCEPT ![token[t].u].verified = TRUE] /\ token' = [token EXCEPT ![t].st = "consumed"]
        /\ latest' = latest
    BY <1>2 DEF VerifyEmail
  <2>3. user' \in [Holder -> Users] /\ \A v \in Holder : (Active(v))' <=> Active(v)
    <3>. DEFINE w == token[t].u
    <3>1. user \in [Holder -> Users] /\ w \in Holder /\ user' = [user EXCEPT ![w].verified = TRUE]
      BY <2>1, <2>2 DEF AccountsTypeOK, Users
    <3>. HIDE DEF w
    <3>2. user' \in [Holder -> Users]
      BY <3>1 DEF Users
    <3>3. \A v \in Holder : user'[v].st = user[v].st
      BY <3>1 DEF Users
    <3> QED BY <3>2, <3>3 DEF Active
  <2>4. token' \in [Token -> Tokens] /\ token'[t].st = "consumed"
        /\ \A s \in Token \ {t} : token'[s] = token[s]
    BY <1>2, <2>2 DEF AccountsTypeOK, Tokens
  <2>5. LiveLinks'
    BY <2>2, <2>3, <2>4 DEF LiveLinks, Consumable
  <2> QED BY <2>2, <2>3, <2>4, <2>5 DEF TablesKeep, AccountsTypeOK
<1> QED BY <1>1, <1>2

\* Whatever a page asks for, and whatever it is told.
LEMMA EffectKeeps ==
  ASSUME AccountsTypeOK, LiveLinks, NEW page_, NEW t \in Token \cup {NoOne}, NEW ok, Effect(page_, t, ok)
  PROVE  /\ TablesKeep
         /\ page_ = "reset" /\ ok => t \in Token /\ token'[t].st = "consumed"
<1>1. CASE ~ok /\ NoEffect
  BY <1>1, NoEffectKeeps
<1>2. CASE page_ = "signup" /\ SignUp(ok)
  BY <1>2, SignUpKeeps
<1>3. CASE page_ = "forgot" /\ RequestReset(ok)
  BY <1>3, RequestResetKeeps
<1>4. CASE page_ = "reset" /\ ResetPassword(t, ok)
  BY <1>4, ResetPasswordKeeps
<1>5. CASE page_ = "verify" /\ VerifyEmail(t, ok)
  BY <1>5, VerifyEmailKeeps
<1>6. CASE page_ = "login" /\ NoEffect
  BY <1>6, NoEffectKeeps
<1> QED BY <1>1, <1>2, <1>3, <1>4, <1>5, <1>6 DEF Effect

\* The database may change under a page, and a page may change.
LEMMA InvKeeps ==
  ASSUME AccountsInv, TablesKeep, session' \in Holder \cup {NoOne},
         form' \in [page : Page \cup {"none"}, link : Token \cup {NoOne},
                    st : {"idle", "sent", "ok", "refused", "lost", "done", "error"}],
         \/ /\ form'.page = form.page /\ form'.link = form.link
            /\ form'.st \in {"ok", "done"} => form.st \in {"ok", "done"}
         \/ form'.page # "reset"
         \/ form'.st \notin {"ok", "done"}
         \/ form'.link \in Token /\ token'[form'.link].st = "consumed"
  PROVE  AccountsInv'
<1>1. AccountsTypeOK' /\ LiveLinks'
  BY DEF TablesKeep, AccountsTypeOK, Users, Tokens
<1>2. ResetsUseLinks'
  BY DEF AccountsInv, ResetsUseLinks, TablesKeep
<1> QED BY <1>1, <1>2 DEF AccountsInv

\* No call, page, session or passing hour breaks the invariant.
LEMMA AccountsStay ==
  AccountsInv /\ [AccountsNext]_accountsVars => AccountsInv'
<1> SUFFICES ASSUME AccountsInv, [AccountsNext]_accountsVars
             PROVE  AccountsInv'
  OBVIOUS
<1>. USE DEF AccountsInv
<1>0. /\ AccountsTypeOK /\ LiveLinks
      /\ session \in Holder \cup {NoOne}
      /\ form \in [page : Page \cup {"none"}, link : Token \cup {NoOne},
                    st : {"idle", "sent", "ok", "refused", "lost", "done", "error"}]
  BY DEF AccountsTypeOK
<1>a. ASSUME NoEffect, session' \in Holder \cup {NoOne}, NEW f, form' = f,
             f \in [page : Page \cup {"none"}, link : Token \cup {NoOne},
                    st : {"idle", "sent", "ok", "refused", "lost", "done", "error"}],
             \/ f.page = form.page /\ f.link = form.link /\ (f.st \in {"ok", "done"} => form.st \in {"ok", "done"})
             \/ f.page # "reset"
             \/ f.st \notin {"ok", "done"}
      PROVE  AccountsInv'
  <2>1. TablesKeep
    BY <1>0, <1>a, NoEffectKeeps
  <2>. HIDE DEF AccountsInv
  <2> QED BY <1>a, <2>1, InvKeeps
<1>1. CASE UNCHANGED accountsVars
  BY <1>0, <1>1, <1>a DEF accountsVars, NoEffect
<1>2. ASSUME NEW t \in Token, Expire(t)
      PROVE  AccountsInv'
  <2>1. token[t].st = "live" /\ token' = [token EXCEPT ![t].st = "expired"]
        /\ UNCHANGED <<user, latest, session, form>>
    BY <1>2 DEF Expire
  <2>2. token' \in [Token -> Tokens] /\ token'[t].st = "expired" /\ token'[t].u = token[t].u
        /\ \A s \in Token \ {t} : token'[s] = token[s]
    BY <2>1 DEF AccountsTypeOK, Tokens
  <2>3. LiveLinks'
    BY <2>1, <2>2 DEF LiveLinks, Consumable, Active
  <2>4. TablesKeep
    BY <2>1, <2>2, <2>3 DEF TablesKeep, AccountsTypeOK, Users
  <2>. HIDE DEF AccountsInv
  <2> QED BY <1>0, <2>1, <2>4, InvKeeps
<1>3. ASSUME NEW q \in Page, NEW t \in Token \cup {NoOne}, Open(q, t)
      PROVE  AccountsInv'
  <2>1. PICK st \in {"idle", "error", "sent"} : form' = [page |-> q, link |-> t, st |-> st]
    BY <1>3 DEF Open
  <2>2. NoEffect /\ session' = session
    BY <1>3 DEF Open, NoEffect
  <2> QED BY <1>0, <1>a, <2>1, <2>2
<1>4. ASSUME NEW q \in Page, NEW t \in Token \cup {NoOne}, AskedElsewhere(q, t)
      PROVE  AccountsInv'
  <2>1. PICK ok \in BOOLEAN : Effect(q, t, ok)
    BY <1>4 DEF AskedElsewhere
  <2>2. TablesKeep /\ UNCHANGED <<session, form>>
    BY <1>0, <1>4, <2>1, EffectKeeps DEF AskedElsewhere
  <2>. HIDE DEF AccountsInv
  <2> QED BY <1>0, <2>2, InvKeeps
<1>5. CASE Submit
  <2>1. NoEffect /\ session' = session /\ form' = [form EXCEPT !.st = "sent"]
    BY <1>5 DEF Submit, NoEffect
  <2> QED BY <1>0, <1>a, <2>1
<1>6. CASE Served
  <2>1. PICK ok \in BOOLEAN :
          /\ Effect(form.page, form.link, ok)
          /\ form' \in {[form EXCEPT !.st = IF ok THEN "ok" ELSE "refused"], [form EXCEPT !.st = "lost"]}
    BY <1>6 DEF Served
  <2>2. session' = session
    BY <1>6 DEF Served
  <2>3. /\ TablesKeep
        /\ form.page = "reset" /\ ok => form.link \in Token /\ token'[form.link].st = "consumed"
    BY <1>0, <2>1, EffectKeeps
  <2>4. /\ form' \in [page : Page \cup {"none"}, link : Token \cup {NoOne},
                    st : {"idle", "sent", "ok", "refused", "lost", "done", "error"}]
        /\ form'.page = form.page /\ form'.link = form.link
        /\ form'.st \in {"ok", "done"} => ok
    BY <1>0, <2>1
  <2>. HIDE DEF AccountsInv
  <2> QED BY <1>0, <2>2, <2>3, <2>4, InvKeeps
<1>7. CASE Unreached
  <2>1. NoEffect /\ session' = session /\ form' = [form EXCEPT !.st = "lost"]
    BY <1>7 DEF Unreached, NoEffect
  <2> QED BY <1>0, <1>a, <2>1
<1>8. CASE Answered
  <2>1. NoEffect
    BY <1>8 DEF Answered, NoEffect
  <2>2. CASE form.st # "ok"
    <3>1. form' = [form EXCEPT !.st = "error"] /\ session' = session
      BY <1>8, <2>2 DEF Answered
    <3> QED BY <1>0, <1>a, <2>1, <3>1
  <2>3. CASE form.st = "ok" /\ form.page = "login"
    <3>1. form' = NoForm /\ session' \in Holder
      BY <1>8, <2>3 DEF Answered
    <3> QED BY <1>0, <1>a, <2>1, <3>1 DEF NoForm
  <2>4. CASE form.st = "ok" /\ form.page # "login"
    <3>1. form' = [form EXCEPT !.st = "done"] /\ session' = session
      BY <1>8, <2>4 DEF Answered
    <3> QED BY <1>0, <1>a, <2>1, <2>4, <3>1
  <2> QED BY <2>2, <2>3, <2>4
<1>9. CASE Resend
  <2>. DEFINE n == NewToken
  <2>1. session \in Holder /\ Active(session)
    BY <1>0, <1>9 DEF Resend
  <2>2. n \in Token /\ token[n].st = "free"
    BY <1>9, NewTokenIsFree DEF Resend
  <2>3. token' = [token EXCEPT ![n] = [st |-> "live", u |-> session, type |-> "verify"]]
        /\ UNCHANGED <<user, latest, session, form>>
    BY <1>9 DEF Resend, Issued
  <2>. HIDE DEF n
  <2>4. token' \in [Token -> Tokens] /\ token'[n].type = "verify" /\ token'[n].u = session
        /\ \A s \in Token \ {n} : token'[s] = token[s]
    BY <2>1, <2>2, <2>3 DEF AccountsTypeOK, Tokens
  <2>5. LiveLinks'
    BY <2>1, <2>3, <2>4 DEF LiveLinks, Consumable, Active
  <2>6. TablesKeep
    BY <2>2, <2>3, <2>4, <2>5 DEF TablesKeep, AccountsTypeOK, Users
  <2>. HIDE DEF AccountsInv
  <2> QED BY <1>0, <2>3, <2>6, InvKeeps
<1>10. ASSUME NEW cleared \in BOOLEAN, DeleteOwnAccount(cleared)
       PROVE  AccountsInv'
  <2>1. session \in Holder /\ Active(session)
    BY <1>0, <1>10 DEF DeleteOwnAccount
  <2>2. /\ user' = [user EXCEPT ![session] = [NoUser EXCEPT !.st = "deleted"]]
        /\ token' = [t \in Token |-> IF token[t].u = session
                                     THEN [NoToken EXCEPT !.st = "consumed"] ELSE token[t]]
        /\ session' \in {session, NoOne} /\ latest' = latest /\ form' = form
    BY <1>10 DEF DeleteOwnAccount
  <2>3. user' \in [Holder -> Users] /\ \A v \in Holder : (Active(v))' <=> Active(v) /\ v # session
    BY <2>1, <2>2 DEF AccountsTypeOK, Users, NoUser, Active
  <2>4. /\ token' \in [Token -> Tokens]
        /\ \A t \in Token : IF token[t].u = session THEN token'[t].st = "consumed" ELSE token'[t] = token[t]
    BY <2>2 DEF AccountsTypeOK, Tokens, NoToken
  <2>5. LiveLinks'
    BY <2>2, <2>3, <2>4 DEF LiveLinks, Consumable
  <2>6. TablesKeep
    BY <2>2, <2>3, <2>4, <2>5 DEF TablesKeep, AccountsTypeOK
  <2>. HIDE DEF AccountsInv
  <2> QED BY <1>0, <2>2, <2>6, InvKeeps
<1>11. CASE SignOut
  <2>1. NoEffect /\ session' = NoOne /\ form' = form
    BY <1>11 DEF SignOut, NoEffect
  <2> QED BY <1>0, <1>a, <2>1
<1> QED BY <1>1, <1>2, <1>3, <1>4, <1>5, <1>6, <1>7, <1>8, <1>9, <1>10, <1>11 DEF AccountsNext

(* The only link that can change a password is the one mailed last, and    *)
(* what the reset page calls done has been done (authService,              *)
(* invalidateByUserAndType and the single statement of consumeValid).      *)
THEOREM LatestLinkAlone ==
  AccountsSpec => []LatestLinkOnly
<1>1. AccountsInv => LatestLinkOnly
  BY DEF AccountsInv, LiveLinks, ResetsUseLinks, LatestLinkOnly
<1>. HIDE DEF AccountsInv
<1> QED BY <1>1, AccountsStart, AccountsStay, PTL DEF AccountsSpec

(* Users, tokens, the session and the open form keep their types.          *)
THEOREM AccountsAreTyped ==
  AccountsSpec => []AccountsTypeOK
<1>1. AccountsInv => AccountsTypeOK
  BY DEF AccountsInv
<1>. HIDE DEF AccountsInv
<1> QED BY <1>1, AccountsStart, AccountsStay, PTL DEF AccountsSpec

-----------------------------------------------------------------------------
(* The quality loop.                                                       *)

(* What the loop holds is a code with a report, a candidate is an answer,  *)
(* so is what was given up for a retry, and no more rounds are run than    *)
(* QUALITY_LOOP_MAX_ITERATIONS.                                            *)
THEOREM QualityIsTyped == QualitySpec => []QualityTypeOK
<1> DEFINE Bounded == retry # NoVersion => round < Rounds
           Inv == QualityTypeOK /\ Bounded
<1>0. /\ Version \subseteq SUBSET Trait
      /\ Rounds \in Nat
      /\ NoVersion \notin Version
      /\ \A c \in SUBSET Trait : AutoFixed(c) \subseteq SUBSET Trait
  <2>1. {"noPlaceholder"} \subseteq Trait /\ Erasable \subseteq Trait
    BY QualityAssumption DEF Trait, Bound
  <2>2. \A c \in SUBSET Trait : AutoFixed(c) \subseteq SUBSET Trait
    BY <2>1 DEF AutoFixed
  <2> QED BY <2>2, QualityAssumption DEF Trait, Bound, NoVersion, Structured, Interactive, Mobile
<1>1. QualityInit => Inv
  <2> SUFFICES ASSUME QualityInit PROVE Inv
    OBVIOUS
  <2>1. best.code \in SUBSET Trait /\ best.report \in FastReports
        /\ best = [code |-> best.code, report |-> best.report]
    BY <1>0 DEF QualityInit
  <2>2. best \in [code : SUBSET Trait, report : FastReports]
    BY <2>1
  <2>3. retry = NoVersion /\ round = 0 /\ over = FALSE /\ replaced = {}
    BY DEF QualityInit
  <2>4. retry \in Version \cup {NoVersion} /\ over \in BOOLEAN
    BY <2>3
  <2>5. round \in 0..Rounds
    BY <1>0, <2>3
  <2> QED BY <2>2, <2>3, <2>4, <2>5 DEF QualityTypeOK
<1>2. Inv /\ [QualityNext]_qualityVars => Inv'
  <2> SUFFICES ASSUME Inv, [QualityNext]_qualityVars PROVE Inv'
    OBVIOUS
  <2>1. CASE LeaveLoop
    BY <2>1 DEF LeaveLoop, Return, QualityTypeOK
  <2>2. CASE BeginRound
    <3>1. round < Rounds /\ round \in Nat
      BY <1>0, <2>2 DEF BeginRound, LoopEnds, QualityTypeOK
    <3>2. PICK c \in AutoFixed(best.code) :
             /\ best' = [best EXCEPT !.code = c]
             /\ \/ Return /\ UNCHANGED <<retry, round>>
                \/ round' = round + 1 /\ UNCHANGED <<retry, over>>
                \/ retry' \in Version /\ UNCHANGED <<round, over>>
      BY <2>2 DEF BeginRound
    <3>3. [best EXCEPT !.code = c] \in [code : SUBSET Trait, report : FastReports]
      <4>1. c \in SUBSET Trait
        BY <1>0 DEF QualityTypeOK
      <4> QED BY <4>1 DEF QualityTypeOK
    <3>4. best' \in [code : SUBSET Trait, report : FastReports]
      BY <3>2, <3>3
    <3>5. retry = NoVersion /\ ~over /\ replaced' = replaced
      BY <2>2 DEF BeginRound
    <3>6. CASE Return /\ UNCHANGED <<retry, round>>
      BY <3>4, <3>5, <3>6 DEF QualityTypeOK, Return
    <3>7. CASE round' = round + 1 /\ UNCHANGED <<retry, over>>
      <4>1. round' \in 0..Rounds
        BY <1>0, <3>1, <3>7
      <4> QED BY <3>4, <3>5, <3>7, <4>1 DEF QualityTypeOK
    <3>8. CASE retry' \in Version /\ UNCHANGED <<round, over>>
      BY <3>1, <3>4, <3>5, <3>8 DEF QualityTypeOK
    <3> QED BY <3>2, <3>6, <3>7, <3>8
  <2>3. CASE JudgeRetry
    <3>1. PICK r \in FastReports :
            \/ Adopt([code |-> retry, report |-> r])
            \/ UNCHANGED <<best, replaced>>
      BY <2>3 DEF JudgeRetry
    <3>2. retry \in Version /\ retry # NoVersion /\ retry \in SUBSET Trait
      BY <1>0, <2>3 DEF JudgeRetry, QualityTypeOK
    <3>3. /\ best' \in [code : SUBSET Trait, report : FastReports]
          /\ replaced' \subseteq [code : SUBSET Trait, report : FastReports]
      <4>1. CASE Adopt([code |-> retry, report |-> r])
        BY <3>2, <4>1 DEF Adopt, QualityTypeOK
      <4>2. CASE UNCHANGED <<best, replaced>>
        BY <4>2 DEF QualityTypeOK
      <4> QED BY <3>1, <4>1, <4>2
    <3>4. retry' = NoVersion /\ round' = round + 1 /\ over' = over
      BY <2>3 DEF JudgeRetry
    <3>5. round' \in 0..Rounds
      BY <1>0, <3>2, <3>4, <2>3 DEF QualityTypeOK
    <3> QED BY <3>3, <3>4, <3>5 DEF QualityTypeOK
  <2>4. CASE UNCHANGED qualityVars
    BY <2>4 DEF qualityVars, QualityTypeOK
  <2> QED BY <2>1, <2>2, <2>3, <2>4 DEF QualityNext
<1>3. Inv => QualityTypeOK
  OBVIOUS
<1> HIDE DEF Inv
<1> QED BY <1>1, <1>2, <1>3, PTL DEF QualitySpec

\* A few traits are finitely many.
LEMMA TraitsAreFinite ==
  /\ IsFiniteSet(Bound) /\ IsFiniteSet(Structured)
  /\ IsFiniteSet(Interactive) /\ IsFiniteSet(Mobile)
<1>1. ASSUME NEW a, NEW b, NEW c PROVE IsFiniteSet({a, b, c})
  <2>1. IsFiniteSet({a}) /\ IsFiniteSet({b}) /\ IsFiniteSet({c})
    BY FS_Singleton
  <2>2. IsFiniteSet({a} \cup {b})
    BY <2>1, FS_Union
  <2>3. IsFiniteSet(({a} \cup {b}) \cup {c}) /\ {a, b, c} = ({a} \cup {b}) \cup {c}
    BY <2>1, <2>2, FS_Union
  <2> QED BY <2>3
<1>2. IsFiniteSet(Bound)
  BY <1>1 DEF Bound
<1>3. IsFiniteSet(Structured)
  <2>1. IsFiniteSet({"semantic", "footer", "imgAlt"})
    BY <1>1
  <2>2. IsFiniteSet({"transitions", "korean", "grid"})
    BY <1>1
  <2>3. Structured = {"semantic", "footer", "imgAlt"} \cup {"transitions", "korean", "grid"}
    BY DEF Structured
  <2> QED BY <2>1, <2>2, <2>3, FS_Union
<1>4. IsFiniteSet(Interactive)
  <2>1. IsFiniteSet({"domReady", "listeners", "listeners"})
    BY <1>1
  <2>2. Interactive = {"domReady", "listeners", "listeners"}
    BY DEF Interactive
  <2> QED BY <2>1, <2>2
<1>5. IsFiniteSet(Mobile)
  <2>1. IsFiniteSet({"responsive", "dense", "noFixedWidth"})
    BY <1>1
  <2>2. IsFiniteSet({"imagesFit", "mobileNav", "mobileNav"})
    BY <1>1
  <2>3. Mobile = {"responsive", "dense", "noFixedWidth"} \cup {"imagesFit", "mobileNav", "mobileNav"}
    BY DEF Mobile
  <2> QED BY <2>1, <2>2, <2>3, FS_Union
<1> QED BY <1>2, <1>3, <1>4, <1>5

\* The points of a code are natural numbers.
LEMMA PointsAreNumbers ==
  ASSUME NEW c
  PROVE  /\ Points(c, Bound) \in Nat /\ Points(c, Structured) \in Nat
         /\ Points(c, Interactive) \in Nat /\ Points(c, Mobile) \in Nat
<1>1. ASSUME NEW S, IsFiniteSet(S) PROVE Points(c, S) \in Nat
  <2>1. c \cap S \subseteq S
    OBVIOUS
  <2>2. IsFiniteSet(c \cap S)
    BY <1>1, <2>1, FS_Subset
  <2> QED BY <2>2, FS_CardinalityType DEF Points
<1> QED BY <1>1, TraitsAreFinite

\* Its scores are integers.
LEMMA ScoresAreNumbers ==
  ASSUME NEW c
  PROVE  StructuralScore(c) \in Int /\ MobileScore(c) \in Int
<1> DEFINE n == Points(c, Bound) + Points(c, Structured) + Points(c, Interactive) + Points(c, Mobile)
           m == Points(c, Mobile)
<1>1. n \in Nat /\ m \in Nat
  BY PointsAreNumbers
<1>2. StructuralScore(c) = Rounded(100 * n, 16) /\ MobileScore(c) = Rounded(100 * m, 5)
  BY DEF StructuralScore, MobileScore
<1> HIDE DEF n, m
<1>3. Rounded(100 * n, 16) \in Int /\ Rounded(100 * m, 5) \in Int
  BY <1>1 DEF Rounded
<1> QED BY <1>2, <1>3

\* So is that of a report.
LEMMA ReportScoresAreNumbers ==
  ASSUME NEW r \in FastReports
  PROVE  r.overall \in Int
  BY ReportsAreScored DEF FastReports, NoFastReport

\* A code with its report.
Measured == [code : SUBSET Trait, report : FastReports]

\* A candidate that is adopted is better than what it replaces in one measure,
\* and so is not dominated by it, with strict adoption and without.
LEMMA AdoptedIsUndominated ==
  ASSUME NEW b \in Measured, NEW d \in Measured, ShouldAdoptRetry(b, d.code, d.report)
  PROVE  ~Dominates(d, b)
<1>1. /\ StructuralScore(b.code) \in Int /\ StructuralScore(d.code) \in Int
      /\ MobileScore(b.code) \in Int /\ MobileScore(d.code) \in Int
      /\ b.report.overall \in Int /\ d.report.overall \in Int
  BY ScoresAreNumbers, ReportScoresAreNumbers DEF Measured
<1>2. CASE HasFunctionalIssue(b.code) /\ ~HasFunctionalIssue(d.code)
  BY <1>2 DEF Dominates
<1>3. CASE \/ StructuralScore(d.code) - StructuralScore(b.code) > 0
           \/ MobileScore(d.code) - MobileScore(b.code) > 0
  BY <1>1, <1>3 DEF Dominates
<1>4. CASE QcImproved(b.report, d.report)
  BY <1>1, <1>4 DEF Dominates, QcImproved
<1> QED BY <1>2, <1>3, <1>4 DEF ShouldAdoptRetry, CodeImproved

\* A step of the loop gives nothing up for a retry, or adopts a candidate as
\* the last thing of a round.
LEMMA LoopStep ==
  ASSUME QualityTypeOK, [QualityNext]_qualityVars
  PROVE  \/ UNCHANGED <<best, replaced>>
         \/ BeginRound /\ replaced' = replaced
         \/ \E d \in Measured :
              /\ ShouldAdoptRetry(best, d.code, d.report)
              /\ Adopt(d) /\ retry # NoVersion /\ round' = round + 1
<1>1. CASE LeaveLoop \/ UNCHANGED qualityVars
  BY <1>1 DEF LeaveLoop, qualityVars
<1>2. CASE BeginRound
  BY <1>2 DEF BeginRound
<1>3. CASE JudgeRetry
  <2>1. PICK r \in FastReports :
           IF ShouldAdoptRetry(best, retry, r) THEN Adopt([code |-> retry, report |-> r])
           ELSE UNCHANGED <<best, replaced>>
    BY <1>3 DEF JudgeRetry
  <2>2. retry \in SUBSET Trait /\ retry # NoVersion /\ round' = round + 1
    BY <1>3, QualityAssumption DEF JudgeRetry, QualityTypeOK
  <2>3. [code |-> retry, report |-> r] \in Measured
    BY <2>2 DEF Measured
  <2> DEFINE d == [code |-> retry, report |-> r]
  <2>4. d.code = retry /\ d.report = r
    OBVIOUS
  <2>5. CASE ShouldAdoptRetry(best, retry, r)
    BY <2>1, <2>2, <2>3, <2>4, <2>5
  <2>6. CASE ~ShouldAdoptRetry(best, retry, r)
    BY <2>1, <2>6
  <2> QED BY <2>5, <2>6
<1> QED BY <1>1, <1>2, <1>3 DEF QualityNext

(* A loop of at most one round never returns a version that one it gave up *)
(* for a retry dominates: shouldAdoptRetry takes a candidate only if it    *)
(* gains in one measure over the version as the auto-fix left it, whatever *)
(* the auto-fix did to that, and no auto-fix comes after the last round.   *)
(* With QUALITY_LOOP_MAX_ITERATIONS above 1 it may, as the run of          *)
(* ReturnsBest shows: adoption is not transitive.                          *)
THEOREM OneRoundReturnsBest ==
  ASSUME Rounds <= 1
  PROVE  QualitySpec => []ReturnsBest
<1> DEFINE Early == retry # NoVersion => round = 0
           Untouched == round = 0 => replaced = {}
           Inv == Early /\ Untouched /\ \A b \in replaced : ~Dominates(best, b)
<1>1. QualityInit => Inv
  BY DEF QualityInit
<1>2. QualityTypeOK /\ Inv /\ [QualityNext]_qualityVars => Inv'
  <2> SUFFICES ASSUME QualityTypeOK, Inv, [QualityNext]_qualityVars PROVE Inv'
    OBVIOUS
  <2>1. best \in Measured /\ round \in Nat /\ Rounds \in Nat
    BY QualityAssumption DEF QualityTypeOK, Measured
  <2>2. BeginRound => round = 0
    BY <2>1 DEF BeginRound, LoopEnds, QualityTypeOK
  <2>3. Early'
    <3>1. CASE LeaveLoop \/ JudgeRetry \/ UNCHANGED qualityVars
      BY <3>1 DEF LeaveLoop, JudgeRetry, qualityVars
    <3>2. CASE BeginRound
      BY <2>2, <3>2 DEF BeginRound
    <3> QED BY <3>1, <3>2 DEF QualityNext
  <2>4. round' = 0 => round = 0
    <3>1. round' \in {round, round + 1}
      BY DEF QualityNext, LeaveLoop, BeginRound, JudgeRetry, qualityVars
    <3> QED BY <2>1, <3>1
  <2>5. CASE UNCHANGED <<best, replaced>>
    BY <2>3, <2>4, <2>5
  <2>6. CASE BeginRound /\ replaced' = replaced
    BY <2>2, <2>3, <2>6
  <2>7. ASSUME NEW d \in Measured, ShouldAdoptRetry(best, d.code, d.report), Adopt(d),
               retry # NoVersion, round' = round + 1
        PROVE  Inv'
    <3>1. replaced = {} /\ round' # 0 /\ best' = d /\ replaced' = {best}
      BY <2>1, <2>7 DEF Adopt
    <3> QED BY <2>1, <2>3, <2>7, <3>1, AdoptedIsUndominated
  <2> QED BY <2>5, <2>6, <2>7, LoopStep
<1>3. Inv => ReturnsBest
  BY DEF ReturnsBest
<1> HIDE DEF Inv
<1> QED BY <1>1, <1>2, <1>3, QualityIsTyped, PTL DEF QualitySpec

-----------------------------------------------------------------------------
(* The deep check.                                                         *)

\* The widths a check has seen that began at a phone's width, when the
\* present width is w.
Passed(w) == {v \in Widths : v <= w}

\* What is known of a set of results: the fixed checks read the page at a
\* phone's width, the breakpoints at all three or not in time.
WellRead(f) ==
    /\ \A c \in FixedChecks \cap DOMAIN f : f[c].at \subseteq {375}
    /\ Breakpoints \in DOMAIN f => f[Breakpoints].at \in {{}, Widths}

\* Each stage has its own checks open, and leaves none of them without a
\* result.
StageIsIts ==
    /\ stage = "content" => going = {}
    /\ stage = "fixed" =>
          /\ open \subseteq FixedChecks /\ going \subseteq FixedChecks
          /\ FixedChecks \subseteq open \cup DOMAIN results
    /\ stage = "breakpoints" =>
          /\ open \subseteq {Breakpoints}
          /\ FixedChecks \subseteq DOMAIN results
          /\ Breakpoints \in open \cup DOMAIN results
    /\ stage = "acting" =>
          /\ open \subseteq ActingChecks
          /\ FixedChecks \cup {Breakpoints} \subseteq DOMAIN results
    /\ stage = "ended" => going = {}

\* The width changes only under the breakpoints check, which sees each.
WidthIsSeen ==
    /\ stage \in {"content", "fixed"} => width = 375
    /\ stage = "fixed" => \A c \in going : readAt[c] = {375}
    /\ Breakpoints \in going => readAt[Breakpoints] = Passed(width)

\* No step of the run is longer than the limit of its checks.
ClockIsBounded ==
    /\ stage = "content" => deepClock <= ContentLimit /\ stageBegan = 0
    /\ stage = "fixed" => stageBegan <= ContentLimit
    /\ stage = "breakpoints" => stageBegan <= ContentLimit + CheckLimit
    /\ stage = "acting" => stageBegan <= ContentLimit + 2 * CheckLimit
    /\ stage \in {"fixed", "breakpoints", "acting"} => deepClock - stageBegan <= CheckLimit

DeepInv ==
    /\ DeepTypeOK /\ StageIsIts /\ WidthIsSeen /\ ClockIsBounded
    /\ WellRead(results)
    /\ ReadAtItsWidth

\* The checks of the three steps differ, and the limits are numbers.
LEMMA ChecksDiffer ==
  /\ Breakpoints \notin FixedChecks /\ Breakpoints \notin ActingChecks
  /\ FixedChecks \cap ActingChecks = {}
  /\ "consoleErrors" \notin FixedChecks /\ "networkActivity" \notin FixedChecks
  /\ "consoleErrors" # Breakpoints /\ "networkActivity" # Breakpoints
  /\ FixedChecks \subseteq DeepChecks /\ Breakpoints \in DeepChecks
  /\ ActingChecks \subseteq DeepChecks
BY DeepQcAssumption DEF PageChecks, ActingChecks, Breakpoints, DeepChecks

\* The limits of the deep check are numbers.
LEMMA DeepLimitsAreNumbers ==
  ContentLimit \in Nat \ {0} /\ CheckLimit \in Nat \ {0} /\ DeepLimit \in Nat \ {0}
BY DeepQcAssumption

\* A result that joins results.
LEMMA JoinedResults ==
  ASSUME NEW c, NEW r, NEW f
  PROVE  /\ DOMAIN Joined(f, c, r) = DOMAIN f \cup {c}
         /\ Joined(f, c, r)[c] = r
         /\ \A d \in DOMAIN f : d # c => Joined(f, c, r)[d] = f[d]
BY DEF Joined

\* The deep check begins in the invariant.
LEMMA DeepBegins == DeepInit => DeepInv
<1> SUFFICES ASSUME DeepInit PROVE DeepInv
  OBVIOUS
<1>1. DeepTypeOK
  <2>1. readAt \in [DeepChecks -> SUBSET Widths] /\ 375 \in Widths
    BY DEF DeepInit, Widths
  <2>2. 0 \in 0..(ContentLimit + 3 * CheckLimit) /\ 0 \in 0..0
    BY DeepLimitsAreNumbers
  <2>. QED
    BY <2>1, <2>2 DEF DeepInit, DeepTypeOK
<1>2. StageIsIts /\ WidthIsSeen
  BY DEF DeepInit, StageIsIts, WidthIsSeen
<1>3. ClockIsBounded
  BY DeepLimitsAreNumbers DEF DeepInit, ClockIsBounded
<1>4. WellRead(results) /\ ReadAtItsWidth
  BY DEF DeepInit, WellRead, ReadAtItsWidth
<1>. QED
  BY <1>1, <1>2, <1>3, <1>4 DEF DeepInv

\* The results of a check that joins well-read ones.
LEMMA JoinedIsWellRead ==
  ASSUME NEW f, WellRead(f), NEW c, NEW r,
         c \in FixedChecks => r.at \subseteq {375},
         c = Breakpoints => r.at \in {{}, Widths}
  PROVE  WellRead(Joined(f, c, r))
<1>1. PICK g : g = Joined(f, c, r)
  OBVIOUS
<1>2. DOMAIN g = DOMAIN f \cup {c} /\ g[c] = r
  BY <1>1 DEF Joined
<1>3. \A d \in DOMAIN f : d # c => g[d] = f[d]
  BY <1>1 DEF Joined
<1>4. ASSUME NEW d \in FixedChecks \cap DOMAIN g PROVE g[d].at \subseteq {375}
  <2>1. CASE d = c
    BY <1>2, <1>4, <2>1
  <2>2. CASE d # c
    BY <1>2, <1>3, <1>4, <2>2 DEF WellRead
  <2>. QED
    BY <2>1, <2>2
<1>5. ASSUME Breakpoints \in DOMAIN g PROVE g[Breakpoints].at \in {{}, Widths}
  <2>1. CASE Breakpoints = c
    BY <1>2, <1>5, <2>1
  <2>2. CASE Breakpoints # c
    BY <1>2, <1>3, <1>5, <2>2 DEF WellRead
  <2>. QED
    BY <2>1, <2>2
<1>. QED
  BY <1>1, <1>4, <1>5 DEF WellRead

\* The widths a check of the breakpoints sees, one after the other.
LEMMA WidthsPass ==
  /\ Passed(375) = {375} /\ Passed(768) = {375, 768} /\ Passed(1280) = Widths
  /\ Passed(375) \cup {768} = Passed(768) /\ Passed(768) \cup {1280} = Passed(1280)
BY DEF Passed, Widths

\* A check that settles is recorded only in its own step, at the widths it
\* is for.
LEMMA SettleKeeps ==
  ASSUME DeepInv, NEW c \in DeepChecks, Settle(c)
  PROVE  DeepInv'
<1> DEFINE r == [verdict |-> Finding(c, deepPage), at |-> readAt[c]]
<1>0. /\ DeepTypeOK /\ StageIsIts /\ WidthIsSeen /\ ClockIsBounded /\ WellRead(results)
      /\ c \in going /\ (c = Breakpoints => width = 1280)
      /\ going' = going \ {c} /\ open' = open \ {c}
      /\ results' = IF c \in open THEN Joined(results, c, r) ELSE results
      /\ UNCHANGED <<deepPage, stage, deepClock, stageBegan, width, readAt, given, codeRow, stored>>
  BY DEF DeepInv, Settle, Recorded
<1>1. DeepTypeOK'
  BY <1>0 DEF DeepTypeOK
<1>2. c \in open => c \in DOMAIN (results') /\ DOMAIN results \subseteq DOMAIN (results')
  <2>1. PICK o : o = r
    OBVIOUS
  <2>2. DOMAIN Joined(results, c, o) = DOMAIN results \cup {c}
    BY JoinedResults
  <2> HIDE DEF r
  <2>. QED
    BY <1>0, <2>1, <2>2
<1>3. DOMAIN results \subseteq DOMAIN (results')
  BY <1>0, <1>2
<1>4. StageIsIts'
  BY <1>0, <1>2, <1>3 DEF StageIsIts
<1>5. WidthIsSeen'
  BY <1>0 DEF WidthIsSeen
<1>6. ClockIsBounded'
  BY <1>0 DEF ClockIsBounded
<1>7. WellRead(results)'
  <2>1. CASE c \in open
    <3>1. c \in FixedChecks => readAt[c] \subseteq {375}
      <4>1. c \in FixedChecks => stage = "fixed"
        BY <1>0, <2>1, ChecksDiffer DEF StageIsIts, DeepTypeOK
      <4>. QED
        BY <1>0, <4>1 DEF WidthIsSeen
    <3>2. c = Breakpoints => readAt[c] = Widths
      BY <1>0, WidthsPass DEF WidthIsSeen
    <3>3. r.at = readAt[c]
      OBVIOUS
    <3> HIDE DEF r
    <3>4. WellRead(Joined(results, c, r))
      BY <1>0, <3>1, <3>2, <3>3, JoinedIsWellRead
    <3>. QED
      BY <1>0, <2>1, <3>4
  <2>2. CASE c \notin open
    BY <1>0, <2>2
  <2>. QED
    BY <2>1, <2>2
<1>8. ReadAtItsWidth'
  BY <1>0 DEF DeepInv, ReadAtItsWidth
<1>. QED
  BY <1>1, <1>4, <1>5, <1>6, <1>7, <1>8 DEF DeepInv

\* A check whose limit runs out, or that throws, counts as failed and has read
\* nothing.
LEMMA RunLateKeeps ==
  ASSUME DeepInv, NEW c \in DeepChecks, RunLate(c) \/ (CheckThrows(c) /\ c \in open)
  PROVE  DeepInv'
<1> DEFINE r == Failed
<1>0. /\ DeepTypeOK /\ StageIsIts /\ WidthIsSeen /\ ClockIsBounded /\ WellRead(results)
      /\ c \in open /\ open' = open \ {c}
      /\ going' \in {going, going \ {c}}
      /\ results' = Joined(results, c, r)
      /\ UNCHANGED <<deepPage, stage, deepClock, stageBegan, width, readAt, given, codeRow, stored>>
  BY DEF DeepInv, RunLate, CheckThrows, Recorded
<1>1. DeepTypeOK'
  BY <1>0 DEF DeepTypeOK
<1>2. c \in DOMAIN (results') /\ DOMAIN results \subseteq DOMAIN (results')
  <2>1. PICK o : o = r
    OBVIOUS
  <2>2. DOMAIN Joined(results, c, o) = DOMAIN results \cup {c}
    BY JoinedResults
  <2> HIDE DEF r
  <2>. QED
    BY <1>0, <2>1, <2>2
<1>3. StageIsIts'
  BY <1>0, <1>2 DEF StageIsIts
<1>4. WidthIsSeen' /\ ClockIsBounded'
  BY <1>0 DEF WidthIsSeen, ClockIsBounded
<1>5. WellRead(results)'
  <2>1. r.at = {}
    BY DEF Failed
  <2> HIDE DEF r
  <2>. QED
    BY <1>0, <2>1, JoinedIsWellRead
<1>6. ReadAtItsWidth'
  BY <1>0 DEF DeepInv, ReadAtItsWidth
<1>. QED
  BY <1>1, <1>3, <1>4, <1>5, <1>6 DEF DeepInv

\* A late check that throws only ends.
LEMMA LateThrowKeeps ==
  ASSUME DeepInv, NEW c \in DeepChecks, CheckThrows(c), c \notin open
  PROVE  DeepInv'
<1>1. /\ going' = going \ {c} /\ open' = open
      /\ UNCHANGED <<deepPage, stage, deepClock, stageBegan, width, readAt, results, given, codeRow,
                     stored>>
  BY DEF CheckThrows, Recorded
<1>. QED
  BY <1>1 DEF DeepInv, DeepTypeOK, StageIsIts, WidthIsSeen, ClockIsBounded, WellRead, ReadAtItsWidth

\* The breakpoints check sees each width it sets; no other step is at the
\* first one any more.
LEMMA SetWidthKeeps ==
  ASSUME DeepInv, SetWidth
  PROVE  DeepInv'
<1>0. /\ DeepTypeOK /\ StageIsIts /\ WidthIsSeen /\ ClockIsBounded /\ WellRead(results)
      /\ Breakpoints \in going /\ width \in Widths /\ width < 1280
      /\ width' = IF width = 375 THEN 768 ELSE 1280
      /\ readAt' = [c \in DeepChecks |->
                       IF c \in going THEN readAt[c] \cup {width'} ELSE readAt[c]]
      /\ UNCHANGED <<deepPage, stage, deepClock, stageBegan, open, going, results, given, codeRow,
                     stored>>
  BY DEF DeepInv, DeepTypeOK, SetWidth
<1>1. stage \notin {"content", "fixed"}
  BY <1>0, ChecksDiffer DEF StageIsIts
<1>2. \/ width = 375 /\ width' = 768
      \/ width = 768 /\ width' = 1280
  BY <1>0 DEF Widths
<1>3. width' \in Widths
  BY <1>2 DEF Widths
<1>4. readAt' \in [DeepChecks -> SUBSET Widths]
  BY <1>0, <1>3 DEF DeepTypeOK
<1>5. DeepTypeOK'
  BY <1>0, <1>3, <1>4 DEF DeepTypeOK
<1>6. readAt'[Breakpoints] = Passed(width')
  <2>1. readAt'[Breakpoints] = Passed(width) \cup {width'}
    BY <1>0, ChecksDiffer DEF WidthIsSeen
  <2>2. Passed(width) \cup {width'} = Passed(width')
    BY <1>2, WidthsPass
  <2>. QED
    BY <2>1, <2>2
<1>7. WidthIsSeen'
  <2>1. stage' \notin {"content", "fixed"} /\ Passed(width)' = Passed(width')
    BY <1>0, <1>1 DEF Passed
  <2>. QED
    BY <1>6, <2>1 DEF WidthIsSeen
<1>8. StageIsIts' /\ ClockIsBounded' /\ WellRead(results)' /\ ReadAtItsWidth'
  BY <1>0 DEF StageIsIts, ClockIsBounded, ReadAtItsWidth, DeepInv
<1>. QED
  BY <1>5, <1>7, <1>8 DEF DeepInv

\* A step begins with its own checks, the first ones at a phone's width.
LEMMA StepsKeep ==
  ASSUME DeepInv, ContentLoads \/ NextStep
  PROVE  DeepInv'
<1>0. /\ DeepTypeOK /\ StageIsIts /\ WidthIsSeen /\ ClockIsBounded /\ WellRead(results)
      /\ UNCHANGED <<deepPage, deepClock, width, results, given, codeRow, stored>>
  BY DEF DeepInv, ContentLoads, NextStep
<1>1. PICK S \in SUBSET DeepChecks :
         /\ \/ stage = "content" /\ stage' = "fixed" /\ S = FixedChecks
            \/ stage = "fixed" /\ stage' = "breakpoints" /\ S = {Breakpoints} /\ open = {}
            \/ stage = "breakpoints" /\ stage' = "acting" /\ S = ActingChecks /\ open = {}
         /\ stageBegan' = deepClock /\ open' = S /\ going' = going \cup S
         /\ readAt' = [c \in DeepChecks |-> IF c \in S THEN {width} ELSE readAt[c]]
  <2>1. CASE ContentLoads
    BY <2>1, ChecksDiffer DEF ContentLoads, Launch
  <2>2. CASE NextStep
    BY <2>2, ChecksDiffer DEF NextStep, Launch, StepOver
  <2>. QED
    BY <2>1, <2>2
<1>2. DeepTypeOK'
  <2>1. readAt' \in [DeepChecks -> SUBSET Widths]
    BY <1>0, <1>1 DEF DeepTypeOK
  <2>2. deepClock' \in 0..(ContentLimit + 3 * CheckLimit) /\ stageBegan' \in 0..(deepClock')
    BY <1>0, <1>1, DeepLimitsAreNumbers DEF DeepTypeOK
  <2>3. stage' \in {"content", "fixed", "breakpoints", "acting", "ended"}
    BY <1>1
  <2>4. open' \subseteq going' /\ going' \subseteq DeepChecks
    BY <1>0, <1>1 DEF DeepTypeOK
  <2>. QED
    BY <1>0, <2>1, <2>2, <2>3, <2>4 DEF DeepTypeOK
<1>3. StageIsIts'
  BY <1>0, <1>1 DEF StageIsIts
<1>4. WidthIsSeen'
  <2>1. \A c \in DeepChecks : readAt'[c] = IF c \in S THEN {width} ELSE readAt[c]
    BY <1>1
  <2>2. going \subseteq DeepChecks
    BY <1>0 DEF DeepTypeOK
  <2>3. CASE stage = "content"
    BY <1>0, <1>1, <2>1, <2>3, ChecksDiffer DEF WidthIsSeen, StageIsIts
  <2>4. CASE stage = "fixed"
    <3>1. width = 375 /\ Breakpoints \in S /\ readAt'[Breakpoints] = {375}
      BY <1>0, <1>1, <2>1, <2>4, ChecksDiffer DEF WidthIsSeen
    <3>2. Passed(width) = {375} /\ Passed(width)' = Passed(width)
      BY <1>0, <3>1, WidthsPass DEF Passed
    <3>. QED
      BY <1>1, <2>4, <3>1, <3>2 DEF WidthIsSeen
  <2>5. CASE stage = "breakpoints"
    <3>1. Breakpoints \notin S
      BY <1>1, <2>5, ChecksDiffer
    <3>2. Passed(width)' = Passed(width)
      BY <1>0 DEF Passed
    <3>3. Breakpoints \in going' => readAt'[Breakpoints] = Passed(width)
      BY <1>0, <1>1, <2>1, <2>2, <3>1 DEF WidthIsSeen
    <3>. QED
      BY <1>1, <2>5, <3>2, <3>3 DEF WidthIsSeen
  <2>. QED
    BY <1>1, <2>3, <2>4, <2>5
<1>5. ClockIsBounded'
  <2>1. deepClock \in Nat /\ stageBegan \in Nat
    BY <1>0, DeepLimitsAreNumbers DEF DeepTypeOK
  <2>. QED
    BY <1>0, <1>1, <2>1, DeepLimitsAreNumbers DEF ClockIsBounded
<1>6. WellRead(results)' /\ ReadAtItsWidth'
  BY <1>0 DEF ReadAtItsWidth, DeepInv
<1>. QED
  BY <1>2, <1>3, <1>4, <1>5, <1>6 DEF DeepInv

\* What the run stores at its end has every check of the first two steps.
LEMMA FinishKeeps ==
  ASSUME DeepInv, Finish
  PROVE  DeepInv'
<1>0. /\ DeepTypeOK /\ StageIsIts /\ WellRead(results) /\ ReadAtItsWidth
      /\ stage = "acting" /\ stage' = "ended" /\ open' = {} /\ going' = {}
      /\ given' = IF given = "pending" THEN "report" ELSE given
      /\ results' = Collected
      /\ stored' = IF given = "pending" /\ codeRow THEN results' ELSE stored
      /\ UNCHANGED <<deepPage, deepClock, stageBegan, width, readAt, codeRow>>
  BY DEF DeepInv, Finish, ClosePage, Give
<1>1. DeepTypeOK'
  BY <1>0 DEF DeepTypeOK
<1>2. StageIsIts' /\ ClockIsBounded' /\ WidthIsSeen'
  BY <1>0 DEF StageIsIts, ClockIsBounded, WidthIsSeen
<1> DEFINE one == [verdict |-> CheckConsoleErrors(deepPage), at |-> {}]
           two == [verdict |-> CheckNetworkActivity(deepPage), at |-> {}]
           f == Joined(results, "consoleErrors", one)
<1>3. WellRead(f)
  <2> HIDE DEF one
  <2>. QED
    BY <1>0, ChecksDiffer, JoinedIsWellRead
<1>4. results' = Joined(f, "networkActivity", two)
  BY <1>0 DEF Collected
<1>5. WellRead(results)' /\ DOMAIN results \subseteq DOMAIN (results')
  <2>1. DOMAIN results \subseteq DOMAIN f
    <3> HIDE DEF one
    <3>1. DOMAIN Joined(results, "consoleErrors", one) = DOMAIN results \cup {"consoleErrors"}
      BY JoinedResults
    <3>. QED
      BY <3>1
  <2> HIDE DEF two, f
  <2>2. WellRead(Joined(f, "networkActivity", two))
    BY <1>3, ChecksDiffer, JoinedIsWellRead
  <2>3. DOMAIN f \subseteq DOMAIN Joined(f, "networkActivity", two)
    <3>1. DOMAIN Joined(f, "networkActivity", two) = DOMAIN f \cup {"networkActivity"}
      BY JoinedResults
    <3>. QED
      BY <3>1
  <2>. QED
    BY <1>4, <2>1, <2>2, <2>3
<1>6. FixedChecks \cup {Breakpoints} \subseteq DOMAIN results'
  BY <1>0, <1>5 DEF StageIsIts
<1>7. ReadAtItsWidth'
  <2>1. CASE given = "pending" /\ codeRow
    <3>1. stored' = results'
      BY <1>0, <2>1
    <3>2. WellRead(results')
      BY <1>5
    <3>. QED
      BY <1>6, <3>1, <3>2 DEF ReadAtItsWidth, WellRead
  <2>2. CASE ~(given = "pending" /\ codeRow)
    BY <1>0, <2>2 DEF ReadAtItsWidth
  <2>. QED
    BY <2>1, <2>2
<1>. QED
  BY <1>1, <1>2, <1>5, <1>7 DEF DeepInv

\* Time passes only in a step that has time left.
LEMMA DeepTickKeeps ==
  ASSUME DeepInv, DeepTick
  PROVE  DeepInv'
<1>0. /\ DeepTypeOK /\ StageIsIts /\ ClockIsBounded /\ WidthIsSeen
      /\ \/ stage = "content" /\ deepClock < ContentLimit
         \/ open # {} /\ deepClock - stageBegan < CheckLimit
      /\ deepClock' = deepClock + 1
      /\ UNCHANGED <<deepPage, stage, stageBegan, width, open, going, readAt, results, given,
                     codeRow, stored>>
  BY DEF DeepInv, DeepTick, Elapsed
<1>1. deepClock \in Nat /\ stageBegan \in Nat /\ stageBegan <= deepClock
  BY <1>0, DeepLimitsAreNumbers DEF DeepTypeOK
<1>2. stage \in {"content", "fixed", "breakpoints", "acting"}
  BY <1>0 DEF DeepTypeOK, StageIsIts
<1>3. open # {} => stage # "content"
  BY <1>0 DEF DeepTypeOK, StageIsIts
<1>4. ClockIsBounded'
  BY <1>0, <1>1, <1>3, DeepLimitsAreNumbers DEF ClockIsBounded
<1>5. deepClock' \in 0..(ContentLimit + 3 * CheckLimit) /\ stageBegan' \in 0..(deepClock')
  <2>1. CASE stage = "content"
    BY <1>0, <1>1, <1>3, <2>1, DeepLimitsAreNumbers
  <2>2. CASE stage # "content"
    <3>1. stageBegan <= ContentLimit + 2 * CheckLimit /\ deepClock - stageBegan < CheckLimit
      BY <1>0, <1>1, <1>2, <2>2, DeepLimitsAreNumbers DEF ClockIsBounded
    <3>. QED
      BY <1>0, <1>1, <3>1, DeepLimitsAreNumbers
  <2>. QED
    BY <2>1, <2>2
<1>6. DeepTypeOK'
  BY <1>0, <1>5 DEF DeepTypeOK
<1>7. StageIsIts' /\ WidthIsSeen' /\ WellRead(results)' /\ ReadAtItsWidth'
  BY <1>0 DEF StageIsIts, WidthIsSeen, Passed, ReadAtItsWidth, DeepInv
<1>. QED
  BY <1>4, <1>6, <1>7 DEF DeepInv

\* Each step of the deep check keeps the invariant.
LEMMA DeepStep == DeepInv /\ [DeepNext]_deepVars => DeepInv'
<1> SUFFICES ASSUME DeepInv, [DeepNext]_deepVars PROVE DeepInv'
  OBVIOUS
<1>1. CASE PageFails
  <2>1. /\ stage' = "ended" /\ open' = {} /\ going' = {}
        /\ given' \in {"null", given}
        /\ UNCHANGED <<deepPage, deepClock, stageBegan, width, readAt, results, codeRow, stored>>
    BY <1>1 DEF PageFails, ClosePage, Give
  <2>. QED
    BY <2>1 DEF DeepInv, DeepTypeOK, StageIsIts, WidthIsSeen, ClockIsBounded, ReadAtItsWidth
<1>2. CASE ContentLoads \/ NextStep
  BY <1>2, StepsKeep
<1>3. ASSUME NEW c \in DeepChecks, Settle(c) \/ CheckThrows(c) \/ RunLate(c) PROVE DeepInv'
  BY <1>3, SettleKeeps, RunLateKeeps, LateThrowKeeps
<1>4. CASE SetWidth
  BY <1>4, SetWidthKeeps
<1>5. CASE Finish
  BY <1>5, FinishKeeps
<1>6. CASE DeepTimesOut \/ CodeGoes \/ UNCHANGED deepVars
  <2>1. /\ given' \in {"null", given} /\ codeRow' \in {FALSE, codeRow}
        /\ UNCHANGED <<deepPage, stage, deepClock, stageBegan, width, open, going, readAt, results,
                       stored>>
    BY <1>6 DEF DeepTimesOut, CodeGoes, deepVars
  <2>2. DeepTypeOK'
    BY <2>1 DEF DeepInv, DeepTypeOK
  <2>3. StageIsIts'
    BY <2>1 DEF DeepInv, StageIsIts
  <2>4. WidthIsSeen'
    BY <2>1 DEF DeepInv, WidthIsSeen, Passed
  <2>5. ClockIsBounded'
    BY <2>1 DEF DeepInv, ClockIsBounded
  <2>6. WellRead(results)' /\ ReadAtItsWidth'
    BY <2>1 DEF DeepInv, WellRead, ReadAtItsWidth
  <2>. QED
    BY <2>2, <2>3, <2>4, <2>5, <2>6 DEF DeepInv
<1>7. CASE DeepTick
  BY <1>7, DeepTickKeeps
<1>. QED
  BY <1>1, <1>2, <1>3, <1>4, <1>5, <1>6, <1>7 DEF DeepNext

\* Every variable of the deep check keeps its type, its clock within the
\* limits of the four steps.
THEOREM DeepCheckIsTyped == DeepSpec => []DeepTypeOK
<1>1. DeepInv => DeepTypeOK
  BY DEF DeepInv
<1>. QED
  BY <1>1, DeepBegins, DeepStep, PTL DEF DeepSpec

\* What a report shows of a check that reads the page at a phone's width was
\* read at that width, however late other checks run on (runDeepQcInternal).
THEOREM ReadsAreAlwaysAtTheirWidth == DeepSpec => []ReadAtItsWidth
<1>1. DeepInv => ReadAtItsWidth
  BY DEF DeepInv
<1>. QED
  BY <1>1, DeepBegins, DeepStep, PTL DEF DeepSpec

-----------------------------------------------------------------------------
(* The builder page.                                                       *)

\* Where the user is.
Placed == visit \in 1..MaxVisit /\ mode \in Mode \cup {"none"} /\ step \in 1..3

\* What the user has put in, and what the gate makes of it.
Filled(cx, ch, du, g) ==
    /\ cx \in Text
    /\ ch \subseteq BuilderApi /\ Cardinality(ch) <= MaxApis
    /\ du \in BOOLEAN
    /\ g \in [score : {"none", "low", "high"}, resolved : BOOLEAN]

\* The answers shown are of this visit.
AnswersAreOfVisit ==
    /\ suggested \in {0, visit} /\ recommended \in {0, visit}
    /\ lastContext \in Context \cup {NoSet}

\* The calls in flight cs are told apart by their numbers, none is newer
\* than the newest of its kind, and the spinners turn for the newest.
Spun(cs, nw, sp) ==
    /\ cs \subseteq CallRecord /\ nw \in [Kind -> 0..MaxCalls] /\ sp \in [Kind -> BOOLEAN]
    /\ \A c, d \in cs : c.kind = d.kind /\ c.id = d.id => c = d
    /\ \A c \in cs : c.id <= nw[c.kind]
    /\ \A k \in Kind : sp[k] <=> \E c \in cs : c.kind = k /\ c.id = nw[k]

\* Only the calls of visit v can still write.
Visited(cs, v) == \A c \in cs : c.visit <= v /\ (c.visit < v => c.aborted)

\* A call is made with what it needs; preferences are asked for, or about
\* to be, only while there is enough to ask about.
Fed(cs, cx, ch, du) ==
    /\ \A c \in cs : c.kind = "recommendation" => c.context \in Context
    /\ \A c \in cs : c.kind = "preference" /\ ~c.aborted => cx # TooShort /\ ch # {}
    /\ du => cx # TooShort /\ ch # {}

\* What the page shows is generated, and what was announced of a regeneration
\* is a version of its project.
VersionsAreThere ==
    /\ generation \in [status : {"idle", "generating", "completed", "failed"},
                       project : 0..MaxGenerated]
    /\ generation.status = "completed" => generation.project > 0
    /\ generation.status = "generating" => generation.project < MaxGenerated
    /\ versions \in [1..MaxGenerated -> Nat]
    /\ \A p \in 1..MaxGenerated : p <= generation.project => versions[p] > 0
    /\ regen \in [project : 0..MaxGenerated, version : Nat]
    /\ regen.project <= generation.project
    /\ regen.project = 0 => regen = NoRegen
    /\ regen.project # 0 => regen.version <= versions[regen.project]

BuilderInv ==
    /\ Placed /\ Filled(context, chosen, due, gate) /\ AnswersAreOfVisit
    /\ Spun(calls, newest, spinner)
    /\ Visited(calls, visit) /\ Fed(calls, context, chosen, due)
    /\ VersionsAreThere

\* The constants of the builder page.
LEMMA BuilderConstants ==
  /\ TooShort \in Text /\ Context \subseteq Text /\ TooShort \notin Context
  /\ IsFiniteSet(BuilderApi)
  /\ MaxApis \in Nat \ {0} /\ MaxVisit \in Nat \ {0} /\ MaxCalls \in Nat \ {0}
  /\ MaxGenerated \in Nat \ {0}
BY BuilderAssumption DEF Text

\* A selection stays within the limit when it loses an API, or gains one
\* the limit has room for.
LEMMA SelectionsAreBounded ==
  ASSUME NEW S \in SUBSET BuilderApi, Cardinality(S) <= MaxApis, NEW a \in BuilderApi
  PROVE  /\ Cardinality({}) <= MaxApis
         /\ S \ {a} \subseteq BuilderApi /\ Cardinality(S \ {a}) <= MaxApis
         /\ AddApi(S, a) \subseteq BuilderApi /\ Cardinality(AddApi(S, a)) <= MaxApis
<1>1. IsFiniteSet(S) /\ Cardinality(S) \in Nat
  BY BuilderConstants, FS_Subset, FS_CardinalityType
<1>2. Cardinality({}) <= MaxApis
  BY BuilderConstants, FS_EmptySet
<1>3. Cardinality(S \ {a}) <= MaxApis
  <2>1. Cardinality(S \ {a}) = IF a \in S THEN Cardinality(S) - 1 ELSE Cardinality(S)
    BY <1>1, FS_RemoveElement
  <2>. QED
    BY <1>1, <2>1, BuilderConstants
<1>4. AddApi(S, a) \subseteq BuilderApi /\ Cardinality(AddApi(S, a)) <= MaxApis
  <2>1. Cardinality(S \cup {a}) = IF a \in S THEN Cardinality(S) ELSE Cardinality(S) + 1
    BY <1>1, FS_AddElement
  <2>. QED
    BY <1>1, <2>1, BuilderConstants DEF AddApi
<1>. QED
  BY <1>2, <1>3, <1>4

\* A call that is aborted if it is of one of the kinds.
Halted(d, kinds) == IF d.kind \in kinds THEN [d EXCEPT !.aborted = TRUE] ELSE d

\* Aborting calls changes nothing but that they are aborted.
LEMMA AbortedCalls ==
  ASSUME NEW cs, cs \subseteq CallRecord, NEW kinds
  PROVE  /\ Aborted(cs, kinds) \subseteq CallRecord
         /\ \A c \in Aborted(cs, kinds) : \E d \in cs :
               /\ c.kind = d.kind /\ c.id = d.id /\ c.visit = d.visit /\ c.context = d.context
               /\ d.aborted => c.aborted
               /\ c.kind \in kinds => c.aborted
               /\ c = Halted(d, kinds)
         /\ \A d \in cs : \E c \in Aborted(cs, kinds) : c.kind = d.kind /\ c.id = d.id
<1> DEFINE A(d) == IF d.kind \in kinds THEN [d EXCEPT !.aborted = TRUE] ELSE d
<1>1. \A d \in CallRecord :
         /\ A(d) \in CallRecord
         /\ A(d).kind = d.kind /\ A(d).id = d.id /\ A(d).visit = d.visit
         /\ A(d).context = d.context
         /\ (d.aborted => A(d).aborted) /\ (d.kind \in kinds => A(d).aborted)
  BY DEF CallRecord
<1>2. Aborted(cs, kinds) = {A(d) : d \in cs}
  BY DEF Aborted
<1>3. \A d \in cs : A(d) = Halted(d, kinds)
  BY DEF Halted
<1> HIDE DEF A
<1>4. ASSUME NEW c \in Aborted(cs, kinds)
      PROVE  \E d \in cs :
               /\ c.kind = d.kind /\ c.id = d.id /\ c.visit = d.visit /\ c.context = d.context
               /\ d.aborted => c.aborted
               /\ c.kind \in kinds => c.aborted
               /\ c = Halted(d, kinds)
  <2>1. PICK d \in cs : c = A(d)
    BY <1>2, <1>4
  <2>2. d \in CallRecord
    OBVIOUS
  <2>3. /\ c.kind = d.kind /\ c.id = d.id /\ c.visit = d.visit /\ c.context = d.context
        /\ (d.aborted => c.aborted) /\ (d.kind \in kinds => c.aborted)
    BY <1>1, <2>1, <2>2
  <2>4. c = Halted(d, kinds)
    BY <1>3, <2>1
  <2>. QED
    BY <2>3, <2>4
<1>5. Aborted(cs, kinds) \subseteq CallRecord
  BY <1>1, <1>2
<1>6. \A d \in cs : \E c \in Aborted(cs, kinds) : c.kind = d.kind /\ c.id = d.id
  BY <1>1, <1>2
<1>. QED
  BY <1>4, <1>5, <1>6

\* The invariant is as strong as what the page promises.
LEMMA BuilderInvSuffices ==
  ASSUME BuilderInv
  PROVE  BuilderTypeOK /\ NothingOfAnEarlierVisit /\ SpinnersTellTheTruth /\ PreviewExists
<1>1. BuilderTypeOK
  <2>1. 0 \in 0..MaxVisit /\ visit \in 0..MaxVisit
    BY BuilderConstants DEF BuilderInv, Placed
  <2>2. {suggested, recommended} \subseteq 0..MaxVisit
    BY <2>1 DEF BuilderInv, AnswersAreOfVisit
  <2>. QED
    BY <2>2 DEF BuilderInv, BuilderTypeOK, Placed, Filled, AnswersAreOfVisit, Spun
<1>2. NothingOfAnEarlierVisit
  BY DEF BuilderInv, NothingOfAnEarlierVisit, AnswersAreOfVisit, Visited
<1>3. SpinnersTellTheTruth
  BY DEF BuilderInv, SpinnersTellTheTruth, Spun
<1>4. PreviewExists
  <2> SUFFICES ASSUME generation.status = "completed"
               PROVE  PreviewVersion <= versions[generation.project]
    BY DEF PreviewExists
  <2>1. /\ generation.project \in 1..MaxGenerated /\ versions[generation.project] \in Nat
        /\ versions[generation.project] > 0
    BY BuilderConstants DEF BuilderInv, VersionsAreThere
  <2>2. CASE regen.project = generation.project
    <3>1. regen # NoRegen /\ regen.version <= versions[regen.project]
      BY <2>1, <2>2 DEF BuilderInv, VersionsAreThere, NoRegen
    <3>. QED
      BY <2>2, <3>1 DEF PreviewVersion
  <2>3. CASE regen.project # generation.project
    BY <2>1, <2>3 DEF PreviewVersion
  <2>. QED
    BY <2>2, <2>3
<1>. QED
  BY <1>1, <1>2, <1>3, <1>4

\* The page begins in the invariant.
LEMMA BuilderBegins == BuilderInit => BuilderInv
<1> SUFFICES ASSUME BuilderInit PROVE BuilderInv
  OBVIOUS
<1>1. Placed /\ AnswersAreOfVisit
  BY BuilderConstants DEF BuilderInit, Placed, AnswersAreOfVisit
<1>2. Filled(context, chosen, due, gate)
  <2>1. Cardinality({}) <= MaxApis
    BY BuilderConstants, FS_EmptySet
  <2>. QED
    BY <2>1 DEF BuilderInit, Filled, NoGate
<1>3. Spun(calls, newest, spinner)
  BY BuilderConstants DEF BuilderInit, Spun
<1>4. Visited(calls, visit) /\ Fed(calls, context, chosen, due)
  BY DEF BuilderInit, Visited, Fed
<1>5. VersionsAreThere
  BY BuilderConstants DEF BuilderInit, VersionsAreThere, NoRegen
<1>. QED
  BY <1>1, <1>2, <1>3, <1>4, <1>5 DEF BuilderInv

\* Aborted calls own their spinners as before.
LEMMA AbortedSpin ==
  ASSUME NEW cs, NEW nw, NEW sp, Spun(cs, nw, sp), NEW kinds
  PROVE  Spun(Aborted(cs, kinds), nw, sp)
<1>0. PICK as : as = Aborted(cs, kinds)
  OBVIOUS
<1>1. cs \subseteq CallRecord
  BY DEF Spun
<1>2. as \subseteq CallRecord
  BY <1>0, <1>1, AbortedCalls
<1>3. ASSUME NEW c \in as, NEW d \in as, c.kind = d.kind, c.id = d.id PROVE c = d
  <2>0. \A a \in as : \E a1 \in cs : a.kind = a1.kind /\ a.id = a1.id /\ a = Halted(a1, kinds)
    BY <1>0, <1>1, AbortedCalls
  <2>1. PICK c1 \in cs : c.kind = c1.kind /\ c.id = c1.id /\ c = Halted(c1, kinds)
    BY <2>0
  <2>2. PICK d1 \in cs : d.kind = d1.kind /\ d.id = d1.id /\ d = Halted(d1, kinds)
    BY <2>0
  <2>3. c1 = d1
    <3>1. \A e, f \in cs : e.kind = f.kind /\ e.id = f.id => e = f
      BY DEF Spun
    <3>2. c1.kind = d1.kind /\ c1.id = d1.id
      BY <1>3, <2>1, <2>2
    <3>. QED
      BY <3>1, <3>2
  <2>. QED
    BY <2>1, <2>2, <2>3
<1>4. ASSUME NEW c \in as PROVE c.id <= nw[c.kind]
  <2>1. PICK d \in cs : c.kind = d.kind /\ c.id = d.id
    BY <1>0, <1>1, AbortedCalls
  <2>. QED
    BY <2>1 DEF Spun
<1>5. ASSUME NEW k \in Kind PROVE sp[k] <=> \E c \in as : c.kind = k /\ c.id = nw[k]
  <2>1. ASSUME sp[k] PROVE \E c \in as : c.kind = k /\ c.id = nw[k]
    <3>1. PICK d \in cs : d.kind = k /\ d.id = nw[k]
      BY <2>1 DEF Spun
    <3>2. PICK c \in as : c.kind = d.kind /\ c.id = d.id
      BY <1>0, <1>1, AbortedCalls
    <3>. QED
      BY <3>1, <3>2
  <2>2. ASSUME NEW c \in as, c.kind = k, c.id = nw[k] PROVE sp[k]
    <3>1. PICK d \in cs : c.kind = d.kind /\ c.id = d.id
      BY <1>0, <1>1, AbortedCalls
    <3>. QED
      BY <2>2, <3>1 DEF Spun
  <2>. QED
    BY <2>1, <2>2
<1>6. nw \in [Kind -> 0..MaxCalls] /\ sp \in [Kind -> BOOLEAN]
  BY DEF Spun
<1>7. Spun(as, nw, sp)
  BY <1>2, <1>3, <1>4, <1>5, <1>6 DEF Spun
<1>. QED
  BY <1>0, <1>7

\* A call that settles stops its spinner if it is the newest, and no other.
LEMMA SettledSpin ==
  ASSUME NEW cs, NEW nw, NEW sp, Spun(cs, nw, sp), NEW c \in cs
  PROVE  Spun(cs \ {c}, nw, IF nw[c.kind] = c.id THEN [sp EXCEPT ![c.kind] = FALSE] ELSE sp)
<1>0. c \in CallRecord /\ c.kind \in Kind
  BY DEF Spun, CallRecord
<1>1. CASE nw[c.kind] = c.id
  <2>1. PICK q : q = [sp EXCEPT ![c.kind] = FALSE]
    OBVIOUS
  <2>2. q \in [Kind -> BOOLEAN] /\ ~q[c.kind] /\ \A k \in Kind : k # c.kind => q[k] = sp[k]
    BY <1>0, <2>1 DEF Spun
  <2>3. ASSUME NEW k \in Kind PROVE q[k] <=> \E d \in cs \ {c} : d.kind = k /\ d.id = nw[k]
    <3>1. CASE k = c.kind
      BY <1>1, <2>2, <3>1 DEF Spun
    <3>2. CASE k # c.kind
      BY <2>2, <3>2 DEF Spun
    <3>. QED
      BY <3>1, <3>2
  <2>4. Spun(cs \ {c}, nw, q)
    BY <2>2, <2>3 DEF Spun
  <2>. QED
    BY <1>1, <2>1, <2>4
<1>2. CASE nw[c.kind] # c.id
  BY <1>2 DEF Spun
<1>. QED
  BY <1>1, <1>2

\* A new call is the newest of its kind, and turns the spinner.
LEMMA AskedSpin ==
  ASSUME NEW cs, NEW nw, NEW sp, Spun(cs, nw, sp),
         NEW r \in CallRecord, r.id = nw[r.kind] + 1
  PROVE  Spun(cs \cup {r}, [nw EXCEPT ![r.kind] = @ + 1], [sp EXCEPT ![r.kind] = TRUE])
<1>0. /\ r.kind \in Kind /\ r.id \in 1..MaxCalls /\ MaxCalls \in Nat
      /\ nw \in [Kind -> 0..MaxCalls] /\ sp \in [Kind -> BOOLEAN] /\ cs \subseteq CallRecord
  BY BuilderConstants DEF Spun, CallRecord
<1>1. PICK n : n = [nw EXCEPT ![r.kind] = @ + 1]
  OBVIOUS
<1>2. PICK q : q = [sp EXCEPT ![r.kind] = TRUE]
  OBVIOUS
<1>3. /\ n \in [Kind -> 0..MaxCalls] /\ n[r.kind] = r.id
      /\ \A k \in Kind : k # r.kind => n[k] = nw[k]
  BY <1>0, <1>1
<1>4. q \in [Kind -> BOOLEAN] /\ q[r.kind] /\ \A k \in Kind : k # r.kind => q[k] = sp[k]
  BY <1>0, <1>2
<1>5. \A c \in cs : c.kind \in Kind /\ c.id \in Nat /\ (c.kind = r.kind => c.id < r.id)
  BY <1>0 DEF Spun, CallRecord
<1>6. ASSUME NEW c \in cs \cup {r}, NEW d \in cs \cup {r}, c.kind = d.kind, c.id = d.id
      PROVE  c = d
  BY <1>0, <1>5, <1>6 DEF Spun
<1>7. ASSUME NEW c \in cs \cup {r} PROVE c.id <= n[c.kind]
  <2>1. CASE c = r
    BY <1>0, <1>3, <2>1
  <2>2. CASE c \in cs /\ c.kind = r.kind
    BY <1>0, <1>3, <1>5, <2>2
  <2>3. CASE c \in cs /\ c.kind # r.kind
    BY <1>3, <1>5, <2>3 DEF Spun
  <2>. QED
    BY <2>1, <2>2, <2>3
<1>8. ASSUME NEW k \in Kind PROVE q[k] <=> \E c \in cs \cup {r} : c.kind = k /\ c.id = n[k]
  <2>1. CASE k = r.kind
    BY <1>3, <1>4, <2>1
  <2>2. CASE k # r.kind
    BY <1>3, <1>4, <2>2 DEF Spun
  <2>. QED
    BY <2>1, <2>2
<1>9. Spun(cs \cup {r}, n, q)
  BY <1>0, <1>3, <1>4, <1>6, <1>7, <1>8 DEF Spun
<1>. QED
  BY <1>1, <1>2, <1>9

\* Whatever the inputs become, the effect that runs then leaves no call for
\* preferences that may write about inputs there is not enough of.
LEMMA BecomesKeeps ==
  ASSUME NEW cs, NEW nw, NEW sp, NEW v,
         Filled(context, chosen, due, gate), Spun(cs, nw, sp), Visited(cs, v),
         Fed(cs, context, chosen, due),
         NEW c \in Text, NEW s \in SUBSET BuilderApi, Cardinality(s) <= MaxApis,
         NEW g \in [score : {"none", "low", "high"}, resolved : BOOLEAN],
         Becomes(c, s, g, cs)
  PROVE  /\ Filled(context', chosen', due', gate')
         /\ Spun(calls', nw, sp) /\ Visited(calls', v)
         /\ Fed(calls', context', chosen', due')
<1>1. /\ context' = c /\ chosen' = s
      /\ due' \in BOOLEAN
      /\ gate' \in [score : {"none", "low", "high"}, resolved : BOOLEAN]
  BY DEF Becomes, Filled, NoGate
<1>2. Filled(context', chosen', due', gate')
  BY <1>1 DEF Filled
<1>3. CASE c = context /\ s = chosen
  <2>1. calls' = cs /\ due' = due
    BY <1>3 DEF Becomes
  <2>. QED
    BY <1>1, <1>2, <1>3, <2>1
<1>4. CASE ~(c = context /\ s = chosen)
  <2>1. PICK as : as = Aborted(cs, {"preference"})
    OBVIOUS
  <2>2. calls' = as /\ (due' => c # TooShort /\ s # {})
    BY <1>4, <2>1 DEF Becomes
  <2>3. Spun(as, nw, sp)
    BY <2>1, AbortedSpin
  <2>4. \A a \in as : \E d \in cs :
           /\ a.kind = d.kind /\ a.visit = d.visit /\ a.context = d.context
           /\ d.aborted => a.aborted
           /\ a.kind \in {"preference"} => a.aborted
    BY <2>1, AbortedCalls DEF Spun
  <2>5. ASSUME NEW a \in as PROVE a.visit <= v /\ (a.visit < v => a.aborted)
    <3>1. PICK d \in cs : a.visit = d.visit /\ (d.aborted => a.aborted)
      BY <2>4
    <3>. QED
      BY <3>1 DEF Visited
  <2>6. Fed(as, c, s, due')
    <3>1. ASSUME NEW a \in as, a.kind = "recommendation" PROVE a.context \in Context
      <4>1. PICK d \in cs : a.kind = d.kind /\ a.context = d.context
        BY <2>4
      <4>. QED
        BY <3>1, <4>1 DEF Fed
    <3>2. \A a \in as : a.kind = "preference" => a.aborted
      BY <2>4
    <3>. QED
      BY <2>2, <3>1, <3>2 DEF Fed
  <2>. QED
    BY <1>1, <1>2, <2>2, <2>3, <2>5, <2>6 DEF Visited
<1>. QED
  BY <1>3, <1>4

\* Calls of the exclusive kinds may be aborted at any time.
LEMMA AbortingKeeps ==
  ASSUME NEW cs, NEW nw, NEW sp, NEW v, NEW cx, NEW ch, NEW du,
         Spun(cs, nw, sp), Visited(cs, v), Fed(cs, cx, ch, du)
  PROVE  /\ Spun(Aborted(cs, Exclusive), nw, sp)
         /\ Visited(Aborted(cs, Exclusive), v)
         /\ Fed(Aborted(cs, Exclusive), cx, ch, du)
         /\ \A a \in Aborted(cs, Exclusive) : a.kind \in Exclusive => a.aborted
<1>1. PICK as : as = Aborted(cs, Exclusive)
  OBVIOUS
<1>2. Spun(as, nw, sp)
  BY <1>1, AbortedSpin
<1>3. \A a \in as : \E d \in cs :
         /\ a.kind = d.kind /\ a.visit = d.visit /\ a.context = d.context
         /\ d.aborted => a.aborted
         /\ a.kind \in Exclusive => a.aborted
  <2>1. cs \subseteq CallRecord
    BY DEF Spun
  <2>. QED
    BY <1>1, <2>1, AbortedCalls
<1>4. ASSUME NEW a \in as PROVE a.visit <= v /\ (a.visit < v => a.aborted)
  <2>1. PICK d \in cs : a.visit = d.visit /\ (d.aborted => a.aborted)
    BY <1>3
  <2>. QED
    BY <2>1 DEF Visited
<1>5. Fed(as, cx, ch, du)
  <2>1. ASSUME NEW a \in as, a.kind = "recommendation" PROVE a.context \in Context
    <3>1. PICK d \in cs : a.kind = d.kind /\ a.context = d.context
      BY <1>3
    <3>. QED
      BY <2>1, <3>1 DEF Fed
  <2>2. ASSUME NEW a \in as, a.kind = "preference", ~a.aborted PROVE cx # TooShort /\ ch # {}
    <3>1. PICK d \in cs : a.kind = d.kind /\ (d.aborted => a.aborted)
      BY <1>3
    <3>. QED
      BY <2>2, <3>1 DEF Fed
  <2>3. du => cx # TooShort /\ ch # {}
    BY DEF Fed
  <2>. QED
    BY <2>1, <2>2, <2>3 DEF Fed
<1>. QED
  BY <1>1, <1>2, <1>3, <1>4, <1>5 DEF Visited

\* A call that is asked for now is of this visit and of these inputs.
LEMMA AskingKeeps ==
  ASSUME BuilderInv, NEW k \in Kind, NEW cs, NEW du,
         Spun(cs, newest, spinner), Visited(cs, visit), Fed(cs, context, chosen, du),
         Made < MaxCalls,
         k = "recommendation" => context \in Context,
         k = "preference" => context # TooShort /\ chosen # {}
  PROVE  /\ Spun(cs \cup {New(k)}, [newest EXCEPT ![k] = @ + 1], [spinner EXCEPT ![k] = TRUE])
         /\ Visited(cs \cup {New(k)}, visit)
         /\ Fed(cs \cup {New(k)}, context, chosen, du)
<1>1. PICK r : r = New(k)
  OBVIOUS
<1>2. /\ r.kind = k /\ r.id = newest[k] + 1 /\ r.visit = visit /\ r.context = context
      /\ r.aborted = FALSE
  BY <1>1 DEF New
<1>3. newest[k] + 1 \in 1..MaxCalls
  <2>1. /\ newest["suggestion"] \in Nat /\ newest["recommendation"] \in Nat
        /\ newest["preference"] \in Nat
    BY BuilderConstants DEF Spun, Kind
  <2>2. k \in {"suggestion", "recommendation", "preference"}
    BY DEF Kind
  <2>. QED
    BY <2>1, <2>2, BuilderConstants DEF Made
<1>4. r \in CallRecord
  BY <1>1, <1>3 DEF New, CallRecord, BuilderInv, Placed, Filled
<1>5. Spun(cs \cup {r}, [newest EXCEPT ![k] = @ + 1], [spinner EXCEPT ![k] = TRUE])
  BY <1>2, <1>4, AskedSpin
<1>6. visit \in Nat /\ visit <= visit
  BY BuilderConstants DEF BuilderInv, Placed
<1>7. Visited(cs \cup {r}, visit)
  BY <1>2, <1>6 DEF Visited
<1>8. Fed(cs \cup {r}, context, chosen, du)
  <2>1. r.kind = "recommendation" => r.context \in Context
    BY <1>2 DEF BuilderInv, Filled
  <2>. QED
    BY <1>2, <2>1 DEF Fed
<1>. QED
  BY <1>1, <1>5, <1>7, <1>8

\* The choice of a mode begins anew: inputs and answers go.
LEMMA ModeSelectKeeps ==
  ASSUME BuilderInv, NEW m \in Mode, HandleModeSelect(m)
  PROVE  BuilderInv'
<1>0. /\ Filled(context, chosen, due, gate) /\ Spun(calls, newest, spinner)
      /\ Visited(calls, visit) /\ Fed(calls, context, chosen, due)
  BY DEF BuilderInv
<1>1. PICK as : as = Aborted(calls, Exclusive)
  OBVIOUS
<1>2. Becomes(TooShort, {}, NoGate, as)
  BY <1>1 DEF HandleModeSelect
<1>3. Spun(as, newest, spinner) /\ Visited(as, visit) /\ Fed(as, context, chosen, due)
  BY <1>0, <1>1, AbortingKeeps
<1>4. NoGate \in [score : {"none", "low", "high"}, resolved : BOOLEAN]
  BY DEF NoGate
<1>5. Cardinality({}) <= MaxApis
  BY BuilderConstants, FS_EmptySet
<1>6. /\ Filled(context', chosen', due', gate')
      /\ Spun(calls', newest, spinner) /\ Visited(calls', visit)
      /\ Fed(calls', context', chosen', due')
  BY <1>0, <1>2, <1>3, <1>4, <1>5, BecomesKeeps, BuilderConstants
<1>7. Placed' /\ AnswersAreOfVisit' /\ VersionsAreThere'
  BY DEF BuilderInv, HandleModeSelect, Cleared, Placed, AnswersAreOfVisit, VersionsAreThere
<1>. QED
  BY <1>6, <1>7 DEF BuilderInv, HandleModeSelect

\* The end of a visit: every call made in it is aborted, those about
\* preferences by the effect of the inputs that go.
LEMMA ResetModeKeeps ==
  ASSUME BuilderInv, HandleResetMode
  PROVE  BuilderInv'
<1>0. /\ Filled(context, chosen, due, gate) /\ Spun(calls, newest, spinner)
      /\ Visited(calls, visit) /\ Fed(calls, context, chosen, due)
  BY DEF BuilderInv
<1>1. PICK as : as = Aborted(calls, Exclusive)
  OBVIOUS
<1>2. Becomes(TooShort, {}, NoGate, as)
  BY <1>1 DEF HandleResetMode, AbortAiRequests
<1>3. /\ Spun(as, newest, spinner) /\ Visited(as, visit) /\ Fed(as, context, chosen, due)
      /\ \A a \in as : a.kind \in Exclusive => a.aborted
  BY <1>0, <1>1, AbortingKeeps
<1>4. NoGate \in [score : {"none", "low", "high"}, resolved : BOOLEAN]
  BY DEF NoGate
<1>5. Cardinality({}) <= MaxApis
  BY BuilderConstants, FS_EmptySet
<1>6. /\ Filled(context', chosen', due', gate')
      /\ Spun(calls', newest, spinner) /\ Visited(calls', visit)
      /\ Fed(calls', context', chosen', due')
  BY <1>0, <1>2, <1>3, <1>4, <1>5, BecomesKeeps, BuilderConstants
<1>7. visit \in Nat /\ visit + 1 \in 1..MaxVisit /\ visit' = visit + 1
  BY BuilderConstants DEF BuilderInv, Placed, HandleResetMode
<1>8. Visited(calls', visit')
  <2>1. \A c \in calls' : c.kind \in Kind /\ c.visit \in Nat /\ c.visit <= visit
    BY <1>6 DEF Spun, Visited, CallRecord
  <2>2. context' = TooShort
    BY <1>2 DEF Becomes
  <2>3. \A c \in calls' : c.kind = "preference" => c.aborted
    BY <1>6, <2>2 DEF Fed
  <2>4. \A c \in calls' : c.kind \in Exclusive => c.aborted
    <3>1. CASE calls' = as
      BY <1>3, <3>1
    <3>2. CASE calls' = Aborted(as, {"preference"})
      <4>1. as \subseteq CallRecord
        BY <1>3 DEF Spun
      <4>2. \A c \in calls' : \E d \in as : c.kind = d.kind /\ (d.aborted => c.aborted)
        BY <3>2, <4>1, AbortedCalls
      <4>. QED
        BY <1>3, <4>2
    <3>3. calls' = as \/ calls' = Aborted(as, {"preference"})
      BY <1>2 DEF Becomes
    <3>. QED
      BY <3>1, <3>2, <3>3
  <2>5. \A c \in calls' : c.aborted
    BY <2>1, <2>3, <2>4 DEF Kind, Exclusive
  <2>6. \A c \in calls' : c.visit <= visit'
    BY <1>7, <2>1
  <2>. QED
    BY <2>5, <2>6 DEF Visited
<1>9. Placed' /\ AnswersAreOfVisit'
  BY <1>7 DEF BuilderInv, HandleResetMode, Cleared, Placed, AnswersAreOfVisit
<1>10. VersionsAreThere'
  <2>1. generation' = [generation EXCEPT !.status = "idle"] /\ UNCHANGED <<regen, versions>>
    BY DEF HandleResetMode
  <2>2. /\ generation' \in [status : {"idle", "generating", "completed", "failed"},
                            project : 0..MaxGenerated]
        /\ generation'.status = "idle" /\ generation'.project = generation.project
    BY <2>1 DEF BuilderInv, VersionsAreThere
  <2>. QED
    BY <2>1, <2>2 DEF BuilderInv, VersionsAreThere
<1>. QED
  BY <1>6, <1>8, <1>9, <1>10 DEF BuilderInv, HandleResetMode

\* What the user puts in, within the limit of APIs.
LEMMA PuttingInKeeps ==
  ASSUME BuilderInv,
         NEW c \in Text, NEW s \in SUBSET BuilderApi, Cardinality(s) <= MaxApis,
         NEW g \in [score : {"none", "low", "high"}, resolved : BOOLEAN],
         Becomes(c, s, g, calls),
         AnswersAreOfVisit',
         UNCHANGED <<visit, mode, step, newest, spinner, generation, regen, versions>>
  PROVE  BuilderInv'
<1>0. /\ Filled(context, chosen, due, gate) /\ Spun(calls, newest, spinner)
      /\ Visited(calls, visit) /\ Fed(calls, context, chosen, due)
  BY DEF BuilderInv
<1>1. /\ Filled(context', chosen', due', gate')
      /\ Spun(calls', newest, spinner) /\ Visited(calls', visit)
      /\ Fed(calls', context', chosen', due')
  BY <1>0, BecomesKeeps
<1>2. Placed' /\ VersionsAreThere'
  BY DEF BuilderInv, Placed, VersionsAreThere
<1>. QED
  BY <1>1, <1>2 DEF BuilderInv

\* Typing, choosing and the popular services.
LEMMA InputsKeep ==
  ASSUME BuilderInv,
         \/ \E c \in Text : Describe(c)
         \/ \E a \in BuilderApi : ToggleApi(a)
         \/ ClearApis
         \/ \E c \in Context, S \in SUBSET BuilderApi : HandleSelectPopularService(c, S)
  PROVE  BuilderInv'
<1>0. /\ context \in Text /\ chosen \subseteq BuilderApi
      /\ Cardinality(chosen) <= MaxApis /\ AnswersAreOfVisit
      /\ gate \in [score : {"none", "low", "high"}, resolved : BOOLEAN]
  BY DEF BuilderInv, Filled
<1>1. ASSUME NEW c \in Text, Describe(c) PROVE BuilderInv'
  <2>1. PICK g \in {gate, [gate EXCEPT !.resolved = TRUE], NoGate} : Becomes(c, chosen, g, calls)
    <3>1. PICK G : G = IF GateShown THEN {[gate EXCEPT !.resolved = TRUE], NoGate} ELSE {}
      OBVIOUS
    <3>2. \E g \in {gate} \cup G : Becomes(c, chosen, g, calls)
      BY <1>1, <3>1 DEF Describe
    <3>3. {gate} \cup G \subseteq {gate, [gate EXCEPT !.resolved = TRUE], NoGate}
      BY <3>1
    <3>. QED
      BY <3>2, <3>3
  <2>2. g \in [score : {"none", "low", "high"}, resolved : BOOLEAN]
    <3>1. gate \in [score : {"none", "low", "high"}, resolved : BOOLEAN]
      BY <1>0
    <3>2. [gate EXCEPT !.resolved = TRUE]
             \in [score : {"none", "low", "high"}, resolved : BOOLEAN]
      BY <3>1
    <3>3. NoGate \in [score : {"none", "low", "high"}, resolved : BOOLEAN]
      BY DEF NoGate
    <3>. QED
      BY <2>1, <3>1, <3>2, <3>3
  <2>3. /\ AnswersAreOfVisit'
        /\ UNCHANGED <<visit, mode, step, newest, spinner, generation, regen, versions>>
    BY <1>0, <1>1 DEF Describe, AnswersAreOfVisit, answers
  <2>. QED
    BY <1>0, <2>1, <2>2, <2>3, PuttingInKeeps
<1>2. ASSUME NEW a \in BuilderApi, ToggleApi(a) PROVE BuilderInv'
  <2>1. PICK s : /\ s = (IF a \in chosen THEN chosen \ {a} ELSE AddApi(chosen, a))
                 /\ Becomes(context, s, gate, calls)
    BY <1>2 DEF ToggleApi
  <2>2. s \subseteq BuilderApi /\ Cardinality(s) <= MaxApis
    BY <1>0, <2>1, SelectionsAreBounded
  <2>3. /\ AnswersAreOfVisit'
        /\ UNCHANGED <<visit, mode, step, newest, spinner, generation, regen, versions>>
    BY <1>0, <1>2 DEF ToggleApi, AnswersAreOfVisit, answers
  <2>. QED
    BY <1>0, <2>1, <2>2, <2>3, PuttingInKeeps
<1>3. CASE ClearApis
  <2>1. Becomes(context, {}, gate, calls)
    BY <1>3 DEF ClearApis
  <2>2. Cardinality({}) <= MaxApis
    BY BuilderConstants, FS_EmptySet
  <2>3. /\ AnswersAreOfVisit'
        /\ UNCHANGED <<visit, mode, step, newest, spinner, generation, regen, versions>>
    BY <1>0, <1>3 DEF ClearApis, AnswersAreOfVisit, answers
  <2>. QED
    BY <1>0, <2>1, <2>2, <2>3, PuttingInKeeps
<1>4. ASSUME NEW c \in Context, NEW S \in SUBSET BuilderApi, HandleSelectPopularService(c, S)
      PROVE  BuilderInv'
  <2>1. PICK s \in SUBSET BuilderApi : /\ s = (IF S = {} THEN chosen ELSE S)
                                       /\ Becomes(c, s, gate, calls)
    BY <1>0, <1>4 DEF HandleSelectPopularService
  <2>2. Cardinality(s) <= MaxApis
    BY <1>0, <1>4, <2>1 DEF HandleSelectPopularService
  <2>3. AnswersAreOfVisit'
    BY <1>0, <1>4 DEF HandleSelectPopularService, AnswersAreOfVisit, answers
  <2>4. UNCHANGED <<visit, mode, step, newest, spinner, generation, regen, versions>>
    BY <1>4 DEF HandleSelectPopularService
  <2>. QED
    BY <1>0, <2>1, <2>2, <2>3, <2>4, PuttingInKeeps, BuilderConstants
<1>. QED
  BY <1>1, <1>2, <1>3, <1>4

\* Asking for suggestions or recommendations, with the next step or again.
LEMMA FetchesKeep ==
  ASSUME BuilderInv, HandleNextStep \/ Refresh
  PROVE  BuilderInv'
<1>0. /\ Placed /\ AnswersAreOfVisit /\ VersionsAreThere
      /\ Filled(context, chosen, due, gate) /\ Spun(calls, newest, spinner)
      /\ Visited(calls, visit) /\ Fed(calls, context, chosen, due)
  BY DEF BuilderInv
<1>1. /\ UNCHANGED <<context, chosen, due, gate, visit, mode, generation, regen, versions>>
      /\ step' = step \/ (step' = step + 1 /\ step < 3)
      /\ FetchSuggestions \/ FetchApiRecommendations \/ UNCHANGED <<answers, requests>>
  BY DEF HandleNextStep, Refresh, KeepInputs
<1>2. Placed' /\ VersionsAreThere' /\ Filled(context', chosen', due', gate')
  <2>1. step' \in 1..3
    BY <1>0, <1>1 DEF Placed
  <2>. QED
    BY <1>0, <1>1, <2>1 DEF Placed, VersionsAreThere
<1>3. PICK as : as = Aborted(calls, Exclusive)
  OBVIOUS
<1>4. Spun(as, newest, spinner) /\ Visited(as, visit) /\ Fed(as, context, chosen, due)
  BY <1>0, <1>3, AbortingKeeps
<1>5. ASSUME NEW k \in Kind, Ask(k), k = "recommendation" => context \in Context, k # "preference"
      PROVE  /\ Spun(calls', newest', spinner') /\ Visited(calls', visit')
             /\ Fed(calls', context', chosen', due')
  <2>1. /\ Made < MaxCalls /\ calls' = as \cup {New(k)}
        /\ newest' = [newest EXCEPT ![k] = @ + 1] /\ spinner' = [spinner EXCEPT ![k] = TRUE]
    BY <1>3, <1>5 DEF Ask
  <2>2. /\ Spun(as \cup {New(k)}, [newest EXCEPT ![k] = @ + 1], [spinner EXCEPT ![k] = TRUE])
        /\ Visited(as \cup {New(k)}, visit)
        /\ Fed(as \cup {New(k)}, context, chosen, due)
    BY <1>4, <1>5, <2>1, AskingKeeps
  <2>. QED
    BY <1>1, <2>1, <2>2
<1>6. CASE UNCHANGED <<answers, requests>>
  <2>1. UNCHANGED <<suggested, recommended, lastContext, calls, newest, spinner>>
    BY <1>6 DEF answers, requests
  <2>2. AnswersAreOfVisit'
    BY <1>0, <1>1, <2>1 DEF AnswersAreOfVisit
  <2>. QED
    BY <1>0, <1>1, <1>2, <2>1, <2>2 DEF BuilderInv
<1>7. CASE FetchSuggestions /\ ~UNCHANGED <<answers, requests>>
  <2>1. /\ Ask("suggestion") /\ "suggestion" \in Kind
        /\ suggested' = 0 /\ UNCHANGED <<recommended, lastContext>>
    BY <1>7 DEF FetchSuggestions, Kind
  <2>2. AnswersAreOfVisit'
    BY <1>0, <1>1, <2>1 DEF AnswersAreOfVisit
  <2>. QED
    BY <1>2, <1>5, <2>1, <2>2 DEF BuilderInv
<1>8. CASE FetchApiRecommendations /\ ~UNCHANGED <<answers, requests>>
  <2>1. /\ Ask("recommendation") /\ "recommendation" \in Kind /\ context \in Context
        /\ recommended' = 0 /\ UNCHANGED <<suggested, lastContext>>
    BY <1>8 DEF FetchApiRecommendations, Kind
  <2>2. AnswersAreOfVisit'
    BY <1>0, <1>1, <2>1 DEF AnswersAreOfVisit
  <2>. QED
    BY <1>2, <1>5, <2>1, <2>2 DEF BuilderInv
<1>. QED
  BY <1>1, <1>6, <1>7, <1>8

\* The timer asks for preferences about the inputs there are.
LEMMA TimerKeeps ==
  ASSUME BuilderInv, PreferenceTimer
  PROVE  BuilderInv'
<1>0. /\ Placed /\ AnswersAreOfVisit /\ VersionsAreThere
      /\ Filled(context, chosen, due, gate) /\ Spun(calls, newest, spinner)
      /\ Visited(calls, visit) /\ Fed(calls, context, chosen, due)
  BY DEF BuilderInv
<1>1. /\ due /\ due' = FALSE /\ Made < MaxCalls
      /\ calls' = calls \cup {New("preference")}
      /\ newest' = [newest EXCEPT !["preference"] = @ + 1]
      /\ spinner' = [spinner EXCEPT !["preference"] = TRUE]
      /\ UNCHANGED <<visit, mode, step, context, chosen, gate, generation, regen, versions>>
      /\ UNCHANGED <<suggested, recommended, lastContext>>
  BY DEF PreferenceTimer, answers
<1>2. context # TooShort /\ chosen # {} /\ "preference" \in Kind
  BY <1>0, <1>1 DEF Fed, Kind
<1>3. Fed(calls, context, chosen, FALSE)
  BY <1>0 DEF Fed
<1>4. /\ Spun(calls', newest', spinner') /\ Visited(calls', visit)
      /\ Fed(calls', context, chosen, FALSE)
  BY <1>0, <1>1, <1>2, <1>3, AskingKeeps
<1>5. Placed' /\ AnswersAreOfVisit' /\ VersionsAreThere' /\ Filled(context', chosen', due', gate')
  <2>1. Placed' /\ AnswersAreOfVisit'
    BY <1>0, <1>1 DEF Placed, AnswersAreOfVisit
  <2>2. VersionsAreThere'
    BY <1>0, <1>1 DEF VersionsAreThere
  <2>3. Filled(context', chosen', due', gate')
    BY <1>0, <1>1 DEF Filled
  <2>. QED
    BY <2>1, <2>2, <2>3
<1>. QED
  BY <1>1, <1>4, <1>5 DEF BuilderInv

\* What comes of a call, or does not if it was aborted.
LEMMA AnswersKeep ==
  ASSUME BuilderInv, NEW c \in calls,
         \/ SettleAborted(c) \/ SuggestionsArrive(c)
         \/ RecommendationsArrive(c) \/ PreferencesArrive(c)
  PROVE  BuilderInv'
<1>0. /\ Placed /\ AnswersAreOfVisit /\ VersionsAreThere
      /\ Filled(context, chosen, due, gate) /\ Spun(calls, newest, spinner)
      /\ Visited(calls, visit) /\ Fed(calls, context, chosen, due)
  BY DEF BuilderInv
<1>1. PICK cs : cs = calls \ {c}
  OBVIOUS
<1>2. PICK sp : sp = Released(c)
  OBVIOUS
<1>3. Spun(cs, newest, sp)
  BY <1>0, <1>1, <1>2, SettledSpin DEF Released
<1>4. Visited(cs, visit) /\ Fed(cs, context, chosen, due)
  BY <1>0, <1>1 DEF Visited, Fed
<1>5. spinner' = sp /\ UNCHANGED <<visit, mode, step, newest, generation, regen, versions>>
  BY <1>2 DEF SettleAborted, SuggestionsArrive, RecommendationsArrive, PreferencesArrive
<1>6. Placed' /\ VersionsAreThere'
  BY <1>0, <1>5 DEF Placed, VersionsAreThere
<1>7. c.visit <= visit /\ (c.visit < visit => c.aborted) /\ c.visit \in Nat /\ visit \in Nat
  BY <1>0, BuilderConstants DEF Visited, Spun, CallRecord, Placed
<1>8. CASE SettleAborted(c)
  <2>1. /\ calls' = cs
        /\ suggested' \in {suggested, 0}
        /\ UNCHANGED <<context, chosen, due, gate, recommended, lastContext>>
    BY <1>1, <1>8 DEF SettleAborted, inputs
  <2>2. AnswersAreOfVisit'
    BY <1>0, <1>5, <2>1 DEF AnswersAreOfVisit
  <2>. QED
    BY <1>0, <1>3, <1>4, <1>5, <1>6, <2>1, <2>2 DEF BuilderInv
<1>9. CASE SuggestionsArrive(c)
  <2>1. /\ calls' = cs /\ suggested' \in {0, c.visit} /\ ~c.aborted
        /\ UNCHANGED <<context, chosen, due, gate, recommended, lastContext>>
    BY <1>1, <1>9 DEF SuggestionsArrive, inputs
  <2>2. AnswersAreOfVisit'
    BY <1>0, <1>5, <1>7, <2>1 DEF AnswersAreOfVisit
  <2>. QED
    BY <1>0, <1>3, <1>4, <1>5, <1>6, <2>1, <2>2 DEF BuilderInv
<1>10. CASE RecommendationsArrive(c)
  <2>1. PICK s \in SUBSET BuilderApi : Cardinality(s) <= MaxApis /\ Becomes(context, s, gate, cs)
    BY <1>0, <1>1, <1>10 DEF RecommendationsArrive, Filled
  <2>2. /\ Filled(context', chosen', due', gate')
        /\ Spun(calls', newest, sp) /\ Visited(calls', visit)
        /\ Fed(calls', context', chosen', due')
    <3>1. /\ context \in Text
          /\ gate \in [score : {"none", "low", "high"}, resolved : BOOLEAN]
      BY <1>0 DEF Filled
    <3>. QED
      BY <1>0, <1>3, <1>4, <2>1, <3>1, BecomesKeeps
  <2>3. c.context \in Context
    BY <1>0, <1>10 DEF RecommendationsArrive, Fed
  <2>4. c.visit = visit
    BY <1>7, <1>10 DEF RecommendationsArrive
  <2>5. recommended' \in {0, visit} /\ lastContext' \in Context \cup {NoSet} /\ suggested' = suggested
    BY <1>10, <2>3, <2>4 DEF RecommendationsArrive
  <2>6. AnswersAreOfVisit'
    BY <1>0, <1>5, <2>5 DEF AnswersAreOfVisit
  <2>. QED
    BY <1>5, <1>6, <2>2, <2>6 DEF BuilderInv
<1>11. CASE PreferencesArrive(c)
  <2>1. /\ calls' = cs
        /\ gate' \in {gate, [gate EXCEPT !.score = "low"], [score |-> "high", resolved |-> TRUE]}
        /\ UNCHANGED <<context, chosen, due, suggested, recommended, lastContext>>
    BY <1>1, <1>11 DEF PreferencesArrive, answers
  <2>2. gate' \in [score : {"none", "low", "high"}, resolved : BOOLEAN]
    <3>1. gate \in [score : {"none", "low", "high"}, resolved : BOOLEAN]
      BY <1>0 DEF Filled
    <3>2. [gate EXCEPT !.score = "low"] \in [score : {"none", "low", "high"}, resolved : BOOLEAN]
      BY <3>1
    <3>3. [score |-> "high", resolved |-> TRUE]
             \in [score : {"none", "low", "high"}, resolved : BOOLEAN]
      OBVIOUS
    <3>. QED
      BY <2>1, <3>1, <3>2, <3>3
  <2>3. AnswersAreOfVisit' /\ Filled(context', chosen', due', gate')
    BY <1>0, <1>5, <2>1, <2>2 DEF AnswersAreOfVisit, Filled
  <2>. QED
    BY <1>3, <1>4, <1>5, <1>6, <2>1, <2>3 DEF BuilderInv
<1>. QED
  BY <1>8, <1>9, <1>10, <1>11

\* Generations begin, end and are set aside; what completes has a project
\* of its own, which nothing was regenerated of.
LEMMA GeneratingKeeps ==
  ASSUME BuilderInv,
         HandleGenerate \/ GenerationCompletes \/ GenerationFails \/ ResetGeneration
  PROVE  BuilderInv'
<1>0. /\ Placed /\ AnswersAreOfVisit /\ VersionsAreThere
      /\ Filled(context, chosen, due, gate) /\ Spun(calls, newest, spinner)
      /\ Visited(calls, visit) /\ Fed(calls, context, chosen, due)
  BY DEF BuilderInv
<1>1. UNCHANGED <<visit, mode, step, suggested, recommended, lastContext, newest, spinner, regen>>
  BY DEF HandleGenerate, GenerationCompletes, GenerationFails, ResetGeneration, answers, requests
<1>2. Placed' /\ AnswersAreOfVisit'
  BY <1>0, <1>1 DEF Placed, AnswersAreOfVisit
<1>3. CASE GenerationCompletes
  <2>1. /\ generation.status = "generating"
        /\ generation' = [status |-> "completed", project |-> generation.project + 1]
        /\ versions' = [versions EXCEPT ![generation.project + 1] = 1]
        /\ Becomes(TooShort, {}, NoGate, calls)
    BY <1>3 DEF GenerationCompletes
  <2>2. NoGate \in [score : {"none", "low", "high"}, resolved : BOOLEAN]
    BY DEF NoGate
  <2>3. Cardinality({}) <= MaxApis
    BY BuilderConstants, FS_EmptySet
  <2>4. /\ Filled(context', chosen', due', gate')
        /\ Spun(calls', newest, spinner) /\ Visited(calls', visit)
        /\ Fed(calls', context', chosen', due')
    BY <1>0, <2>1, <2>2, <2>3, BecomesKeeps, BuilderConstants
  <2>5. VersionsAreThere'
    <3>1. /\ generation.project \in Nat /\ generation.project + 1 \in 1..MaxGenerated
          /\ versions \in [1..MaxGenerated -> Nat]
          /\ generation'.status = "completed" /\ generation'.project = generation.project + 1
      BY <1>0, <2>1, BuilderConstants DEF VersionsAreThere
    <3>2. generation' \in [status : {"idle", "generating", "completed", "failed"},
                           project : 0..MaxGenerated]
      BY <2>1, <3>1
    <3>3. versions' \in [1..MaxGenerated -> Nat]
      BY <2>1, <3>1
    <3>4. ASSUME NEW p \in 1..MaxGenerated, p <= generation'.project PROVE versions'[p] > 0
      <4>1. CASE p = generation.project + 1
        BY <2>1, <3>1, <4>1
      <4>2. CASE p # generation.project + 1
        <5>1. p <= generation.project /\ versions'[p] = versions[p]
          BY <2>1, <3>1, <3>4, <4>2
        <5>. QED
          BY <1>0, <5>1 DEF VersionsAreThere
      <4>. QED
        BY <4>1, <4>2
    <3>5. regen.project <= generation'.project
      BY <1>0, <3>1 DEF VersionsAreThere
    <3>6. regen.project # 0 => versions'[regen.project] = versions[regen.project]
      BY <1>0, <2>1, <3>1 DEF VersionsAreThere
    <3>7. generation'.project > 0
      BY <3>1
    <3>. QED
      BY <1>0, <1>1, <3>1, <3>2, <3>3, <3>4, <3>5, <3>6, <3>7 DEF VersionsAreThere
  <2>. QED
    BY <1>1, <1>2, <2>4, <2>5 DEF BuilderInv
<1>4. CASE HandleGenerate \/ GenerationFails \/ ResetGeneration
  <2>1. PICK st \in {"idle", "generating", "failed"} :
           /\ generation' = [generation EXCEPT !.status = st]
           /\ st = "generating" => generation.project < MaxGenerated
    BY <1>4 DEF HandleGenerate, GenerationFails, ResetGeneration
  <2>2. UNCHANGED <<context, chosen, due, gate, calls, versions>>
    BY <1>4 DEF HandleGenerate, GenerationFails, ResetGeneration, inputs, requests
  <2>3. VersionsAreThere'
    <3>1. /\ generation' \in [status : {"idle", "generating", "completed", "failed"},
                              project : 0..MaxGenerated]
          /\ generation'.status = st /\ generation'.project = generation.project
      BY <1>0, <2>1 DEF VersionsAreThere
    <3>. QED
      BY <1>0, <1>1, <2>1, <2>2, <3>1 DEF VersionsAreThere
  <2>. QED
    BY <1>0, <1>1, <1>2, <2>2, <2>3 DEF BuilderInv
<1>. QED
  BY <1>3, <1>4

\* A regeneration adds a version to a project that has one, or adds none, and
\* announces one that is there.
LEMMA RegeneratingKeeps ==
  ASSUME BuilderInv, NEW p \in 1..MaxGenerated, RegenerationCompletes(p)
  PROVE  BuilderInv'
<1>0. /\ Placed /\ AnswersAreOfVisit /\ VersionsAreThere
      /\ Filled(context, chosen, due, gate) /\ Spun(calls, newest, spinner)
      /\ Visited(calls, visit) /\ Fed(calls, context, chosen, due)
  BY DEF BuilderInv
<1>1. /\ p <= generation.project
      /\ versions' = versions \/ versions' = [versions EXCEPT ![p] = @ + 1]
      /\ regen' \in [project : {p}, version : 0..(versions'[p])]
      /\ UNCHANGED <<visit, mode, step, context, chosen, due, gate, suggested, recommended,
                     lastContext, calls, newest, spinner, generation>>
  BY DEF RegenerationCompletes, inputs, answers, requests
<1>2. /\ versions \in [1..MaxGenerated -> Nat] /\ versions[p] \in Nat
      /\ p # 0 /\ p \in 0..MaxGenerated
  BY <1>0, <1>1, BuilderConstants DEF VersionsAreThere
<1>3. /\ versions' \in [1..MaxGenerated -> Nat]
      /\ \A q \in 1..MaxGenerated : versions'[q] >= versions[q]
  <2>1. CASE versions' = versions
    BY <1>2, <2>1
  <2>2. CASE versions' = [versions EXCEPT ![p] = @ + 1]
    BY <1>2, <2>2
  <2>. QED
    BY <1>1, <2>1, <2>2
<1>4. ASSUME NEW q \in 1..MaxGenerated, q <= generation.project PROVE versions'[q] > 0
  <2>1. versions[q] > 0 /\ versions[q] \in Nat /\ versions'[q] \in Nat
    BY <1>0, <1>2, <1>3, <1>4 DEF VersionsAreThere
  <2>. QED
    BY <1>3, <2>1
<1>5. versions'[p] \in Nat
  BY <1>3
<1>6. regen'.project = p /\ regen'.version \in Nat /\ regen'.version <= versions'[p]
  BY <1>1, <1>5
<1>7. regen' \in [project : 0..MaxGenerated, version : Nat]
  BY <1>1, <1>2, <1>6
<1>8. VersionsAreThere'
  BY <1>0, <1>1, <1>2, <1>3, <1>4, <1>6, <1>7 DEF VersionsAreThere
<1>9. Placed' /\ AnswersAreOfVisit'
  BY <1>0, <1>1 DEF Placed, AnswersAreOfVisit
<1>. QED
  BY <1>0, <1>1, <1>8, <1>9 DEF BuilderInv

\* Each step of the builder keeps the invariant.
LEMMA BuilderStep == BuilderInv /\ [BuilderNext]_builderVars => BuilderInv'
<1> SUFFICES ASSUME BuilderInv, [BuilderNext]_builderVars PROVE BuilderInv'
  OBVIOUS
<1>1. ASSUME NEW m \in Mode, HandleModeSelect(m) PROVE BuilderInv'
  BY <1>1, ModeSelectKeeps
<1>2. CASE HandleResetMode
  BY <1>2, ResetModeKeeps
<1>3. CASE HandleNextStep \/ Refresh
  BY <1>3, FetchesKeep
<1>4. CASE HandlePrevStep
  <2>1. /\ step' = step - 1 /\ step > 1
        /\ UNCHANGED <<visit, mode, context, chosen, due, gate, suggested, recommended, lastContext,
                       calls, newest, spinner, generation, regen, versions>>
    BY <1>4 DEF HandlePrevStep, inputs, answers, requests
  <2>2. Placed'
    <3>1. step' \in 1..3
      BY <2>1 DEF BuilderInv, Placed
    <3>. QED
      BY <2>1, <3>1 DEF BuilderInv, Placed
  <2>3. AnswersAreOfVisit' /\ VersionsAreThere'
    BY <2>1 DEF BuilderInv, AnswersAreOfVisit, VersionsAreThere
  <2>. QED
    BY <2>1, <2>2, <2>3 DEF BuilderInv
<1>5. CASE \/ \E c \in Text : Describe(c)
           \/ \E a \in BuilderApi : ToggleApi(a)
           \/ ClearApis
           \/ \E c \in Context, S \in SUBSET BuilderApi : HandleSelectPopularService(c, S)
  BY <1>5, InputsKeep
<1>6. CASE PreferenceTimer
  BY <1>6, TimerKeeps
<1>7. ASSUME NEW c \in calls,
             \/ SettleAborted(c) \/ SuggestionsArrive(c)
             \/ RecommendationsArrive(c) \/ PreferencesArrive(c)
      PROVE  BuilderInv'
  BY <1>7, AnswersKeep
<1>8. CASE HandleGenerate \/ GenerationCompletes \/ GenerationFails \/ ResetGeneration
  BY <1>8, GeneratingKeeps
<1>9. ASSUME NEW p \in 1..MaxGenerated, RegenerationCompletes(p) PROVE BuilderInv'
  BY <1>9, RegeneratingKeeps
<1>10. CASE UNCHANGED builderVars
  <2>1. UNCHANGED <<visit, mode, step, context, chosen, due, gate, suggested, recommended,
                    lastContext, calls, newest, spinner, generation, regen, versions>>
    BY <1>10 DEF builderVars, inputs, answers, requests
  <2>2. Placed' /\ AnswersAreOfVisit' /\ VersionsAreThere'
    BY <2>1 DEF BuilderInv, Placed, AnswersAreOfVisit, VersionsAreThere
  <2>. QED
    BY <2>1, <2>2 DEF BuilderInv
<1>. QED
  BY <1>1, <1>2, <1>3, <1>4, <1>5, <1>6, <1>7, <1>8, <1>9, <1>10 DEF BuilderNext

\* Every variable of the builder keeps its type: no more APIs are chosen
\* than the limit, however they came.
THEOREM BuilderIsTyped == BuilderSpec => []BuilderTypeOK
<1>1. BuilderInv => BuilderTypeOK
  BY BuilderInvSuffices
<1>. HIDE DEF BuilderInv
<1> QED BY <1>1, BuilderBegins, BuilderStep, PTL DEF BuilderSpec

\* Whatever calls were in flight when the user went back to the choice of a
\* mode, and however late they are answered, the new visit shows nothing of
\* them.
THEOREM NoVisitSeesAnEarlierOne == BuilderSpec => []NothingOfAnEarlierVisit
<1>1. BuilderInv => NothingOfAnEarlierVisit
  BY BuilderInvSuffices
<1>. HIDE DEF BuilderInv
<1> QED BY <1>1, BuilderBegins, BuilderStep, PTL DEF BuilderSpec

\* However calls of a kind overlap, are aborted and settle, its spinner
\* turns exactly while the newest is in flight.
THEOREM SpinnersAlwaysTellTheTruth == BuilderSpec => []SpinnersTellTheTruth
<1>1. BuilderInv => SpinnersTellTheTruth
  BY BuilderInvSuffices
<1>. HIDE DEF BuilderInv
<1> QED BY <1>1, BuilderBegins, BuilderStep, PTL DEF BuilderSpec

\* Whatever was generated and regenerated before, and whichever version the
\* end of a regeneration announced, the preview asks for one that the project
\* shown has.
THEOREM PreviewAlwaysExists == BuilderSpec => []PreviewExists
<1>1. BuilderInv => PreviewExists
  BY BuilderInvSuffices
<1>. HIDE DEF BuilderInv
<1> QED BY <1>1, BuilderBegins, BuilderStep, PTL DEF BuilderSpec

-----------------------------------------------------------------------------
(* The panel that regenerates.                                             *)

\* What has begun, for which project, and how far it may have come.
RunsAreKnown ==
    /\ \A i \in Regen :
          /\ phase[i] = "unused" => work[i] = "none" /\ i \notin cut
          /\ phase[i] # "unused" => subject[i] \in Service
          /\ phase[i] \in {"reading", "polling", "waiting"} => work[i] # "none"
          /\ events[i] # "none" => work[i] # "none"
          /\ events[i] = "complete" => work[i] = "completed"
    /\ regenSession # 0 => phase[regenSession] # "unused"

\* The panel waits for the run of its session, and no other may speak.
PanelOwnsItsRun ==
    /\ panel # NoPanel => panel.project \in Service
    /\ panel.status = "generating" =>
          /\ panel # NoPanel
          /\ panel.run \in Regen /\ panel.run = regenSession /\ panel.run \notin cut
          /\ phase[panel.run] \in Afoot
          /\ subject[panel.run] = panel.project
    /\ \A i \in Regen : phase[i] \in Afoot /\ i \notin cut => Shown(i)

\* One run of a project works at a time, and the version the project had
\* before any run is never taken back.
RunsAreNumbered ==
    /\ \A p \in Service : 1 \in numbers[p]
    /\ \A i \in Regen :
          /\ made[i] # 1
          /\ work[i] \in {"none", "running"} => made[i] = 0
    /\ \A i, j \in Regen : Laboring(i) /\ Laboring(j) /\ subject[i] = subject[j] => i = j

\* While the panel waits for run i of project p, whatever tells of a
\* completed run tells of a version saved since i began: what i saved and
\* what is newer, what another run of p is about to report or has reported.
\* The tracker entry is lost only of a completed run, or it is remembered.
RunBearsFruit(i, p) ==
    /\ work[i] \in {"saved", "completed"} =>
          /\ made[i] \in numbers[p]
          /\ \A n \in numbers[p] : n >= made[i] => n \in fresh
    /\ work[i] = "completed" =>
          \A j \in Regen : subject[j] = p /\ work[j] = "saved" => made[j] > made[i]
    /\ work[i] # "none" =>
          /\ reported[p].st = "completed" => reported[p].version \in fresh
          /\ \A j \in Regen : subject[j] = p /\ work[j] = "saved" => made[j] \in fresh
          /\ reported[p] = NoReport => work[i] = "completed" \/ i \in forgot
    /\ work[i] = "dead" => i \in forgot

\* What the panel calls done.
DoneIsFresh ==
    panel.status = "done" =>
        /\ announced.project = panel.project
        /\ panel.run \notin forgot => announced.version \in fresh

RegenInv ==
    /\ RegenerationTypeOK /\ RunsAreKnown /\ PanelOwnsItsRun /\ RunsAreNumbered
    /\ panel.status = "generating" => RunBearsFruit(panel.run, panel.project)
    /\ DoneIsFresh

\* The constants of the panel.
LEMMA RegenConstants ==
  /\ MaxRegen \in Nat \ {0} /\ MaxNumber \in Nat \ {0} /\ NoService \notin Service
  /\ Regen \subseteq Nat \ {0} /\ 0 \notin Regen /\ Regen = 1..MaxRegen
BY RegenerationAssumption DEF Regen

\* A set of version numbers that is not empty has a greatest one.
LEMMA NumbersHaveMax ==
  ASSUME NEW S \in SUBSET (1..MaxNumber), S # {}
  PROVE  Max(S) \in S /\ \A n \in S : Max(S) >= n
<1> DEFINE T == {MaxNumber - v : v \in S}
<1>1. S \subseteq Nat /\ MaxNumber \in Nat /\ \A v \in S : v <= MaxNumber
  BY RegenConstants
<1>2. T \subseteq Nat /\ T # {}
  <2>1. \A v \in S : v \in Nat /\ MaxNumber - v \in Nat
    BY <1>1
  <2>2. PICK v \in S : TRUE
    OBVIOUS
  <2>3. MaxNumber - v \in T
    OBVIOUS
  <2>. QED
    BY <2>1, <2>3
<1>3. PICK x \in T : \A y \in T : ~(<<y, x>> \in OpToRel(<, Nat))
  BY <1>2, NatLessThanWellFounded, WFMin, Zenon
<1>4. \A y \in T : x <= y
  <2> SUFFICES ASSUME NEW y \in T PROVE x <= y
    OBVIOUS
  <2>1. x \in Nat /\ y \in Nat
    BY <1>2
  <2>2. ~(y < x)
    BY <1>3, <2>1 DEF OpToRel
  <2>. QED
    BY <2>1, <2>2
<1>5. PICK v \in S : x = MaxNumber - v
  OBVIOUS
<1>6. \A w \in S : MaxNumber - w \in T
  OBVIOUS
<1> HIDE DEF T
<1>7. \A w \in S : v >= w
  BY <1>1, <1>4, <1>5, <1>6
<1>. QED
  BY <1>7 DEF Max

\* Every project has versions, and a newest one.
LEMMA NewestNumber ==
  ASSUME RegenInv, NEW p \in Service
  PROVE  /\ Max(numbers[p]) \in numbers[p] /\ Max(numbers[p]) \in 1..MaxNumber
         /\ \A n \in numbers[p] : Max(numbers[p]) >= n
<1>1. numbers[p] \in SUBSET (1..MaxNumber) /\ 1 \in numbers[p]
  BY DEF RegenInv, RegenerationTypeOK, RunsAreNumbered
<1>2. PICK S : S = numbers[p]
  OBVIOUS
<1>3. Max(S) \in S /\ \A n \in S : Max(S) >= n
  BY <1>1, <1>2, NumbersHaveMax
<1>. QED
  BY <1>1, <1>2, <1>3

\* The panel's invariant is as strong as what it promises.
LEMMA RegenInvSuffices ==
  ASSUME RegenInv
  PROVE  RegenerationTypeOK /\ PanelTellsTheTruth
<1>1. ASSUME NEW i \in Regen PROVE phase[i] \in Afoot /\ i \notin cut <=> Shown(i)
  BY <1>1 DEF RegenInv, PanelOwnsItsRun, Shown
<1>. QED
  BY <1>1 DEF RegenInv, PanelTellsTheTruth, DoneIsFresh

\* The panel begins in the invariant.
LEMMA RegenBegins == RegenerationInit => RegenInv
<1> SUFFICES ASSUME RegenerationInit PROVE RegenInv
  OBVIOUS
<1>1. RegenerationTypeOK
  <2>1. NoPanel \in [project : Service \cup {NoService},
                     status : {"idle", "suggesting", "generating", "done", "error"},
                     run : 0..MaxRegen]
    BY RegenConstants DEF NoPanel
  <2>2. 0 \in 0..MaxRegen /\ 0 \in 0..MaxNumber /\ {1} \in SUBSET (1..MaxNumber)
    BY RegenConstants
  <2>3. Nothing \in [project : Service \cup {NoService}, version : 0..MaxNumber]
    BY <2>2 DEF Nothing
  <2>4. NoReport \in [st : {"none", "generating", "completed", "failed"}, version : 0..MaxNumber]
    BY <2>2 DEF NoReport
  <2>. QED
    BY <2>1, <2>2, <2>3, <2>4 DEF RegenerationInit, RegenerationTypeOK
<1>2. RunsAreKnown
  BY RegenConstants DEF RegenerationInit, RunsAreKnown
<1>3. PanelOwnsItsRun
  BY DEF RegenerationInit, PanelOwnsItsRun, NoPanel, Afoot
<1>4. RunsAreNumbered
  BY DEF RegenerationInit, RunsAreNumbered, Laboring
<1>5. panel.status = "idle"
  BY DEF RegenerationInit, NoPanel
<1>. QED
  BY <1>1, <1>2, <1>3, <1>4, <1>5 DEF RegenInv, DoneIsFresh

\* What happens at the server keeps the invariant if it takes back nothing
\* that is remembered and the panel's run still bears fruit.
LEMMA ServerStepsKeep ==
  ASSUME RegenInv, UNCHANGED <<panel, regenSession, cut, phase, subject, announced>>,
         RegenerationTypeOK', RunsAreKnown', RunsAreNumbered',
         fresh \subseteq fresh', forgot \subseteq forgot',
         \A i \in Regen, p \in Service :
            /\ panel.status = "generating" /\ panel.run = i /\ panel.project = p
            /\ subject[i] = p /\ RunBearsFruit(i, p)
            => RunBearsFruit(i, p)'
  PROVE  RegenInv'
<1>1. PanelOwnsItsRun'
  BY DEF RegenInv, PanelOwnsItsRun, Shown
<1>2. DoneIsFresh'
  BY DEF RegenInv, DoneIsFresh
<1>3. ASSUME panel.status = "generating" PROVE RunBearsFruit(panel.run, panel.project)'
  <2>1. PICK i \in Regen, p \in Service : i = panel.run /\ p = panel.project /\ subject[i] = p
    BY <1>3 DEF RegenInv, PanelOwnsItsRun
  <2>2. RunBearsFruit(i, p)
    BY <1>3, <2>1 DEF RegenInv
  <2>3. RunBearsFruit(i, p)'
    BY <1>3, <2>1, <2>2
  <2>. QED
    BY <2>1, <2>3
<1>. QED
  BY <1>1, <1>2, <1>3 DEF RegenInv

\* A run starts at the server, alone for its project, with a new entry.
LEMMA StartsKeeps ==
  ASSUME RegenInv, NEW i \in Regen, RegenStarts(i)
  PROVE  RegenInv'
<1>0. /\ RegenerationTypeOK /\ RunsAreKnown /\ RunsAreNumbered
      /\ phase[i] # "unused" /\ work[i] = "none" /\ subject[i] \in Service
      /\ \A j \in Regen : subject[j] = subject[i] => ~Laboring(j)
      /\ work' = [work EXCEPT ![i] = "running"]
      /\ reported' = [reported EXCEPT ![subject[i]] = [st |-> "generating", version |-> 0]]
      /\ events' = [events EXCEPT ![i] = IF phase[i] = "posting" THEN "open" ELSE @]
      /\ UNCHANGED <<panel, regenSession, cut, phase, subject, announced, made, numbers, fresh,
                     forgot>>
  BY DEF RegenInv, RunsAreKnown, RegenStarts, regenClient
<1>1. /\ work'[i] = "running" /\ \A j \in Regen : j # i => work'[j] = work[j]
      /\ \A j \in Regen : events'[j] \in {events[j], "open"} /\ (j # i => events'[j] = events[j])
      /\ \A p \in Service : p # subject[i] => reported'[p] = reported[p]
      /\ reported'[subject[i]].st = "generating"
  BY <1>0 DEF RegenerationTypeOK
<1>2. RegenerationTypeOK'
  <2>1. [st |-> "generating", version |-> 0]
           \in [st : {"none", "generating", "completed", "failed"}, version : 0..MaxNumber]
    BY RegenConstants
  <2>2. reported' \in [Service -> [st : {"none", "generating", "completed", "failed"},
                                   version : 0..MaxNumber]]
    BY <1>0, <2>1 DEF RegenerationTypeOK
  <2>3. /\ work' \in [Regen -> {"none", "running", "saved", "completed", "failed", "dead"}]
        /\ events' \in [Regen -> {"none", "open", "complete", "error", "cut"}]
    BY <1>0 DEF RegenerationTypeOK
  <2>. QED
    BY <1>0, <2>2, <2>3 DEF RegenerationTypeOK
<1>3. RunsAreKnown'
  BY <1>0, <1>1 DEF RunsAreKnown
<1>4. RunsAreNumbered'
  BY <1>0, <1>1 DEF RunsAreNumbered, Laboring
<1>5. ASSUME NEW r \in Regen, NEW p \in Service, subject[r] = p, RunBearsFruit(r, p)
      PROVE  RunBearsFruit(r, p)'
  <2>1. \A j \in Regen : work'[j] = "saved" => work[j] = "saved"
    BY <1>1
  <2>2. reported'[p] = NoReport => reported[p] = NoReport /\ p # subject[i]
    BY <1>1 DEF NoReport
  <2>3. reported'[p].st = "completed" => reported'[p] = reported[p] /\ p # subject[i]
    BY <1>1
  <2>4. p # subject[i] => r # i
    BY <1>5
  <2>5. p = subject[i] => \A j \in Regen : subject[j] = p => work'[j] # "saved"
    BY <1>0, <1>1 DEF Laboring
  <2>6. CASE r = i
    BY <1>0, <1>1, <1>5, <2>2, <2>3, <2>5, <2>6 DEF RunBearsFruit
  <2>7. CASE r # i
    <3>1. work'[r] = work[r]
      BY <1>1, <2>7
    <3>. QED
      BY <1>0, <1>5, <2>1, <2>2, <2>3, <3>1 DEF RunBearsFruit
  <2>. QED
    BY <2>6, <2>7
<1>. QED
  BY <1>0, <1>2, <1>3, <1>4, <1>5, ServerStepsKeep

\* A version that is saved is newer than any, and saved since the panel's
\* run began.
LEMMA SavesKeeps ==
  ASSUME RegenInv, NEW i \in Regen, RegenSaves(i)
  PROVE  RegenInv'
<1>0. /\ RegenerationTypeOK /\ RunsAreKnown /\ RunsAreNumbered
      /\ work[i] = "running" /\ subject[i] \in Service
  BY DEF RegenInv, RunsAreKnown, RegenSaves
<1> DEFINE s == subject[i]
<1> DEFINE v == Max(numbers[s]) + 1
<1>1. /\ v <= MaxNumber
      /\ made' = [made EXCEPT ![i] = v]
      /\ numbers' = [numbers EXCEPT ![s] = @ \cup {v}]
      /\ fresh' = IF panel.project = s THEN fresh \cup {v} ELSE fresh
      /\ work' = [work EXCEPT ![i] = "saved"]
      /\ UNCHANGED <<panel, regenSession, cut, phase, subject, announced, reported, forgot, events>>
  BY DEF RegenSaves, Saved, regenClient
<1>2. v \in 2..MaxNumber /\ \A n \in numbers[s] : n < v
  <2>1. /\ Max(numbers[s]) \in 1..MaxNumber
        /\ \A n \in numbers[s] : n \in Nat /\ Max(numbers[s]) >= n
    <3>1. numbers[s] \subseteq Nat
      BY <1>0, RegenConstants DEF RegenerationTypeOK
    <3>. QED
      BY <1>0, <3>1, NewestNumber
  <2>. QED
    BY <1>1, <2>1, RegenConstants
<1> HIDE DEF v
<1>3. /\ work'[i] = "saved" /\ made'[i] = v
      /\ \A j \in Regen : j # i => work'[j] = work[j] /\ made'[j] = made[j]
      /\ numbers'[s] = numbers[s] \cup {v}
      /\ \A p \in Service : p # s => numbers'[p] = numbers[p]
  BY <1>0, <1>1 DEF RegenerationTypeOK
<1>4. RegenerationTypeOK'
  <2>1. v \in 1..MaxNumber /\ v \in 0..MaxNumber
    BY <1>2, RegenConstants
  <2>2. numbers' \in [Service -> SUBSET (1..MaxNumber)]
    BY <1>0, <1>1, <2>1 DEF RegenerationTypeOK
  <2>3. /\ work' \in [Regen -> {"none", "running", "saved", "completed", "failed", "dead"}]
        /\ made' \in [Regen -> 0..MaxNumber]
    BY <1>0, <1>1, <2>1 DEF RegenerationTypeOK
  <2>4. fresh' \subseteq 1..MaxNumber
    BY <1>0, <1>1, <2>1 DEF RegenerationTypeOK
  <2>. QED
    BY <1>0, <1>1, <2>2, <2>3, <2>4 DEF RegenerationTypeOK
<1>5. RunsAreKnown'
  <2>1. \A j \in Regen : /\ work'[j] = "none" <=> work[j] = "none"
                         /\ work[j] = "completed" => work'[j] = "completed"
    BY <1>0, <1>3
  <2>. QED
    BY <1>0, <1>1, <2>1 DEF RunsAreKnown
<1>6. RunsAreNumbered'
  <2>1. \A p \in Service : 1 \in numbers'[p]
    BY <1>0, <1>3 DEF RunsAreNumbered
  <2>2. \A j \in Regen : made'[j] # 1 /\ (work'[j] \in {"none", "running"} => made'[j] = 0)
    BY <1>0, <1>2, <1>3 DEF RunsAreNumbered
  <2>3. \A j \in Regen : Laboring(j)' <=> Laboring(j)
    BY <1>0, <1>3 DEF Laboring
  <2>. QED
    BY <1>0, <1>1, <2>1, <2>2, <2>3 DEF RunsAreNumbered
<1>7. ASSUME NEW r \in Regen, NEW p \in Service, panel.project = p, subject[r] = p,
             RunBearsFruit(r, p)
      PROVE  RunBearsFruit(r, p)'
  <2>1. CASE p # s
    <3>1. r # i /\ numbers'[p] = numbers[p] /\ fresh' = fresh
      BY <1>1, <1>3, <1>7, <2>1
    <3>2. \A j \in Regen : subject[j] = p => work'[j] = work[j] /\ made'[j] = made[j]
      BY <1>3, <2>1
    <3>. QED
      BY <1>1, <1>7, <3>1, <3>2 DEF RunBearsFruit
  <2>2. CASE p = s
    <3>1. fresh' = fresh \cup {v} /\ numbers'[p] = numbers[p] \cup {v}
      BY <1>1, <1>3, <1>7, <2>2
    <3>2. CASE r = i
      <4>1. /\ made'[r] \in numbers'[p]
            /\ \A n \in numbers'[p] : n >= made'[r] => n \in fresh'
        <5>1. \A n \in numbers[p] : n \in Nat /\ n < v
          BY <1>0, <1>2, <2>2 DEF RegenerationTypeOK
        <5>. QED
          BY <1>2, <1>3, <3>1, <3>2, <5>1
      <4>2. \A j \in Regen : subject[j] = p /\ work'[j] = "saved" => made'[j] \in fresh'
        BY <1>0, <1>3, <1>7, <3>1, <3>2 DEF RunBearsFruit
      <4>. QED
        BY <1>0, <1>1, <1>3, <1>7, <3>1, <3>2, <4>1, <4>2 DEF RunBearsFruit
    <3>3. CASE r # i
      <4>1. work'[r] = work[r] /\ made'[r] = made[r]
        BY <1>3, <3>3
      <4>2. work[r] \in {"saved", "completed"} =>
              /\ made[r] \in numbers'[p] /\ made[r] < v
              /\ \A n \in numbers'[p] : n >= made[r] => n \in fresh'
        BY <1>2, <1>7, <2>2, <3>1 DEF RunBearsFruit
      <4>3. work[r] # "none" =>
              \A j \in Regen : subject[j] = p /\ work'[j] = "saved" => made'[j] \in fresh'
        BY <1>3, <1>7, <3>1 DEF RunBearsFruit
      <4>4. work[r] = "completed" =>
              \A j \in Regen : subject[j] = p /\ work'[j] = "saved" => made'[j] > made[r]
        <5> SUFFICES ASSUME work[r] = "completed", NEW j \in Regen, subject[j] = p,
                            work'[j] = "saved"
                     PROVE  made'[j] > made[r]
          OBVIOUS
        <5>1. made[r] \in Int
          BY <1>0, RegenConstants DEF RegenerationTypeOK
        <5>2. CASE j = i
          BY <1>2, <1>3, <4>2, <5>1, <5>2
        <5>3. CASE j # i
          BY <1>3, <1>7, <5>3 DEF RunBearsFruit
        <5>. QED
          BY <5>2, <5>3
      <4>. QED
        BY <1>1, <1>7, <3>1, <4>1, <4>2, <4>3, <4>4 DEF RunBearsFruit
    <3>. QED
      BY <3>2, <3>3
  <2>. QED
    BY <2>1, <2>2
<1>8. fresh \subseteq fresh'
  BY <1>1
<1> HIDE DEF s
<1>. QED
  BY <1>1, <1>4, <1>5, <1>6, <1>7, <1>8, ServerStepsKeep

\* A run that completes reports the version it saved.
LEMMA CompletesKeeps ==
  ASSUME RegenInv, NEW i \in Regen, RegenCompletes(i)
  PROVE  RegenInv'
<1>0. /\ RegenerationTypeOK /\ RunsAreKnown /\ RunsAreNumbered
      /\ work[i] = "saved" /\ subject[i] \in Service
      /\ work' = [work EXCEPT ![i] = "completed"]
      /\ reported' = [reported EXCEPT ![subject[i]] =
                         IF @ = NoReport THEN @ ELSE [st |-> "completed", version |-> made[i]]]
      /\ events' = [events EXCEPT ![i] = IF @ = "open" THEN "complete" ELSE @]
      /\ UNCHANGED <<panel, regenSession, cut, phase, subject, announced, made, numbers, fresh,
                     forgot>>
  BY DEF RegenInv, RunsAreKnown, RegenCompletes, Entered, Sent, regenClient
<1>1. /\ work'[i] = "completed" /\ \A j \in Regen : j # i => work'[j] = work[j]
      /\ \A j \in Regen : j # i => events'[j] = events[j]
      /\ events'[i] # "none" => events[i] # "none"
      /\ \A p \in Service : p # subject[i] => reported'[p] = reported[p]
      /\ reported'[subject[i]] = IF reported[subject[i]] = NoReport THEN NoReport
                                 ELSE [st |-> "completed", version |-> made[i]]
  BY <1>0 DEF RegenerationTypeOK
<1>2. RegenerationTypeOK'
  <2>1. [st |-> "completed", version |-> made[i]]
           \in [st : {"none", "generating", "completed", "failed"}, version : 0..MaxNumber]
    BY <1>0 DEF RegenerationTypeOK
  <2>2. reported' \in [Service -> [st : {"none", "generating", "completed", "failed"},
                                   version : 0..MaxNumber]]
    BY <1>0, <2>1 DEF RegenerationTypeOK
  <2>3. /\ work' \in [Regen -> {"none", "running", "saved", "completed", "failed", "dead"}]
        /\ events' \in [Regen -> {"none", "open", "complete", "error", "cut"}]
    BY <1>0 DEF RegenerationTypeOK
  <2>. QED
    BY <1>0, <2>2, <2>3 DEF RegenerationTypeOK
<1>3. RunsAreKnown'
  BY <1>0, <1>1 DEF RunsAreKnown
<1>4. RunsAreNumbered'
  BY <1>0, <1>1 DEF RunsAreNumbered, Laboring
<1>5. ASSUME NEW r \in Regen, NEW p \in Service, subject[r] = p, RunBearsFruit(r, p)
      PROVE  RunBearsFruit(r, p)'
  <2>1. \A j \in Regen : work'[j] = "saved" => work[j] = "saved" /\ j # i
    BY <1>1
  <2>2. \A j \in Regen : work[j] = "saved" /\ subject[j] = subject[i] => j = i
    BY <1>0 DEF RunsAreNumbered, Laboring
  <2>3. reported'[p] = NoReport => reported[p] = NoReport
    <3>1. [st |-> "completed", version |-> made[i]] # NoReport
      <4>1. [st |-> "completed", version |-> made[i]].st = "completed"
        OBVIOUS
      <4>. QED
        BY <4>1 DEF NoReport
    <3>2. CASE p = subject[i]
      BY <1>1, <3>1, <3>2
    <3>3. CASE p # subject[i]
      BY <1>1, <3>3
    <3>. QED
      BY <3>2, <3>3
  <2>4. p = subject[i] /\ work[r] # "none" => made[i] \in fresh
    BY <1>0, <1>5 DEF RunBearsFruit
  <2>5. work[r] # "none" /\ reported'[p].st = "completed" => reported'[p].version \in fresh
    <3>1. CASE p = subject[i]
      BY <1>1, <2>4, <3>1 DEF NoReport
    <3>2. CASE p # subject[i]
      BY <1>1, <1>5, <3>2 DEF RunBearsFruit
    <3>. QED
      BY <3>1, <3>2
  <2>6. CASE r = i
    <3>1. \A j \in Regen : subject[j] = p => work'[j] # "saved"
      BY <1>5, <2>1, <2>2, <2>6
    <3>. QED
      BY <1>0, <1>1, <1>5, <2>3, <2>5, <2>6, <3>1 DEF RunBearsFruit
  <2>7. CASE r # i
    <3>1. work'[r] = work[r]
      BY <1>1, <2>7
    <3>. QED
      BY <1>0, <1>5, <2>1, <2>3, <2>5, <3>1 DEF RunBearsFruit
  <2>. QED
    BY <2>6, <2>7
<1>. QED
  BY <1>0, <1>2, <1>3, <1>4, <1>5, ServerStepsKeep

\* A run that breaks takes back at most the version it saved, which no
\* completed run has.
LEMMA BreaksKeeps ==
  ASSUME RegenInv, NEW i \in Regen, RegenBreaks(i)
  PROVE  RegenInv'
<1>0. /\ RegenerationTypeOK /\ RunsAreKnown /\ RunsAreNumbered
      /\ Laboring(i) /\ work[i] \in {"running", "saved"} /\ subject[i] \in Service
      /\ work' = [work EXCEPT ![i] = "failed"]
      /\ numbers' \in {numbers, [numbers EXCEPT ![subject[i]] = @ \ {made[i]}]}
      /\ reported' = [reported EXCEPT ![subject[i]] =
                         IF @ = NoReport THEN @ ELSE [st |-> "failed", version |-> 0]]
      /\ events' = [events EXCEPT ![i] = IF @ = "open" THEN "error" ELSE @]
      /\ UNCHANGED <<panel, regenSession, cut, phase, subject, announced, made, fresh, forgot>>
  BY DEF RegenInv, RunsAreKnown, RegenBreaks, Entered, Sent, Laboring, regenClient
<1>1. /\ work'[i] = "failed" /\ \A j \in Regen : j # i => work'[j] = work[j]
      /\ \A j \in Regen : j # i => events'[j] = events[j]
      /\ events'[i] \in {events[i], "error"} /\ (events'[i] # "none" => events[i] # "none")
      /\ \A p \in Service : p # subject[i] => reported'[p] = reported[p]
      /\ reported'[subject[i]] = IF reported[subject[i]] = NoReport THEN NoReport
                                 ELSE [st |-> "failed", version |-> 0]
      /\ \A p \in Service : p # subject[i] => numbers'[p] = numbers[p]
      /\ numbers'[subject[i]] \in {numbers[subject[i]], numbers[subject[i]] \ {made[i]}}
  BY <1>0 DEF RegenerationTypeOK
<1>2. RegenerationTypeOK'
  <2>1. [st |-> "failed", version |-> 0]
           \in [st : {"none", "generating", "completed", "failed"}, version : 0..MaxNumber]
    BY RegenConstants
  <2>2. reported' \in [Service -> [st : {"none", "generating", "completed", "failed"},
                                   version : 0..MaxNumber]]
    BY <1>0, <2>1 DEF RegenerationTypeOK
  <2>3. /\ work' \in [Regen -> {"none", "running", "saved", "completed", "failed", "dead"}]
        /\ events' \in [Regen -> {"none", "open", "complete", "error", "cut"}]
    BY <1>0 DEF RegenerationTypeOK
  <2>4. numbers' \in [Service -> SUBSET (1..MaxNumber)]
    BY <1>0 DEF RegenerationTypeOK
  <2>. QED
    BY <1>0, <2>2, <2>3, <2>4 DEF RegenerationTypeOK
<1>3. RunsAreKnown'
  BY <1>0, <1>1 DEF RunsAreKnown
<1>4. RunsAreNumbered'
  <2>1. \A p \in Service : 1 \in numbers'[p]
    BY <1>0, <1>1 DEF RunsAreNumbered
  <2>2. \A j \in Regen : Laboring(j)' => Laboring(j)
    BY <1>0, <1>1 DEF Laboring
  <2>. QED
    BY <1>0, <1>1, <2>1, <2>2 DEF RunsAreNumbered
<1>5. ASSUME NEW r \in Regen, NEW p \in Service, subject[r] = p, RunBearsFruit(r, p)
      PROVE  RunBearsFruit(r, p)'
  <2>1. \A j \in Regen : work'[j] = "saved" => work[j] = "saved"
    BY <1>1
  <2>2. reported'[p] = NoReport => reported[p] = NoReport
    <3>1. CASE p = subject[i]
      BY <1>1, <3>1 DEF NoReport
    <3>2. CASE p # subject[i]
      BY <1>1, <3>2
    <3>. QED
      BY <3>1, <3>2
  <2>3. reported'[p].st = "completed" => reported'[p] = reported[p]
    BY <1>1 DEF NoReport
  <2>4. numbers'[p] \subseteq numbers[p]
    BY <1>1
  <2>5. CASE r = i
    <3>1. reported[p] # NoReport \/ r \in forgot
      BY <1>0, <1>5, <2>5 DEF RunBearsFruit
    <3>. QED
      BY <1>0, <1>1, <1>5, <2>1, <2>2, <2>3, <2>5, <3>1 DEF RunBearsFruit
  <2>6. CASE r # i
    <3>1. work'[r] = work[r]
      BY <1>1, <2>6
    <3>2. work[r] \in {"saved", "completed"} => made[r] \in numbers'[p]
      <4> SUFFICES ASSUME work[r] \in {"saved", "completed"} PROVE made[r] \in numbers'[p]
        OBVIOUS
      <4>1. made[r] \in numbers[p] /\ made[r] \in Nat /\ made[r] # 0
        BY <1>0, <1>5, RegenConstants DEF RunBearsFruit, RegenerationTypeOK
      <4>2. CASE p # subject[i]
        BY <1>1, <4>1, <4>2
      <4>3. CASE p = subject[i]
        <5>1. work[r] = "completed"
          <6>1. ~Laboring(r)
            BY <1>0, <1>5, <2>6, <4>3 DEF RunsAreNumbered
          <6>. QED
            BY <6>1 DEF Laboring
        <5>2. made[i] # made[r]
          <6>1. CASE work[i] = "running"
            BY <1>0, <4>1, <6>1 DEF RunsAreNumbered
          <6>2. CASE work[i] = "saved"
            <7>1. made[i] > made[r]
              BY <1>5, <4>3, <5>1, <6>2 DEF RunBearsFruit
            <7>. QED
              BY <4>1, <7>1
          <6>. QED
            BY <1>0, <6>1, <6>2
        <5>. QED
          BY <1>1, <4>1, <4>3, <5>2
      <4>. QED
        BY <4>2, <4>3
    <3>. QED
      BY <1>0, <1>5, <2>1, <2>2, <2>3, <2>4, <3>1, <3>2 DEF RunBearsFruit
  <2>. QED
    BY <2>5, <2>6
<1>. QED
  BY <1>0, <1>2, <1>3, <1>4, <1>5, ServerStepsKeep

\* Going back to an older version saves a newer one.
LEMMA RollBackKeeps ==
  ASSUME RegenInv, NEW s \in Service, RollBack(s)
  PROVE  RegenInv'
<1> DEFINE v == Max(numbers[s]) + 1
<1>0. /\ RegenerationTypeOK /\ RunsAreKnown /\ RunsAreNumbered
      /\ Max(numbers[s]) < MaxNumber
      /\ numbers' = [numbers EXCEPT ![s] = @ \cup {v}]
      /\ fresh' = IF panel.project = s THEN fresh \cup {v} ELSE fresh
      /\ UNCHANGED <<panel, regenSession, cut, phase, subject, announced, work, made, reported,
                     forgot, events>>
  BY DEF RegenInv, RollBack, Saved, regenClient
<1>1. v \in 1..MaxNumber
  <2>1. Max(numbers[s]) \in 1..MaxNumber
    BY NewestNumber
  <2>. QED
    BY <1>0, <2>1, RegenConstants
<1> HIDE DEF v
<1>2. /\ numbers'[s] = numbers[s] \cup {v}
      /\ \A p \in Service : p # s => numbers'[p] = numbers[p]
  BY <1>0 DEF RegenerationTypeOK
<1>3. RegenerationTypeOK'
  <2>1. numbers' \in [Service -> SUBSET (1..MaxNumber)] /\ fresh' \subseteq 1..MaxNumber
    BY <1>0, <1>1 DEF RegenerationTypeOK
  <2>. QED
    BY <1>0, <2>1 DEF RegenerationTypeOK
<1>4. RunsAreKnown'
  BY <1>0 DEF RunsAreKnown
<1>5. RunsAreNumbered'
  <2>1. \A p \in Service : 1 \in numbers'[p]
    BY <1>0, <1>2 DEF RunsAreNumbered
  <2>. QED
    BY <1>0, <2>1 DEF RunsAreNumbered, Laboring
<1>6. fresh \subseteq fresh'
  BY <1>0
<1>7. ASSUME NEW r \in Regen, NEW p \in Service, panel.project = p, RunBearsFruit(r, p)
      PROVE  RunBearsFruit(r, p)'
  <2>1. \A n \in numbers'[p] : n \in numbers[p] \/ n \in fresh'
    BY <1>0, <1>2, <1>7
  <2>2. numbers[p] \subseteq numbers'[p]
    BY <1>2
  <2>. QED
    BY <1>0, <1>6, <1>7, <2>1, <2>2 DEF RunBearsFruit
<1>. QED
  BY <1>0, <1>3, <1>4, <1>5, <1>6, <1>7, ServerStepsKeep

\* A connection that breaks changes only what the client reads next.
LEMMA DisconnectsKeeps ==
  ASSUME RegenInv, NEW i \in Regen, Disconnects(i)
  PROVE  RegenInv'
<1>0. /\ RegenerationTypeOK /\ RunsAreKnown /\ RunsAreNumbered
      /\ events[i] \in {"open", "complete", "error"}
      /\ events' = [events EXCEPT ![i] = "cut"]
      /\ UNCHANGED <<panel, regenSession, cut, phase, subject, announced, work, made, numbers,
                     reported, fresh, forgot>>
  BY DEF RegenInv, Disconnects, regenClient, regenServer
<1>1. RegenerationTypeOK'
  <2>1. events' \in [Regen -> {"none", "open", "complete", "error", "cut"}]
    BY <1>0 DEF RegenerationTypeOK
  <2>. QED
    BY <1>0, <2>1 DEF RegenerationTypeOK
<1>2. RunsAreKnown'
  <2>1. \A j \in Regen : j # i => events'[j] = events[j]
    BY <1>0 DEF RegenerationTypeOK
  <2>2. events'[i] = "cut" /\ events[i] # "none"
    BY <1>0 DEF RegenerationTypeOK
  <2>. QED
    BY <1>0, <2>1, <2>2 DEF RunsAreKnown
<1>3. RunsAreNumbered'
  BY <1>0 DEF RunsAreNumbered, Laboring
<1>4. ASSUME NEW r \in Regen, NEW p \in Service, RunBearsFruit(r, p)
      PROVE  RunBearsFruit(r, p)'
  BY <1>0, <1>4 DEF RunBearsFruit
<1>. QED
  BY <1>0, <1>1, <1>2, <1>3, <1>4, ServerStepsKeep

\* The entry of a run that has not completed is not lost unremembered.
LEMMA EntryLostKeeps ==
  ASSUME RegenInv, NEW s \in Service, EntryLost(s)
  PROVE  RegenInv'
<1>0. /\ RegenerationTypeOK /\ RunsAreKnown /\ RunsAreNumbered
      /\ reported' = [reported EXCEPT ![s] = NoReport]
      /\ forgot' = forgot \cup (Unmade(s) \cap {panel.run})
      /\ UNCHANGED <<panel, regenSession, cut, phase, subject, announced, work, made, numbers, fresh,
                     events>>
  BY DEF RegenInv, EntryLost, regenClient
<1>1. NoReport \in [st : {"none", "generating", "completed", "failed"}, version : 0..MaxNumber]
  BY RegenConstants DEF NoReport
<1>2. RegenerationTypeOK'
  <2>1. reported' \in [Service -> [st : {"none", "generating", "completed", "failed"},
                                   version : 0..MaxNumber]]
    BY <1>0, <1>1 DEF RegenerationTypeOK
  <2>2. forgot' \subseteq Regen
    BY <1>0 DEF RegenerationTypeOK, Unmade
  <2>. QED
    BY <1>0, <2>1, <2>2 DEF RegenerationTypeOK
<1>3. RunsAreKnown' /\ RunsAreNumbered'
  BY <1>0 DEF RunsAreKnown, RunsAreNumbered, Laboring
<1>4. ASSUME NEW r \in Regen, NEW p \in Service, panel.run = r, subject[r] = p,
             RunBearsFruit(r, p)
      PROVE  RunBearsFruit(r, p)'
  <2>1. forgot \subseteq forgot'
    BY <1>0
  <2>2. reported'[p].st = "completed" => reported'[p] = reported[p]
    BY <1>0 DEF RegenerationTypeOK, NoReport
  <2>3. work[r] # "none" /\ reported'[p] = NoReport => work[r] = "completed" \/ r \in forgot'
    <3>1. CASE p = s
      <4>1. work[r] \in {"running", "saved", "failed"} => r \in forgot'
        BY <1>0, <1>4, <3>1 DEF Unmade
      <4>2. work[r] \in {"none", "running", "saved", "completed", "failed", "dead"}
        BY <1>0 DEF RegenerationTypeOK
      <4>. QED
        BY <1>4, <2>1, <4>1, <4>2 DEF RunBearsFruit
    <3>2. CASE p # s
      <4>1. reported'[p] = reported[p]
        BY <1>0, <3>2 DEF RegenerationTypeOK
      <4>. QED
        BY <1>4, <2>1, <4>1 DEF RunBearsFruit
    <3>. QED
      BY <3>1, <3>2
  <2>. QED
    BY <1>0, <1>4, <2>1, <2>2, <2>3 DEF RunBearsFruit
<1>. QED
  BY <1>0, <1>2, <1>3, <1>4, ServerStepsKeep

\* Neither is it when the server dies.
LEMMA ServerDiesKeeps ==
  ASSUME RegenInv, ServerDies
  PROVE  RegenInv'
<1>0. /\ RegenerationTypeOK /\ RunsAreKnown /\ RunsAreNumbered
      /\ work' = [i \in Regen |-> IF Laboring(i) THEN "dead" ELSE work[i]]
      /\ forgot' = forgot \cup ((UNION {Unmade(p) : p \in Service}) \cap {panel.run})
      /\ reported' = [p \in Service |-> NoReport]
      /\ events' = [i \in Regen |-> IF events[i] = "open" THEN "cut" ELSE events[i]]
      /\ UNCHANGED <<panel, regenSession, cut, phase, subject, announced, made, numbers, fresh>>
  BY DEF RegenInv, ServerDies, regenClient
<1>1. /\ NoReport \in [st : {"none", "generating", "completed", "failed"}, version : 0..MaxNumber]
      /\ NoReport.st # "completed"
  BY RegenConstants DEF NoReport
<1>2. /\ \A i \in Regen : work'[i] = IF work[i] \in {"running", "saved"} THEN "dead" ELSE work[i]
      /\ \A i \in Regen : events'[i] = IF events[i] = "open" THEN "cut" ELSE events[i]
      /\ \A p \in Service : reported'[p] = NoReport
  BY <1>0 DEF Laboring
<1>3. RegenerationTypeOK'
  <2>1. reported' \in [Service -> [st : {"none", "generating", "completed", "failed"},
                                   version : 0..MaxNumber]]
    BY <1>0, <1>1
  <2>2. forgot' \subseteq Regen
    BY <1>0 DEF RegenerationTypeOK, Unmade
  <2>3. /\ work' \in [Regen -> {"none", "running", "saved", "completed", "failed", "dead"}]
        /\ events' \in [Regen -> {"none", "open", "complete", "error", "cut"}]
    BY <1>0 DEF RegenerationTypeOK
  <2>. QED
    BY <1>0, <2>1, <2>2, <2>3 DEF RegenerationTypeOK
<1>4. RunsAreKnown'
  BY <1>0, <1>2 DEF RunsAreKnown
<1>5. RunsAreNumbered'
  <2>1. \A i \in Regen : ~Laboring(i)'
    BY <1>2 DEF Laboring
  <2>2. \A i \in Regen : work'[i] \in {"none", "running"} => work[i] \in {"none", "running"}
    BY <1>2
  <2>. QED
    BY <1>0, <2>1, <2>2 DEF RunsAreNumbered
<1>6. ASSUME NEW r \in Regen, NEW p \in Service, panel.run = r, subject[r] = p,
             RunBearsFruit(r, p)
      PROVE  RunBearsFruit(r, p)'
  <2>1. forgot \subseteq forgot'
    BY <1>0
  <2>2. work[r] \in {"running", "saved", "failed"} => r \in forgot'
    <3> SUFFICES ASSUME work[r] \in {"running", "saved", "failed"} PROVE r \in forgot'
      OBVIOUS
    <3>1. r \in Unmade(p)
      BY <1>6 DEF Unmade
    <3>2. r \in (UNION {Unmade(q) : q \in Service}) \cap {panel.run}
      BY <1>6, <3>1
    <3>. QED
      BY <1>0, <3>2
  <2>3. work[r] \in {"none", "running", "saved", "completed", "failed", "dead"}
    BY <1>0 DEF RegenerationTypeOK
  <2>4. work'[r] # "none" => work'[r] = "completed" \/ r \in forgot'
    BY <1>2, <1>6, <2>1, <2>2, <2>3 DEF RunBearsFruit
  <2>5. work'[r] = "dead" => r \in forgot'
    BY <2>4
  <2>6. \A j \in Regen : work'[j] # "saved"
    BY <1>2
  <2>7. work'[r] = "completed" => work[r] = "completed"
    BY <1>2
  <2>. QED
    BY <1>0, <1>1, <1>2, <1>6, <2>4, <2>5, <2>6, <2>7 DEF RunBearsFruit
<1>7. forgot \subseteq forgot'
  BY <1>0
<1>. QED
  BY <1>0, <1>3, <1>4, <1>5, <1>6, <1>7, ServerStepsKeep

\* The panel opens, closes and asks for suggestions; none of it makes a
\* run it waits for.
LEMMA PanelStepsKeep ==
  ASSUME RegenInv,
         \/ \E p \in Service : OpenPanel(p)
         \/ AskHints \/ HintsArrive \/ HandleReset
  PROVE  RegenInv'
<1>0. /\ RegenerationTypeOK /\ RunsAreKnown /\ RunsAreNumbered /\ PanelOwnsItsRun
      /\ panel.status # "generating"
      /\ panel' # NoPanel => panel'.project \in Service
      /\ panel'.status \in {"idle", "suggesting"}
      /\ panel' \in [project : Service \cup {NoService},
                     status : {"idle", "suggesting", "generating", "done", "error"},
                     run : 0..MaxRegen]
      /\ UNCHANGED <<regenSession, cut, phase, subject, announced, work, made, numbers, reported,
                     fresh, forgot, events>>
  <2>0. /\ RegenerationTypeOK /\ RunsAreKnown /\ RunsAreNumbered /\ PanelOwnsItsRun
    BY DEF RegenInv
  <2>1. /\ panel \in [project : Service \cup {NoService},
                      status : {"idle", "suggesting", "generating", "done", "error"},
                      run : 0..MaxRegen]
        /\ panel # NoPanel => panel.project \in Service
    BY <2>0 DEF RegenerationTypeOK, PanelOwnsItsRun
  <2>2. UNCHANGED <<regenSession, cut, phase, subject, announced, work, made, numbers, reported,
                     fresh, forgot, events>>
    BY DEF OpenPanel, AskHints, HintsArrive, HandleReset, regenServer
  <2>3. ASSUME NEW p \in Service, OpenPanel(p)
        PROVE  /\ panel.status # "generating"
               /\ panel'.project \in Service /\ panel'.status = "idle"
               /\ panel' \in [project : Service \cup {NoService},
                              status : {"idle", "suggesting", "generating", "done", "error"},
                              run : 0..MaxRegen]
    BY <2>3, RegenConstants DEF OpenPanel, NoPanel
  <2>4. CASE AskHints \/ HintsArrive \/ HandleReset
    <3>1. PICK st \in {"idle", "suggesting"} : panel' = [panel EXCEPT !.status = st]
      BY <2>4 DEF AskHints, HintsArrive, HandleReset
    <3>2. panel # NoPanel /\ panel.status # "generating"
      BY <2>4 DEF AskHints, HintsArrive, HandleReset, Pressable
    <3>. QED
      BY <2>0, <2>1, <2>2, <3>1, <3>2
  <2>. QED
    BY <2>0, <2>2, <2>3, <2>4
<1>1. RegenerationTypeOK'
  BY <1>0 DEF RegenerationTypeOK
<1>2. RunsAreKnown' /\ RunsAreNumbered'
  BY <1>0 DEF RunsAreKnown, RunsAreNumbered, Laboring
<1>3. PanelOwnsItsRun'
  BY <1>0 DEF PanelOwnsItsRun, Shown
<1>. QED
  BY <1>0, <1>1, <1>2, <1>3 DEF RegenInv, DoneIsFresh

\* The runs a client's step cuts have all begun.
LEMMA CutTypes ==
  ASSUME RegenInv
  PROVE  /\ cut \cup ({regenSession} \ {0}) \subseteq Regen
         /\ \A i \in cut \cup ({regenSession} \ {0}) : phase[i] # "unused"
<1>1. regenSession # 0 => regenSession \in Regen /\ phase[regenSession] # "unused"
  BY RegenConstants DEF RegenInv, RegenerationTypeOK, RunsAreKnown
<1>2. cut \subseteq Regen /\ \A i \in cut : phase[i] # "unused"
  BY DEF RegenInv, RegenerationTypeOK, RunsAreKnown
<1>. QED
  BY <1>1, <1>2

\* A panel that closes silences its run.
LEMMA ClosesKeeps ==
  ASSUME RegenInv, ClosePanel
  PROVE  RegenInv'
<1>0. /\ RegenerationTypeOK /\ RunsAreKnown /\ RunsAreNumbered /\ PanelOwnsItsRun
      /\ panel' = NoPanel
      /\ cut' = cut \cup ({regenSession} \ {0})
      /\ regenSession' = 0
      /\ announced' = Nothing /\ fresh' = {} /\ forgot' = {}
      /\ UNCHANGED <<phase, subject, work, made, numbers, reported, events>>
  BY DEF RegenInv, ClosePanel, Aborting, Forgetting
<1>1. RegenerationTypeOK'
  <2>1. /\ NoPanel \in [project : Service \cup {NoService},
                        status : {"idle", "suggesting", "generating", "done", "error"},
                        run : 0..MaxRegen]
        /\ Nothing \in [project : Service \cup {NoService}, version : 0..MaxNumber]
        /\ 0 \in 0..MaxRegen
    BY RegenConstants DEF NoPanel, Nothing
  <2>2. cut' \subseteq Regen
    BY <1>0, CutTypes
  <2>. QED
    BY <1>0, <2>1, <2>2 DEF RegenerationTypeOK
<1>2. RunsAreKnown'
  <2>1. \A i \in Regen : phase[i] = "unused" => i \notin cut'
    BY <1>0, CutTypes
  <2>. QED
    BY <1>0, <2>1 DEF RunsAreKnown
<1>3. RunsAreNumbered'
  BY <1>0 DEF RunsAreNumbered, Laboring
<1>4. panel'.status = "idle"
  BY <1>0 DEF NoPanel
<1>5. PanelOwnsItsRun'
  <2>1. ASSUME NEW i \in Regen, phase[i] \in Afoot PROVE i \in cut'
    <3>1. CASE i \in cut
      BY <1>0, <3>1
    <3>2. CASE i \notin cut
      <4>1. i = regenSession
        BY <1>0, <2>1, <3>2 DEF PanelOwnsItsRun, Shown
      <4>2. i # 0
        BY RegenConstants
      <4>. QED
        BY <1>0, <4>1, <4>2
    <3>. QED
      BY <3>1, <3>2
  <2>. QED
    BY <1>0, <1>4, <2>1 DEF PanelOwnsItsRun
<1>. QED
  BY <1>1, <1>2, <1>3, <1>4, <1>5 DEF RegenInv, DoneIsFresh

\* A run that is begun is the panel's, and the only one that may speak.
LEMMA RegenerateKeeps ==
  ASSUME RegenInv, NEW i \in Regen, Regenerate(i)
  PROVE  RegenInv'
<1>0. /\ RegenerationTypeOK /\ RunsAreKnown /\ RunsAreNumbered /\ PanelOwnsItsRun
      /\ phase[i] = "unused" /\ panel # NoPanel /\ panel.status \in {"idle", "error"}
      /\ panel' = [panel EXCEPT !.status = "generating", !.run = i]
      /\ cut' = cut \cup ({regenSession} \ {0})
      /\ regenSession' = i
      /\ phase' = [phase EXCEPT ![i] = "posting"]
      /\ subject' = [subject EXCEPT ![i] = panel.project]
      /\ announced' = Nothing /\ fresh' = {} /\ forgot' = {}
      /\ UNCHANGED <<work, made, numbers, reported, events>>
  BY DEF RegenInv, Regenerate, Pressable, Aborting, Forgetting
<1>1. /\ panel.project \in Service /\ work[i] = "none"
      /\ i \notin cut'
  BY <1>0, CutTypes DEF PanelOwnsItsRun, RunsAreKnown
<1>2. /\ panel' \in [project : Service \cup {NoService},
                     status : {"idle", "suggesting", "generating", "done", "error"},
                     run : 0..MaxRegen]
      /\ panel'.status = "generating" /\ panel'.run = i /\ panel'.project = panel.project
      /\ panel' # NoPanel
  <2>1. panel \in [project : Service \cup {NoService},
                   status : {"idle", "suggesting", "generating", "done", "error"},
                   run : 0..MaxRegen]
    BY <1>0 DEF RegenerationTypeOK
  <2>2. i \in 0..MaxRegen
    BY RegenConstants
  <2>3. /\ panel' \in [project : Service \cup {NoService},
                       status : {"idle", "suggesting", "generating", "done", "error"},
                       run : 0..MaxRegen]
        /\ panel'.status = "generating" /\ panel'.run = i /\ panel'.project = panel.project
    BY <1>0, <2>1, <2>2
  <2>. QED
    BY <2>3 DEF NoPanel
<1>3. /\ phase'[i] = "posting" /\ \A j \in Regen : j # i => phase'[j] = phase[j]
      /\ subject'[i] = panel.project /\ \A j \in Regen : j # i => subject'[j] = subject[j]
  BY <1>0 DEF RegenerationTypeOK
<1>4. RegenerationTypeOK'
  <2>1. /\ cut' \subseteq Regen /\ regenSession' \in 0..MaxRegen
        /\ Nothing \in [project : Service \cup {NoService}, version : 0..MaxNumber]
    BY <1>0, CutTypes, RegenConstants DEF Nothing
  <2>2. /\ phase' \in [Regen -> {"unused", "over"} \cup Afoot]
        /\ subject' \in [Regen -> Service \cup {NoService}]
    BY <1>0, <1>1 DEF RegenerationTypeOK, Afoot
  <2>. QED
    BY <1>0, <1>2, <2>1, <2>2 DEF RegenerationTypeOK
<1>5. RunsAreKnown'
  <2>1. \A j \in Regen : phase'[j] = "unused" => j \notin cut' /\ j # i
    BY <1>0, <1>3, CutTypes
  <2>2. phase'[regenSession'] # "unused"
    BY <1>0, <1>3
  <2>. QED
    BY <1>0, <1>1, <1>3, <2>1, <2>2 DEF RunsAreKnown
<1>6. RunsAreNumbered'
  <2>1. ~Laboring(i)
    BY <1>1 DEF Laboring
  <2>2. \A j \in Regen : Laboring(j)' <=> Laboring(j)
    BY <1>0 DEF Laboring
  <2>. QED
    BY <1>0, <1>3, <2>1, <2>2 DEF RunsAreNumbered
<1>7. PanelOwnsItsRun'
  <2>1. ASSUME NEW j \in Regen, phase'[j] \in Afoot, j \notin cut' PROVE Shown(j)'
    <3>1. CASE j = i
      BY <1>2, <3>1 DEF Shown
    <3>2. CASE j # i
      <4>1. phase[j] \in Afoot /\ j \notin cut
        BY <1>0, <1>3, <2>1, <3>2
      <4>. QED
        BY <1>0, <4>1 DEF PanelOwnsItsRun, Shown
    <3>. QED
      BY <3>1, <3>2
  <2>. QED
    BY <1>0, <1>1, <1>2, <1>3, <2>1 DEF PanelOwnsItsRun, Afoot
<1>8. RunBearsFruit(panel.run, panel.project)'
  BY <1>0, <1>1, <1>2 DEF RunBearsFruit
<1>. QED
  BY <1>2, <1>4, <1>5, <1>6, <1>7, <1>8 DEF RegenInv, DoneIsFresh

\* A run of the panel goes from one of its phases to another.
LEMMA PhasesKeep ==
  ASSUME RegenInv, NEW i \in Regen, phase[i] \in Afoot, NEW q \in Afoot,
         q # "posting" => work[i] # "none",
         phase' = [phase EXCEPT ![i] = q],
         events' \in {events, [events EXCEPT ![i] = "none"]},
         UNCHANGED <<panel, regenSession, cut, subject, announced, work, made, numbers, reported,
                     fresh, forgot>>
  PROVE  RegenInv'
<1>0. RegenerationTypeOK /\ RunsAreKnown /\ RunsAreNumbered /\ PanelOwnsItsRun
  BY DEF RegenInv
<1>1. /\ phase'[i] = q /\ \A j \in Regen : j # i => phase'[j] = phase[j]
      /\ \A j \in Regen : events'[j] \in {events[j], "none"}
      /\ "unused" \notin Afoot
  BY <1>0 DEF RegenerationTypeOK, Afoot
<1>2. RegenerationTypeOK'
  <2>1. phase' \in [Regen -> {"unused", "over"} \cup Afoot]
    BY <1>0 DEF RegenerationTypeOK
  <2>2. events' \in [Regen -> {"none", "open", "complete", "error", "cut"}]
    BY <1>0 DEF RegenerationTypeOK
  <2>. QED
    BY <1>0, <2>1, <2>2 DEF RegenerationTypeOK
<1>3. RunsAreKnown'
  <2>1. \A j \in Regen : phase'[j] = "unused" <=> phase[j] = "unused"
    BY <1>1
  <2>2. \A j \in Regen : phase'[j] \in {"reading", "polling", "waiting"} => work[j] # "none"
    BY <1>0, <1>1 DEF RunsAreKnown
  <2>3. regenSession # 0 => phase'[regenSession] # "unused"
    <3>1. regenSession # 0 => regenSession \in Regen
      BY <1>0, RegenConstants DEF RegenerationTypeOK
    <3>. QED
      BY <1>0, <2>1, <3>1 DEF RunsAreKnown
  <2>. QED
    BY <1>0, <1>1, <2>1, <2>2, <2>3 DEF RunsAreKnown
<1>4. RunsAreNumbered'
  BY <1>0 DEF RunsAreNumbered, Laboring
<1>5. PanelOwnsItsRun'
  <2>1. \A j \in Regen : phase'[j] \in Afoot <=> phase[j] \in Afoot
    BY <1>1
  <2>. QED
    BY <1>0, <2>1 DEF PanelOwnsItsRun, Shown
<1>6. panel.status = "generating" => RunBearsFruit(panel.run, panel.project)'
  BY DEF RegenInv, RunBearsFruit
<1>. QED
  BY <1>2, <1>3, <1>4, <1>5, <1>6 DEF RegenInv, DoneIsFresh

\* A run that may speak ends, and the panel shows how: what it calls done
\* is fresh if the tracker entry was not lost.
LEMMA EndsKeep ==
  ASSUME RegenInv, NEW i \in Regen, i \notin cut, phase[i] \in Afoot,
         cut' \in {cut, cut \cup {i}},
         NEW st \in {"done", "error"}, panel' = [panel EXCEPT !.status = st],
         Over(i),
         UNCHANGED <<work, made, numbers, reported, fresh, forgot>>,
         announced' \in [project : Service \cup {NoService}, version : 0..MaxNumber],
         st = "done" =>
            /\ announced'.project = subject[i]
            /\ i \notin forgot => announced'.version \in fresh
  PROVE  RegenInv'
<1>0. /\ RegenerationTypeOK /\ RunsAreKnown /\ RunsAreNumbered /\ PanelOwnsItsRun
      /\ phase' = [phase EXCEPT ![i] = "over"]
      /\ events' = [events EXCEPT ![i] = "none"]
      /\ UNCHANGED <<regenSession, subject>>
      /\ panel.run = i /\ panel.status = "generating"
  BY DEF RegenInv, Over, PanelOwnsItsRun, Shown
<1>1. /\ phase'[i] = "over" /\ \A j \in Regen : j # i => phase'[j] = phase[j]
      /\ \A j \in Regen : events'[j] \in {events[j], "none"}
      /\ "unused" \notin Afoot /\ "over" \notin Afoot
  BY <1>0 DEF RegenerationTypeOK, Afoot
<1>2. /\ panel' \in [project : Service \cup {NoService},
                     status : {"idle", "suggesting", "generating", "done", "error"},
                     run : 0..MaxRegen]
      /\ panel'.status = st /\ panel'.run = i /\ panel'.project = panel.project
      /\ panel.project = subject[i] /\ panel.project \in Service
  <2>1. panel \in [project : Service \cup {NoService},
                   status : {"idle", "suggesting", "generating", "done", "error"},
                   run : 0..MaxRegen]
    BY <1>0 DEF RegenerationTypeOK
  <2>2. panel.project = subject[i] /\ panel.project \in Service
    BY <1>0 DEF PanelOwnsItsRun
  <2>. QED
    BY <1>0, <2>1, <2>2
<1>3. RegenerationTypeOK'
  <2>1. phase' \in [Regen -> {"unused", "over"} \cup Afoot]
    BY <1>0 DEF RegenerationTypeOK
  <2>2. events' \in [Regen -> {"none", "open", "complete", "error", "cut"}]
    BY <1>0 DEF RegenerationTypeOK
  <2>3. cut' \subseteq Regen
    BY <1>0 DEF RegenerationTypeOK
  <2>. QED
    BY <1>0, <1>2, <2>1, <2>2, <2>3 DEF RegenerationTypeOK
<1>4. RunsAreKnown'
  <2>1. \A j \in Regen : phase'[j] = "unused" => phase[j] = "unused" /\ j # i
    BY <1>1
  <2>2. \A j \in Regen : phase'[j] # "unused" => subject'[j] \in Service
    BY <1>0, <1>1, <1>2 DEF RunsAreKnown
  <2>3. \A j \in Regen : phase'[j] \in {"reading", "polling", "waiting"} => work'[j] # "none"
    BY <1>0, <1>1 DEF RunsAreKnown
  <2>4. regenSession' # 0 => phase'[regenSession'] # "unused"
    <3>1. regenSession # 0 => regenSession \in Regen
      BY <1>0, RegenConstants DEF RegenerationTypeOK
    <3>. QED
      BY <1>0, <2>1, <3>1 DEF RunsAreKnown
  <2>5. \A j \in Regen : phase'[j] = "unused" => work'[j] = "none" /\ j \notin cut'
    BY <1>0, <2>1 DEF RunsAreKnown
  <2>. QED
    BY <1>0, <1>1, <2>2, <2>3, <2>4, <2>5 DEF RunsAreKnown
<1>5. RunsAreNumbered'
  BY <1>0 DEF RunsAreNumbered, Laboring
<1>6. PanelOwnsItsRun'
  <2>1. \A j \in Regen : phase'[j] \in Afoot => j # i /\ phase[j] \in Afoot
    BY <1>1
  <2>2. \A j \in Regen : phase'[j] \in Afoot => j \in cut
    BY <1>0, <2>1 DEF PanelOwnsItsRun, Shown
  <2>. QED
    BY <1>0, <1>2, <2>2 DEF PanelOwnsItsRun
<1>7. DoneIsFresh'
  BY <1>0, <1>2 DEF DoneIsFresh
<1>. QED
  BY <1>2, <1>3, <1>4, <1>5, <1>6, <1>7 DEF RegenInv

\* A run that fails for the client.
LEMMA FailsKeep ==
  ASSUME RegenInv, NEW i \in Regen, i \notin cut, phase[i] \in Afoot,
         cut' \in {cut, cut \cup {i}}, WriteFail(i)
  PROVE  RegenInv'
<1>1. Shown(i)
  BY DEF RegenInv, PanelOwnsItsRun
<1>2. /\ panel' = [panel EXCEPT !.status = "error"] /\ Over(i)
      /\ UNCHANGED <<announced, work, made, numbers, reported, fresh, forgot>>
  BY <1>1 DEF WriteFail, regenServer
<1>3. announced' \in [project : Service \cup {NoService}, version : 0..MaxNumber]
  BY <1>2 DEF RegenInv, RegenerationTypeOK
<1>. QED
  BY <1>2, <1>3, EndsKeep

\* A run that completes for the client, with a version that is fresh.
LEMMA CompletionsKeep ==
  ASSUME RegenInv, NEW i \in Regen, i \notin cut, phase[i] \in Afoot,
         cut' \in {cut, cut \cup {i}}, NEW v \in 0..MaxNumber, WriteComplete(i, v),
         i \notin forgot => v \in fresh
  PROVE  RegenInv'
<1>1. Shown(i) /\ subject[i] \in Service
  <2>1. Shown(i)
    BY DEF RegenInv, PanelOwnsItsRun
  <2>. QED
    BY <2>1 DEF RegenInv, RunsAreKnown, Afoot
<1>2. /\ panel' = [panel EXCEPT !.status = "done"] /\ Over(i)
      /\ announced' = [project |-> subject[i], version |-> v]
      /\ UNCHANGED <<work, made, numbers, reported, fresh, forgot>>
  BY <1>1 DEF WriteComplete, regenServer
<1>3. /\ announced' \in [project : Service \cup {NoService}, version : 0..MaxNumber]
      /\ announced'.project = subject[i] /\ announced'.version = v
  BY <1>1, <1>2
<1>. QED
  BY <1>2, <1>3, EndsKeep

\* The run of the panel, of which the stream or the status route may tell.
LEMMA SpeakingRun ==
  ASSUME RegenInv, NEW i \in Regen, i \notin cut, phase[i] \in Afoot
  PROVE  subject[i] \in Service /\ RunBearsFruit(i, subject[i])
<1>1. Shown(i)
  BY DEF RegenInv, PanelOwnsItsRun
<1>2. panel.run = i /\ panel.status = "generating"
  BY <1>1 DEF Shown
<1>3. subject[i] = panel.project /\ panel.project \in Service
  BY <1>2 DEF RegenInv, PanelOwnsItsRun
<1>. QED
  BY <1>2, <1>3 DEF RegenInv

\* The stream says that the run completed.
LEMMA ReadsCompleteKeeps ==
  ASSUME RegenInv, NEW i \in Regen, RegenReadsComplete(i)
  PROVE  RegenInv'
<1>1. /\ i \notin cut /\ phase[i] \in Afoot /\ cut' = cut \cup {i}
      /\ WriteComplete(i, made[i]) /\ events[i] = "complete"
  BY DEF RegenReadsComplete, Afoot
<1>2. work[i] = "completed" /\ made[i] \in 0..MaxNumber
  BY <1>1 DEF RegenInv, RunsAreKnown, RegenerationTypeOK
<1>3. RunBearsFruit(i, subject[i]) /\ subject[i] \in Service
  BY <1>1, SpeakingRun
<1>4. made[i] \in fresh
  <2>1. made[i] \in numbers[subject[i]] /\ made[i] \in Nat
    BY <1>2, <1>3, RegenConstants DEF RunBearsFruit
  <2>. QED
    BY <1>2, <1>3, <2>1 DEF RunBearsFruit
<1>. QED
  BY <1>1, <1>2, <1>4, CompletionsKeep

\* The status route says that the run completed: its entry, or, when that
\* was lost, the newest version.
LEMMA PollToldKeeps ==
  ASSUME RegenInv, NEW i \in Regen, PollTold(i)
  PROVE  RegenInv'
<1>1. i \notin cut /\ phase[i] = "polling" /\ phase[i] \in Afoot /\ cut' = cut
  BY DEF PollTold, Afoot
<1>2. RunBearsFruit(i, subject[i]) /\ subject[i] \in Service /\ work[i] # "none"
  BY <1>1, SpeakingRun DEF RegenInv, RunsAreKnown
<1> DEFINE p == subject[i]
<1>3. PICK answer : answer = Told(p)
  OBVIOUS
<1>4. \/ /\ answer.st = "generating"
         /\ phase' = [phase EXCEPT ![i] = "waiting"]
         /\ UNCHANGED <<panel, regenSession, subject, announced, work, made, numbers, reported,
                        fresh, forgot, events>>
      \/ answer.st = "completed" /\ WriteComplete(i, answer.version)
      \/ WriteFail(i)
  BY <1>3 DEF PollTold, regenServer
<1>5. ASSUME answer.st = "completed"
      PROVE  answer.version \in 0..MaxNumber /\ (i \notin forgot => answer.version \in fresh)
  <2>1. CASE reported[p] # NoReport
    <3>1. answer = reported[p]
      BY <1>3, <2>1 DEF Told
    <3>2. reported[p].version \in 0..MaxNumber
      BY <1>2 DEF RegenInv, RegenerationTypeOK
    <3>. QED
      BY <1>2, <1>5, <3>1, <3>2 DEF RunBearsFruit
  <2>2. CASE reported[p] = NoReport
    <3>1. answer.version = Max(numbers[p])
      BY <1>3, <2>2 DEF Told
    <3>2. /\ Max(numbers[p]) \in numbers[p] /\ Max(numbers[p]) \in 1..MaxNumber
          /\ \A n \in numbers[p] : Max(numbers[p]) >= n
      BY <1>2, NewestNumber
    <3>3. i \notin forgot => work[i] = "completed"
      BY <1>2, <2>2 DEF RunBearsFruit
    <3>4. work[i] = "completed" => Max(numbers[p]) \in fresh
      BY <1>2, <3>2 DEF RunBearsFruit
    <3>. QED
      BY <3>1, <3>2, <3>3, <3>4, RegenConstants
  <2>. QED
    BY <2>1, <2>2
<1> HIDE DEF p
<1>6. CASE /\ answer.st = "generating"
           /\ phase' = [phase EXCEPT ![i] = "waiting"]
           /\ UNCHANGED <<panel, regenSession, subject, announced, work, made, numbers, reported,
                          fresh, forgot, events>>
  <2>1. "waiting" \in Afoot
    BY DEF Afoot
  <2>. QED
    BY <1>1, <1>2, <1>6, <2>1, PhasesKeep
<1>7. CASE answer.st = "completed" /\ WriteComplete(i, answer.version)
  BY <1>1, <1>5, <1>7, CompletionsKeep
<1>8. CASE WriteFail(i)
  BY <1>1, <1>8, FailsKeep
<1>. QED
  BY <1>4, <1>6, <1>7, <1>8

\* The other steps of runClientRegeneration.
LEMMA ClientStepsKeep ==
  ASSUME RegenInv, NEW i \in Regen,
         \/ RegenFails(i) \/ RegenOpens(i) \/ RegenStreamCut(i) \/ RegenAborted(i)
         \/ PollUnanswered(i) \/ PollAfterDelay(i)
  PROVE  RegenInv'
<1>0. {"posting", "reading", "polling", "waiting"} = Afoot
  BY DEF Afoot
<1>1. CASE RegenFails(i)
  BY <1>0, <1>1, FailsKeep DEF RegenFails
<1>2. CASE RegenOpens(i)
  <2>1. /\ phase[i] \in Afoot /\ events[i] # "none"
        /\ phase' = [phase EXCEPT ![i] = "reading"]
        /\ UNCHANGED <<panel, regenSession, cut, subject, announced, work, made, numbers, reported,
                       fresh, forgot, events>>
    BY <1>0, <1>2 DEF RegenOpens, regenServer
  <2>2. work[i] # "none" /\ "reading" \in Afoot
    BY <1>0, <2>1 DEF RegenInv, RunsAreKnown
  <2>. QED
    BY <2>1, <2>2, PhasesKeep
<1>3. CASE RegenStreamCut(i)
  <2>1. /\ phase[i] = "reading" /\ phase[i] \in Afoot
        /\ phase' = [phase EXCEPT ![i] = "polling"]
        /\ events' = [events EXCEPT ![i] = "none"]
        /\ UNCHANGED <<panel, regenSession, cut, subject, announced, work, made, numbers, reported,
                       fresh, forgot>>
    BY <1>0, <1>3 DEF RegenStreamCut, regenServer
  <2>2. work[i] # "none" /\ "polling" \in Afoot
    BY <1>0, <2>1 DEF RegenInv, RunsAreKnown
  <2>. QED
    BY <2>1, <2>2, PhasesKeep
<1>4. CASE PollUnanswered(i) \/ PollAfterDelay(i)
  <2>1. /\ i \notin cut /\ phase[i] \in {"polling", "waiting"} /\ phase[i] \in Afoot /\ cut' = cut
        /\ \/ /\ \E q \in {"waiting", "polling"} : phase' = [phase EXCEPT ![i] = q]
              /\ UNCHANGED <<panel, regenSession, subject, announced, work, made, numbers, reported,
                             fresh, forgot, events>>
           \/ WriteFail(i)
    BY <1>0, <1>4 DEF PollUnanswered, PollAfterDelay, regenServer
  <2>2. work[i] # "none" /\ {"waiting", "polling"} \subseteq Afoot
    BY <1>0, <2>1 DEF RegenInv, RunsAreKnown
  <2>. QED
    BY <2>1, <2>2, PhasesKeep, FailsKeep
<1>5. CASE RegenAborted(i)
  <2>0. RegenerationTypeOK /\ RunsAreKnown /\ RunsAreNumbered /\ PanelOwnsItsRun
    BY DEF RegenInv
  <2>1. /\ i \in cut /\ phase[i] \in Afoot
        /\ phase' = [phase EXCEPT ![i] = "over"]
        /\ events' = [events EXCEPT ![i] = "none"]
        /\ UNCHANGED <<panel, cut, announced, regenSession, subject, work, made, numbers, reported,
                       fresh, forgot>>
    BY <1>5 DEF RegenAborted, Over, regenServer
  <2>2. /\ phase'[i] = "over" /\ \A j \in Regen : j # i => phase'[j] = phase[j]
        /\ \A j \in Regen : events'[j] \in {events[j], "none"}
        /\ phase[i] # "unused" /\ "over" \notin Afoot
    BY <1>0, <2>0, <2>1 DEF RegenerationTypeOK
  <2>3. RegenerationTypeOK'
    <3>1. phase' \in [Regen -> {"unused", "over"} \cup Afoot]
      BY <2>0, <2>1 DEF RegenerationTypeOK
    <3>2. events' \in [Regen -> {"none", "open", "complete", "error", "cut"}]
      BY <2>0, <2>1 DEF RegenerationTypeOK
    <3>. QED
      BY <2>0, <2>1, <3>1, <3>2 DEF RegenerationTypeOK
  <2>4. RunsAreKnown'
    <3>1. \A j \in Regen : phase'[j] = "unused" <=> phase[j] = "unused"
      BY <2>2
    <3>2. \A j \in Regen : phase'[j] \in {"reading", "polling", "waiting"} => work[j] # "none"
      BY <2>0, <2>2 DEF RunsAreKnown
    <3>3. regenSession # 0 => phase'[regenSession] # "unused"
      <4>1. regenSession # 0 => regenSession \in Regen
        BY <2>0, RegenConstants DEF RegenerationTypeOK
      <4>. QED
        BY <2>0, <3>1, <4>1 DEF RunsAreKnown
    <3>. QED
      BY <2>0, <2>1, <2>2, <3>1, <3>2, <3>3 DEF RunsAreKnown
  <2>5. RunsAreNumbered'
    BY <2>0, <2>1 DEF RunsAreNumbered, Laboring
  <2>6. PanelOwnsItsRun'
    <3>1. \A j \in Regen : phase'[j] \in Afoot => phase[j] \in Afoot
      BY <2>2
    <3>2. panel.status = "generating" => panel.run # i
      BY <2>0, <2>1 DEF PanelOwnsItsRun
    <3>3. panel.status = "generating" => phase'[panel.run] \in Afoot
      BY <2>0, <2>2, <3>2 DEF PanelOwnsItsRun
    <3>. QED
      BY <2>0, <2>1, <3>1, <3>3 DEF PanelOwnsItsRun, Shown
  <2>7. panel.status = "generating" => RunBearsFruit(panel.run, panel.project)'
    BY <2>1 DEF RegenInv, RunBearsFruit
  <2>. QED
    BY <2>1, <2>3, <2>4, <2>5, <2>6, <2>7 DEF RegenInv, DoneIsFresh
<1>. QED
  BY <1>1, <1>2, <1>3, <1>4, <1>5

\* Each step of the panel, the client and the server keeps the invariant.
LEMMA RegenStep == RegenInv /\ [RegenerationNext]_regenVars => RegenInv'
<1> SUFFICES ASSUME RegenInv, [RegenerationNext]_regenVars PROVE RegenInv'
  OBVIOUS
<1>1. CASE (\E p \in Service : OpenPanel(p)) \/ AskHints \/ HintsArrive \/ HandleReset
  BY <1>1, PanelStepsKeep
<1>2. ASSUME NEW p \in Service, RollBack(p) \/ EntryLost(p) PROVE RegenInv'
  BY <1>2, RollBackKeeps, EntryLostKeeps
<1>3. CASE ClosePanel \/ ServerDies
  BY <1>3, ClosesKeeps, ServerDiesKeeps
<1>4. ASSUME NEW i \in Regen,
             \/ RegenFails(i) \/ RegenOpens(i) \/ RegenStreamCut(i) \/ RegenAborted(i)
             \/ PollUnanswered(i) \/ PollAfterDelay(i)
      PROVE  RegenInv'
  BY <1>4, ClientStepsKeep
<1>5. ASSUME NEW i \in Regen, Regenerate(i) \/ RegenReadsComplete(i) \/ PollTold(i)
      PROVE  RegenInv'
  BY <1>5, RegenerateKeeps, ReadsCompleteKeeps, PollToldKeeps
<1>6. ASSUME NEW i \in Regen,
             \/ RegenStarts(i) \/ RegenSaves(i) \/ RegenCompletes(i) \/ RegenBreaks(i)
             \/ Disconnects(i)
      PROVE  RegenInv'
  BY <1>6, StartsKeeps, SavesKeeps, CompletesKeeps, BreaksKeeps, DisconnectsKeeps
<1>7. CASE UNCHANGED regenVars
  <2>1. UNCHANGED <<panel, regenSession, cut, phase, subject, announced, work, made, numbers,
                    reported, fresh, forgot, events>>
    BY <1>7 DEF regenVars, regenClient, regenServer
  <2>2. /\ RegenerationTypeOK' /\ RunsAreKnown' /\ RunsAreNumbered'
    BY <2>1 DEF RegenInv, RegenerationTypeOK, RunsAreKnown, RunsAreNumbered, Laboring
  <2>3. \A i \in Regen, p \in Service : RunBearsFruit(i, p) => RunBearsFruit(i, p)'
    BY <2>1 DEF RunBearsFruit
  <2>. QED
    BY <2>1, <2>2, <2>3, ServerStepsKeep
<1>. QED
  BY <1>1, <1>2, <1>3, <1>4, <1>5, <1>6, <1>7 DEF RegenerationNext

\* Every variable of the panel and of its runs keeps its type.
THEOREM RegenerationIsTyped == RegenerationSpec => []RegenerationTypeOK
<1>1. RegenInv => RegenerationTypeOK
  BY RegenInvSuffices
<1>. HIDE DEF RegenInv
<1> QED BY <1>1, RegenBegins, RegenStep, PTL DEF RegenerationSpec

\* However runs are begun, cut, refused and lost, the panel turns its
\* spinner exactly while one run that may still speak works for it; and
\* what it calls done, on the word of the stream, the tracker or the
\* database, is a version saved since the button was pressed, unless the
\* tracker lost the entry of a run that had not completed.
THEOREM PanelAlwaysTellsTheTruth == RegenerationSpec => []PanelTellsTheTruth
<1>1. RegenInv => PanelTellsTheTruth
  BY RegenInvSuffices
<1>. HIDE DEF RegenInv
<1> QED BY <1>1, RegenBegins, RegenStep, PTL DEF RegenerationSpec

=============================================================================
