----------------------------- MODULE Publishing -----------------------------
(***************************************************************************)
(* Projects and their addresses: services/projectService.ts, the routes    *)
(* above it, and the page a project is published from, with the dialog in  *)
(* which its first address is chosen (components/dashboard).               *)
(*                                                                         *)
(* A handler of the server reads and writes the SQLite database without    *)
(* waiting for anything, so a call is one step of the server.  What        *)
(* overlaps are the calls: each is sent, handled and answered apart, in    *)
(* any order, while the page goes on with the copy it was loaded with.     *)
(***************************************************************************)
EXTENDS Naturals, FiniteSets

CONSTANTS
    Project,     \* the projects that can ever be created
    ApiCall,        \* the API calls that can be in flight at once
    Base,        \* addresses a user may choose or be suggested, valid ones
    Bad,         \* an address that isValidSlug refuses
    None,
    MaxTry,      \* the suffixes assignUniqueSlug tries: 10
    MaxProjects  \* maxProjectsPerUser

ASSUME PublishingAssumption ==
    /\ MaxTry \in Nat \ {0}
    /\ MaxProjects \in Nat
    /\ Bad \notin Base
    /\ None \notin Base \cup {Bad} \cup Project \cup ApiCall
    /\ None \notin (Base \cup Project) \X (1..(MaxTry + 2))

VARIABLES
    row,      \* row[p]: the project's row: status and slug
    call,     \* call[c]: an API call: what it asks, and its answer once handled
    page,     \* the project's page: the project it shows, as it was when loaded
    dialog,   \* the PublishDialog over it
    told      \* history: told[p], the addresses that answered publish calls named

publishingVars == <<row, call, page, dialog, told>>

-----------------------------------------------------------------------------
Status == {"never", "draft", "generated", "published", "unpublished", "deleted"}
Exists(p) == row[p].st \notin {"never", "deleted"}
Publishable == {"generated", "unpublished"}

(* A slug: a base as it is (1), with a suffix -2, -3, ..., or with one of  *)
(* the two time stamps assignUniqueSlug and publish fall back to.  The     *)
(* base generateSlug makes of a project's name and id is the project's own.*)
Short == MaxTry + 1
Long  == MaxTry + 2
Slug == (Base \cup Project) \X (1..Long)

TakenBy(s, ps) == \E q \in ps : Exists(q) /\ row[q].slug = s
Taken(s) == TakenBy(s, Project)

(* assignUniqueSlug: the first free suffix, or the short time stamp, which *)
(* is not looked up.                                                       *)
FreeTries(b) == {i \in 1..MaxTry : ~Taken(<<b, i>>)}
Assigned(b) ==
    IF FreeTries(b) = {} THEN {Short}
    ELSE {i \in FreeTries(b) : \A j \in FreeTries(b) : i <= j}

(* The slug of a first publication: on a UNIQUE violation it is assigned   *)
(* once more, at the same moment, and then the long time stamp is tried.   *)
FirstSlugs(b) == {b} \X (Assigned(b) \cup {Long})
Writable(b) ==
    {s \in FirstSlugs(b) : ~Taken(s) /\ (s[2] = Long => \A i \in Assigned(b) : Taken(<<b, i>>))}

BaseOf(p, chosen) == IF chosen \in Base THEN chosen ELSE p

-----------------------------------------------------------------------------
NoCall == [at |-> "idle", op |-> "none", from |-> "none", p |-> None, slug |-> None, ok |-> FALSE,
           got |-> "none"]

NoDialog == [open |-> FALSE, custom |-> FALSE, value |-> None, check |-> "idle", of |-> None,
             asking |-> None, busy |-> FALSE]

NoPage == [p |-> None, st |-> "never", slug |-> None, busy |-> FALSE]

Verdict == {"available", "invalid", "taken"}

(* What the variables hold. *)
CallState == [at : {"idle", "sent", "answered"},
              op : {"none", "publish", "unpublish", "delete", "check"},
              from : {"none", "page", "dialog"}, p : Project \cup {None},
              slug : Base \cup {Bad, None}, ok : BOOLEAN, got : Verdict \cup {"none"}]

DialogState == [open : BOOLEAN, custom : BOOLEAN, value : Base \cup {Bad, None},
                check : Verdict \cup {"idle", "checking"}, of : Base \cup {Bad, None},
                asking : ApiCall \cup {None}, busy : BOOLEAN]

PageState == [p : Project \cup {None}, st : Status, slug : Slug \cup {None}, busy : BOOLEAN]

(* Every variable has its type. *)
PublishingTypeOK ==
    /\ row \in [Project -> [st : Status, slug : Slug \cup {None}]]
    /\ call \in [ApiCall -> CallState]
    /\ page \in PageState
    /\ dialog \in DialogState
    /\ told \in [Project -> SUBSET Slug]

PublishingInit ==
    /\ row = [p \in Project |-> [st |-> "never", slug |-> None]]
    /\ call = [c \in ApiCall |-> NoCall]
    /\ page = NoPage
    /\ dialog = NoDialog
    /\ told = [p \in Project |-> {}]

-----------------------------------------------------------------------------
(* The server.                                                             *)

(* POST /projects: refused at the user's limit.  When linking the APIs     *)
(* fails the new row is deleted again, unless that fails too.              *)
Create(p) ==
    /\ row[p].st = "never"
    /\ Cardinality({q \in Project : Exists(q)}) < MaxProjects
    /\ \E left \in {"draft", "deleted"} : row' = [row EXCEPT ![p].st = left]
    /\ UNCHANGED <<call, page, dialog, told>>

(* A generation is saved or a version rolled back: whatever the status was.*)
Generated(p) ==
    /\ Exists(p)
    /\ row' = [row EXCEPT ![p].st = "generated"]
    /\ UNCHANGED <<call, page, dialog, told>>

(* The user's account is deleted with all projects. *)
DeleteAccount ==
    /\ \E p \in Project : Exists(p)
    /\ row' = [p \in Project |-> IF Exists(p) THEN [st |-> "deleted", slug |-> None] ELSE row[p]]
    /\ UNCHANGED <<call, page, dialog, told>>

Respond(c, ok) == call' = [call EXCEPT ![c].at = "answered", ![c].ok = ok]

(* POST /projects/:id/publish *)
Asked(c, op) == call[c].at = "sent" /\ call[c].op = op

PublishRow_Always(c) ==
    LET p == call[c].p
    IN  /\ Asked(c, "publish")
        /\ Exists(p) /\ row[p].st \in Publishable
        /\ \E s \in Writable(BaseOf(p, call[c].slug)) :
             /\ row' = [row EXCEPT ![p] = [st |-> "published", slug |-> s]]
             /\ told' = [told EXCEPT ![p] = @ \cup {s}]
        /\ Respond(c, TRUE)
        /\ UNCHANGED <<page, dialog>>

(* The first publication gives the project its slug, a later one keeps it. *)
PublishRow(c) ==
    LET p == call[c].p
    IN  /\ Asked(c, "publish")
        /\ Exists(p) /\ row[p].st \in Publishable
        /\ \E s \in IF row[p].slug # None THEN {row[p].slug}
                    ELSE Writable(BaseOf(p, call[c].slug)) :
             /\ row' = [row EXCEPT ![p] = [st |-> "published", slug |-> s]]
             /\ told' = [told EXCEPT ![p] = @ \cup {s}]
        /\ Respond(c, TRUE)
        /\ UNCHANGED <<page, dialog>>

(* 404, 400, or a third UNIQUE violation. *)
PublishRefused(c) ==
    LET p == call[c].p
    IN  /\ Asked(c, "publish")
        /\ \/ ~Exists(p)
           \/ row[p].st \notin Publishable
           \/ row[p].slug = None /\ Writable(BaseOf(p, call[c].slug)) = {}
        /\ Respond(c, FALSE)
        /\ UNCHANGED <<row, page, dialog, told>>

(* DELETE /projects/:id/publish *)
Unpublish(c) ==
    LET p == call[c].p
    IN  /\ Asked(c, "unpublish")
        /\ row' = IF row[p].st = "published" THEN [row EXCEPT ![p].st = "unpublished"] ELSE row
        /\ Respond(c, row[p].st = "published")
        /\ UNCHANGED <<page, dialog, told>>

(* DELETE /projects/:id *)
Delete(c) ==
    LET p == call[c].p
    IN  /\ Asked(c, "delete")
        /\ row' = IF Exists(p) THEN [row EXCEPT ![p] = [st |-> "deleted", slug |-> None]] ELSE row
        /\ Respond(c, Exists(p))
        /\ UNCHANGED <<page, dialog, told>>

(* POST /projects/:id/slug/check *)
CheckSlug(c) ==
    LET p == call[c].p
    IN  /\ Asked(c, "check")
        /\ call' = [call EXCEPT ![c].at = "answered", ![c].ok = Exists(p),
                ![c].got = IF call[c].slug = Bad THEN "invalid"
                           ELSE IF TakenBy(<<call[c].slug, 1>>, Project \ {p}) THEN "taken"
                           ELSE "available"]
        /\ UNCHANGED <<row, page, dialog, told>>

(* GET /site/:slug: the project whose page an address leads to, the one of *)
(* a published project or the notice that it is being prepared.            *)
SiteOf(s) == {p \in Project : Exists(p) /\ row[p].slug = s}

Serve(c) ==
    PublishRow(c) \/ PublishRefused(c) \/ Unpublish(c) \/ Delete(c) \/ CheckSlug(c)

-----------------------------------------------------------------------------
(* The page.                                                               *)

Send(c, op, from, slug) ==
    /\ call[c].at = "idle"
    /\ call' = [call EXCEPT ![c] = [NoCall EXCEPT !.at = "sent", !.op = op, !.from = from,
                                                  !.p = page.p, !.slug = slug]]

(* The page is loaded, or refreshed: it shows the row as it is now. *)
Load(p) ==
    /\ Exists(p)
    /\ page.p \in {None, p}
    /\ page' = [page EXCEPT !.p = p, !.st = row[p].st, !.slug = row[p].slug]
    /\ UNCHANGED <<row, call, dialog, told>>

(* The publish button: at once for a project that has an address, through  *)
(* the dialog for one that has none.                                       *)
ClickPublish(c) ==
    /\ page.p # None /\ page.st \in Publishable /\ ~page.busy
    /\ IF page.slug # None
       THEN Send(c, "publish", "page", None) /\ page' = [page EXCEPT !.busy = TRUE]
                                             /\ dialog' = dialog
       ELSE /\ ~dialog.open
            /\ \E first \in Base \cup {None} :
                 dialog' = [NoDialog EXCEPT !.open = TRUE, !.custom = first = None, !.value = first]
            /\ UNCHANGED <<call, page>>
    /\ UNCHANGED <<row, told>>

ClickUnpublish(c) ==
    /\ page.p # None /\ page.st = "published" /\ ~page.busy
    /\ Send(c, "unpublish", "page", None)
    /\ page' = [page EXCEPT !.busy = TRUE]
    /\ UNCHANGED <<row, dialog, told>>

(* ProjectGrid, in another tab, sends what it likes: its cards are never   *)
(* disabled while a call of theirs is in flight.                           *)
FromGrid(c, op) ==
    /\ page.p # None
    /\ Send(c, op, "none", None)
    /\ UNCHANGED <<row, page, dialog, told>>

(* The user types an address, or picks a suggestion instead, also while    *)
(* another is being published: what was being checked is aborted, and the  *)
(* check result of before is gone.                                         *)
Choose_NoAbort(v, custom) ==
    /\ dialog.open
    /\ <<v, custom>> # <<dialog.value, dialog.custom>>
    /\ dialog' = [dialog EXCEPT !.custom = custom, !.value = v, !.of = None,
                     !.check = IF custom /\ v # None THEN "checking" ELSE "idle"]
    /\ UNCHANGED <<row, call, page, told>>
Choose(v, custom) ==
    /\ dialog.open
    /\ <<v, custom>> # <<dialog.value, dialog.custom>>
    /\ dialog' = [dialog EXCEPT !.custom = custom, !.value = v, !.of = None, !.asking = None,
                     !.check = IF custom /\ v # None THEN "checking" ELSE "idle"]
    /\ UNCHANGED <<row, call, page, told>>

(* 300 ms after the last change the address is asked about. *)
Debounced(c) ==
    /\ dialog.open /\ dialog.check = "checking" /\ dialog.asking = None
    /\ Send(c, "check", "dialog", dialog.value)
    /\ dialog' = [dialog EXCEPT !.asking = c]
    /\ UNCHANGED <<row, page, told>>

(* The button of the dialog: a checked address, a suggestion, or none. *)
Confirm(c) ==
    /\ dialog.open /\ ~dialog.busy
    /\ \E s \in {dialog.value, None} :
         /\ s # None => (~dialog.custom \/ dialog.check = "available")
         /\ Send(c, "publish", "dialog", s)
    /\ dialog' = [dialog EXCEPT !.busy = TRUE]
    /\ UNCHANGED <<row, page, told>>

(* Escape or a click beside it closes the dialog, whatever it waits for. *)
Close ==
    /\ dialog.open
    /\ dialog' = NoDialog
    /\ UNCHANGED <<row, call, page, told>>

-----------------------------------------------------------------------------
(* Answers reach the page.                                                 *)
Receive(c) == call[c].at = "answered" /\ call' = [call EXCEPT ![c] = NoCall]

ReceiveVerdict(c) ==
    /\ call[c].op = "check"
    /\ Receive(c)
    /\ dialog' = IF dialog.asking # c THEN dialog
                 ELSE [dialog EXCEPT !.asking = None, !.of = call[c].slug,
                          !.check = IF call[c].ok THEN call[c].got ELSE "taken"]
    /\ UNCHANGED <<row, page, told>>

(* An answer the dialog waited for: published, it closes the dialog the    *)
(* page shows by then; refused, it shows the error in it.                  *)
ReceivePublished(c) ==
    /\ call[c].op = "publish" /\ call[c].from = "dialog"
    /\ Receive(c)
    /\ dialog' = IF call[c].ok THEN NoDialog ELSE [dialog EXCEPT !.busy = FALSE]
    /\ UNCHANGED <<row, page, told>>

ReceiveOther(c) ==
    /\ call[c].op # "check" /\ call[c].from # "dialog"
    /\ Receive(c)
    /\ page' = IF call[c].from = "page" THEN [page EXCEPT !.busy = FALSE] ELSE page
    /\ UNCHANGED <<row, dialog, told>>

(* The connection breaks: the server may or may not have acted.            *)
Lost(c) ==
    /\ call[c].at \in {"sent", "answered"}
    /\ call' = [call EXCEPT ![c] = NoCall]
    /\ page' = IF call[c].from = "page" THEN [page EXCEPT !.busy = FALSE] ELSE page
    /\ dialog' = IF dialog.asking = c THEN [dialog EXCEPT !.asking = None, !.check = "idle"]
                 ELSE IF call[c].from = "dialog" /\ call[c].op = "publish"
                 THEN [dialog EXCEPT !.busy = FALSE] ELSE dialog
    /\ UNCHANGED <<row, told>>

PublishingNext ==
    \/ \E p \in Project : Create(p) \/ Generated(p) \/ Load(p)
    \/ \E c \in ApiCall : Serve(c) \/ Lost(c)
    \/ \E c \in ApiCall : ReceiveVerdict(c) \/ ReceivePublished(c) \/ ReceiveOther(c)
    \/ \E c \in ApiCall : ClickPublish(c) \/ ClickUnpublish(c) \/ Debounced(c) \/ Confirm(c)
    \/ \E c \in ApiCall : \E op \in {"publish", "unpublish", "delete"} : FromGrid(c, op)
    \/ \E v \in Base \cup {Bad, None} : \E custom \in BOOLEAN : Choose(v, custom)
    \/ DeleteAccount \/ Close

PublishingSpec == PublishingInit /\ [][PublishingNext]_publishingVars

-----------------------------------------------------------------------------
(* An address that was given out leads to its project, and to no other, as *)
(* long as the project exists: through republications, generations that    *)
(* take a published project off, calls that overlap and retries of calls   *)
(* whose answers were lost.                                                *)
AddressesHold ==
    \A p \in Project : Exists(p) => \A s \in told[p] : SiteOf(s) = {p}

(* What the dialog says of an address it says of the one that is typed in  *)
(* it: a verdict that comes late is not shown for the next address.        *)
VerdictIsOfValue ==
    dialog.check \in Verdict => dialog.of = dialog.value
=============================================================================
