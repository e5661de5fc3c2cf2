----------------------------- MODULE PagedLists -----------------------------
(***************************************************************************)
(* The lists of the API and a client that reads one of them page by page   *)
(* while rows come, move and go.                                           *)
(*                                                                         *)
(*   GET  /v1/outfits           sort = recent | mostLiked | mostViewed     *)
(*   POST /v1/outfits/resolve   positions in the list that the client sent *)
(*   GET  /v1/templates         the rigs that outfits are built on         *)
(*   GET  /v1/transactions      of a player, or of all                     *)
(*   GET  /v1/cashback/entries | balances | redeems                        *)
(*                                                                         *)
(* A page reads the store once; a write is one statement, transaction or   *)
(* critical section.  Pages of outfits may come out of the read cache, and *)
(* then show the catalog as it was.  Only the creation of outfits is       *)
(* spread out: rows are built one by one, rigs registered on the way, and  *)
(* written together later, with the times at which they were built.        *)
(***************************************************************************)
EXTENDS Keyset

Areas == {"catalog", "transactions", "cashback"}

CONSTANTS
  Outfit, Template, Transaction, Entry, Redeem,   \* ids, positive integers
  Player,         \* players, positive integers
  Existing,       \* outfits that are there at first,
  FirstRig,       \* built on this rig
  References,     \* lists of outfit ids that a client resolves; 0: unknown
  DefaultPageSize, MaxPageSize,
  Asked,          \* values of the limit parameter
  MaxBatch,       \* MaxBatchOutfits
  MaxClock,       \* bound on the clock
  MaxLag,         \* bound on the time between reading the clock and a commit
  MaxWrites       \* bound on the writes of a run, by area

ASSUME ListConstants ==
  /\ {DefaultPageSize, MaxPageSize, MaxBatch} \subseteq Nat \ {0}
  /\ DefaultPageSize <= MaxPageSize
  /\ {MaxClock, MaxLag} \subseteq Nat
  /\ MaxWrites \in [Areas -> Nat]
  /\ Asked \subseteq Int
  /\ Outfit \cup Template \cup Transaction \cup Entry \cup Redeem \cup Player \subseteq Nat \ {0}
  /\ Existing \subseteq Outfit
  /\ IsFiniteSet(Existing)
  /\ FirstRig \in Template
  /\ References \subseteq Seq(Outfit \cup {0})

VARIABLES
  store,          \* "postgres" | "memory"
  area,           \* the tables that this run changes and reads: a page of a list
                  \* reads one area, so that runs can explore one at a time
  now,            \* the clock
  tables,         \* the rows of every table, by id
  shown,          \* the catalogs since the last invalidation of the cache,
  past,           \* and those since the start: what cached pages may show
  drafts,         \* outfits of a creation under way, built and not written
  named,          \* rigs whose last PATCH, or whose registration, named them
  client,         \* what the client is reading
  writes          \* how many writes there were

vars == <<store, area, now, tables, shown, past, drafts, named, client, writes>>

-----------------------------------------------------------------------------
Clock == 0 .. MaxClock

OutfitRow == [at : Clock, public : BOOLEAN, rig : Template, likes : SUBSET Player,
              views : 0 .. MaxWrites["catalog"], deleted : BOOLEAN]
TemplateRow == [at : Clock, named : BOOLEAN]
LedgerRow == [at : Clock, user : Player]
RedeemRow == [at : Clock, user : Player, pending : BOOLEAN]

With(table, id, row) == [i \in DOMAIN table \cup {id} |-> IF i = id THEN row ELSE table[i]]

Joined(table, more) ==
  [i \in DOMAIN table \cup DOMAIN more |-> IF i \in DOMAIN table THEN table[i] ELSE more[i]]

Alive(t, o) == o \in DOMAIN t.outfits /\ ~t.outfits[o].deleted

(* As much of the tables as a page of outfits shows.                       *)
Catalog(t) == [outfits |-> t.outfits]

(* What is asked for: `who` is a player or 0 for all of them, `only`       *)
(* restricts to public outfits or to pending requests.                     *)
Queries ==
  [list : {"outfits"}, sort : {"recent", "mostLiked", "mostViewed"}, who : {0}, only : BOOLEAN]
  \cup [list : {"templates", "balances"}, sort : {"recent"}, who : {0}, only : {FALSE}]
  \cup [list : {"transactions"}, sort : {"recent"}, who : {0} \cup Player, only : {FALSE}]
  \cup [list : {"entries"}, sort : {"recent"}, who : Player, only : {FALSE}]
  \cup [list : {"redeems"}, sort : {"recent"}, who : {0} \cup Player, only : BOOLEAN]

Area(list) == CASE list \in {"outfits", "templates", "resolve"} -> "catalog"
                [] list = "transactions"                        -> "transactions"
                [] OTHER                                        -> "cashback"

-----------------------------------------------------------------------------
(* The rows of a list, in tables t.                                        *)
SortKey(row, sort) ==
  CASE sort = "mostLiked"  -> Cardinality(row.likes)
    [] sort = "mostViewed" -> row.views
    [] OTHER               -> row.at

Newest(table, ids) == {[id |-> i, key |-> table[i].at] : i \in ids}

Theirs(table, who) == {i \in DOMAIN table : who = 0 \/ table[i].user = who}

OutfitRows(t, q) ==
  {[id |-> o, key |-> SortKey(t.outfits[o], q.sort)] :
     o \in {o \in DOMAIN t.outfits : Alive(t, o) /\ (q.only => t.outfits[o].public)}}

TemplateRows(t) == Newest(t.templates, DOMAIN t.templates)

TransactionRows(t, q) == Newest(t.transactions, Theirs(t.transactions, q.who))

EntryRows(t, q) == Newest(t.entries, Theirs(t.entries, q.who))

RedeemRows(t, q) ==
  Newest(t.redeems, {r \in Theirs(t.redeems, q.who) : q.only => t.redeems[r].pending})

(* One row for each player with an entry, at the time of the latest.       *)
BalanceRows(t) ==
  LET times(u) == {t.entries[e].at : e \in Theirs(t.entries, u)}
  IN {[id |-> u, key |-> Max(times(u))] : u \in {t.entries[e].user : e \in DOMAIN t.entries}}

Rows(t, q) ==
  CASE q.list = "outfits"      -> OutfitRows(t, q)
    [] q.list = "templates"    -> TemplateRows(t)
    [] q.list = "transactions" -> TransactionRows(t, q)
    [] q.list = "entries"      -> EntryRows(t, q)
    [] q.list = "redeems"      -> RedeemRows(t, q)
    [] q.list = "balances"     -> BalanceRows(t)

-----------------------------------------------------------------------------
(* A walk remembers the rows it was served, in order; `steady` are those   *)
(* that were listed when it began, in every catalog that the cache may     *)
(* show, and whose key has not changed since.                              *)
(* A resolve remembers what it was told; `alive` and `gone` are outfits    *)
(* that have been there, or away, since it began.                          *)
Idle == [kind |-> "idle"]
Walking(list) == client.kind = "walk" /\ client.query.list = list /\ ~client.done
Resolving == client.kind = "resolve" /\ ~client.done

Seen(c, t) ==
  CASE c.kind = "walk"    -> [c EXCEPT !.steady = @ \cap Rows(t, c.query)]
    [] c.kind = "resolve" -> [c EXCEPT !.alive = {o \in @ : Alive(t, o)},
                                       !.gone = {o \in @ : ~Alive(t, o)}]
    [] OTHER              -> c

Write(where, t) ==
  /\ area = where
  /\ writes < MaxWrites[where]
  /\ tables' = t
  /\ shown' = shown \cup {Catalog(t)}
  /\ past' = past \cup {Catalog(t)}
  /\ client' = Seen(client, t)
  /\ writes' = writes + 1
  /\ UNCHANGED <<store, area, now>>

(* invalidateAll: from now on, no page of before is found.  It follows the *)
(* creation, change and deletion of outfits and the embedding of names, as *)
(* late as its caller makes it, or not at all when Redis fails.  A like, an*)
(* unlike or a view has none.                                              *)
Invalidate ==
  /\ shown' = {Catalog(tables)}
  /\ UNCHANGED <<store, area, now, tables, past, drafts, named, client, writes>>

(* A handler reads the clock before its row can be read.                   *)
Recently == {at \in Clock : now - MaxLag <= at /\ at <= now}

-----------------------------------------------------------------------------
(* Writes of the catalog.                                                  *)

\* Mutant: the registration of a rig overwrites the row.
OverwriteRig(templates, rig, row) == With(templates, rig, row)

(* Ensure: ON CONFLICT DO NOTHING.                                         *)
EnsureRig(templates, rig, row) ==
  IF rig \in DOMAIN templates THEN templates ELSE With(templates, rig, row)

(* ensureTemplate, for a rig that an outfit uses: no name yet.             *)
UseRig(rig, at) == EnsureRig(tables.templates, rig, [at |-> at, named |-> FALSE])

(* buildNewOutfit: an outfit of POST /v1/outfits or /v1/outfits:batch.     *)
BuildOutfit(o, rig, public) ==
  /\ o \notin DOMAIN tables.outfits \cup DOMAIN drafts
  /\ Cardinality(DOMAIN drafts) < MaxBatch
  /\ drafts' = With(drafts, o, [at |-> now, public |-> public, rig |-> rig, likes |-> {},
                                views |-> 0, deleted |-> FALSE])
  /\ Write("catalog", [tables EXCEPT !.templates = UseRig(rig, now)])
  /\ UNCHANGED named

(* A later check refuses the outfit, or a PATCH that names a rig has come  *)
(* this far: the rig is registered, and stays so.                          *)
NameRig(rig) ==
  /\ Write("catalog", [tables EXCEPT !.templates = UseRig(rig, now)])
  /\ UNCHANGED <<drafts, named>>

WriteBatch ==
  /\ DOMAIN drafts # {}
  /\ Write("catalog", [tables EXCEPT !.outfits = Joined(@, drafts)])
  /\ drafts' = <<>>
  /\ UNCHANGED named

(* The transaction fails or the handler stops; the map does not fail.      *)
LoseBatch ==
  /\ DOMAIN drafts # {}
  /\ store = "postgres"
  /\ drafts' = <<>>
  /\ UNCHANGED <<store, area, now, tables, shown, past, named, client, writes>>

Change(o, row) ==
  /\ Write("catalog", [tables EXCEPT !.outfits[o] = row])
  /\ UNCHANGED <<drafts, named>>

(* PATCH, or PUT of the items, which leaves visibility and rig alone.  The *)
(* handler has seen the outfit alive; it may be deleted by now.            *)
Update(o, at, public, rig) ==
  /\ at \in Recently
  /\ rig \in DOMAIN tables.templates
  /\ Change(o, [tables.outfits[o] EXCEPT !.at = at, !.public = public, !.rig = rig])

SoftDelete(o, at) ==
  /\ at \in Recently
  /\ Change(o, [tables.outfits[o] EXCEPT !.at = at, !.deleted = TRUE])

Like(o, u) ==
  /\ Alive(tables, o)
  /\ u \notin tables.outfits[o].likes
  /\ Change(o, [tables.outfits[o] EXCEPT !.likes = @ \cup {u}])

Unlike(o, u) ==
  /\ Alive(tables, o)
  /\ u \in tables.outfits[o].likes
  /\ Change(o, [tables.outfits[o] EXCEPT !.likes = @ \ {u}])

RecordView(o) ==
  /\ Alive(tables, o)
  /\ Change(o, [tables.outfits[o] EXCEPT !.views = @ + 1])

(* POST /v1/templates: a rig that is there is answered as it is.           *)
RegisterTemplate(rig, at, name) ==
  /\ at \in Recently
  /\ named' = IF rig \notin DOMAIN tables.templates /\ name THEN named \cup {rig} ELSE named
  /\ Write("catalog", [tables EXCEPT !.templates =
       EnsureRig(@, rig, [at |-> at, named |-> name])])
  /\ UNCHANGED drafts

PatchTemplate(rig, name) ==
  /\ rig \in DOMAIN tables.templates
  /\ named' = IF name THEN named \cup {rig} ELSE named \ {rig}
  /\ Write("catalog", [tables EXCEPT !.templates[rig].named = name])
  /\ UNCHANGED drafts

-----------------------------------------------------------------------------
(* Writes of the other lists.  The game reports when a purchase occurred.  *)
RecordTransaction(x, u, at) ==
  /\ x \notin DOMAIN tables.transactions
  /\ Write("transactions", [tables EXCEPT !.transactions = With(@, x, [at |-> at, user |-> u])])
  /\ UNCHANGED <<drafts, named>>

CreateEntry(e, u, at) ==
  /\ e \notin DOMAIN tables.entries
  /\ at \in Recently
  /\ Write("cashback", [tables EXCEPT !.entries = With(@, e, [at |-> at, user |-> u])])
  /\ UNCHANGED <<drafts, named>>

(* A request and the entry that takes the balance; one pending per player. *)
CreateRedeem(r, e, u, at) ==
  /\ r \notin DOMAIN tables.redeems
  /\ e \notin DOMAIN tables.entries
  /\ at \in Recently
  /\ \A p \in DOMAIN tables.redeems : tables.redeems[p].user = u => ~tables.redeems[p].pending
  /\ Write("cashback", [tables EXCEPT
       !.redeems = With(@, r, [at |-> at, user |-> u, pending |-> TRUE]),
       !.entries = With(@, e, [at |-> at, user |-> u])])
  /\ UNCHANGED <<drafts, named>>

(* Completed, or rejected with an entry that gives the balance back.       *)
ResolveRedeem(r, back, at) ==
  /\ r \in DOMAIN tables.redeems
  /\ tables.redeems[r].pending
  /\ at \in Recently
  /\ Write("cashback", [tables EXCEPT
       !.redeems[r].pending = FALSE,
       !.entries = Joined(@, [e \in back |-> [at |-> at, user |-> tables.redeems[r].user]])])
  /\ UNCHANGED <<drafts, named>>

-----------------------------------------------------------------------------
(* The client.                                                             *)
Ask(c) ==
  client' = c /\ UNCHANGED <<store, area, now, tables, shown, past, drafts, named, writes>>

Listed(q) ==
  IF q.list = "outfits" THEN {r \in Rows(tables, q) : \A t \in shown : r \in OutfitRows(t, q)}
                        ELSE Rows(tables, q)

FirstPage(q, limit) ==
  [kind |-> "walk", query |-> q, limit |-> limit, cursor |-> {}, seen |-> <<>>,
   done |-> FALSE, steady |-> Listed(q)]

StartWalk(q, asked) ==
  /\ client.kind = "idle"
  /\ area = Area(q.list)
  /\ Ask(FirstPage(q, ClampLimit(asked, DefaultPageSize, MaxPageSize)))

(* nextCursor carries the sort and the last row, and is there only when    *)
(* there is more.                                                          *)
NextCursor(page, sort) ==
  IF page.more THEN {[sort |-> sort, id |-> Last(page.rows).id, key |-> Last(page.rows).key]}
               ELSE {}

Turned(c, page, sort) ==
  [c EXCEPT !.query.sort = sort, !.seen = @ \o page.rows,
            !.cursor = NextCursor(page, sort), !.done = ~page.more]

Turn(page, sort) == Ask(Turned(client, page, sort))

Serve(sqlPage, memPage) == IF store = "postgres" THEN sqlPage ELSE memPage

Following(rows) == {r \in rows : \A c \in client.cursor : After(c, r)}

AfterCursor(cursor, sort, r) ==
  \A c \in cursor : IF sort = "recent" THEN After(c, r) ELSE CountAfter(c, r)

SqlOutfits(t, q) == SqlPage(OutfitRows(t, q), client.cursor, client.limit)
MemOutfits(t, q) ==
  MemPage({r \in OutfitRows(t, q) : AfterCursor(client.cursor, q.sort, r)}, client.limit)
SqlTemplates == SqlPage(TemplateRows(tables), client.cursor, client.limit)
MemTemplates == MemPage(Following(TemplateRows(tables)), client.limit)
SqlTransactions(q) == SqlPage(TransactionRows(tables, q), client.cursor, client.limit)
MemTransactions(q) == MemPage(Following(TransactionRows(tables, q)), client.limit)
SqlEntries(q) == SqlPage(EntryRows(tables, q), client.cursor, client.limit)
MemEntries(q) == MemPage(Following(EntryRows(tables, q)), client.limit)
SqlRedeems(q) == SqlPage(RedeemRows(tables, q), client.cursor, client.limit)
MemRedeems(q) == MemPage(Following(RedeemRows(tables, q)), client.limit)
SqlBalances == SqlPage(BalanceRows(tables), client.cursor, client.limit)
MemBalances == MemPage(Following(BalanceRows(tables)), client.limit)

(* decodeListCursor: a cursor is good for the sort it was made with.       *)
Accepts(cursor, sort) == \A c \in cursor : c.sort = sort

(* A page that was cached under this version, or is read from the store.   *)
(* When the version could not be read, the page is one of version 0, which *)
(* may be as old as the cache; a row that it shows otherwise is not steady.*)
ListOutfits(sort) ==
  /\ Walking("outfits")
  /\ client.cursor = {} => sort = client.query.sort
  /\ Accepts(client.cursor, sort)
  /\ LET q == [client.query EXCEPT !.sort = sort]
         page(t) == Serve(SqlOutfits(t, q), MemOutfits(t, q))
         unread(t) == [client EXCEPT !.steady = @ \cap OutfitRows(t, q)]
     IN \/ \E t \in shown : Turn(page(t), sort)
        \/ \E t \in past : Ask(Turned(unread(t), page(t), sort))

(* 400 cursor_sort_mismatch: the client goes back to the first page.       *)
RefuseCursor(sort) ==
  /\ Walking("outfits")
  /\ ~Accepts(client.cursor, sort)
  /\ Ask(FirstPage([client.query EXCEPT !.sort = sort], client.limit))

ListTemplates ==
  /\ Walking("templates")
  /\ Turn(Serve(SqlTemplates, MemTemplates), "recent")

ListTransactions ==
  /\ Walking("transactions")
  /\ Turn(Serve(SqlTransactions(client.query), MemTransactions(client.query)), "recent")

ListEntries ==
  /\ Walking("entries")
  /\ Turn(Serve(SqlEntries(client.query), MemEntries(client.query)), "recent")

ListRedeems ==
  /\ Walking("redeems")
  /\ Turn(Serve(SqlRedeems(client.query), MemRedeems(client.query)), "recent")

ListBalances ==
  /\ Walking("balances")
  /\ Turn(Serve(SqlBalances, MemBalances), "recent")

-----------------------------------------------------------------------------
(* Resolve: the client sends the same references with every page.          *)
StartResolve(refs, asked) ==
  /\ client.kind = "idle"
  /\ area = "catalog"
  /\ Ask([kind |-> "resolve", refs |-> refs, pos |-> 0, pages |-> 0, done |-> FALSE,
          limit |-> ClampLimit(asked, DefaultPageSize, MaxPageSize),
          found |-> {}, missing |-> {},
          alive |-> {o \in Outfit : Alive(tables, o)},
          gone |-> {o \in Outfit \cup {0} : ~Alive(tables, o)}])

TotalPages(refs, limit) == (Len(refs) + limit - 1) \div limit

\* Mutant: deleted outfits are found.
ListDeletedToo(page) == {o \in DOMAIN tables.outfits : o \in page}

ListByReferenceIDs(page) == {o \in DOMAIN tables.outfits : Alive(tables, o) /\ o \in page}

End(pos, limit, total) == IF pos + limit < total THEN pos + limit ELSE total

Resolve ==
  LET total == Len(client.refs)
      end == End(client.pos, client.limit, total)
      page == {client.refs[i] : i \in client.pos + 1 .. end}
      found == ListByReferenceIDs(page)
  IN /\ Resolving
     /\ Ask([client EXCEPT
          !.found = @ \cup found, !.missing = @ \cup (page \ found),
          !.pos = end, !.pages = @ + 1, !.done = (end >= total)])

(* The client has read what it wanted.                                     *)
Leave ==
  /\ client.kind # "idle"
  /\ client.done
  /\ Ask(Idle)

-----------------------------------------------------------------------------
Tick ==
  /\ now < MaxClock
  /\ now' = now + 1
  /\ UNCHANGED <<store, area, tables, shown, past, drafts, named, client, writes>>

Init ==
  /\ store \in {"postgres", "memory"}
  /\ area \in Areas
  /\ now = 0
  /\ tables = [outfits |-> [o \in Existing |->
                  [at |-> 0, public |-> TRUE, rig |-> FirstRig, likes |-> {}, views |-> 0,
                   deleted |-> FALSE]],
               templates |-> [rig \in {FirstRig} |-> [at |-> 0, named |-> FALSE]],
               transactions |-> <<>>, entries |-> <<>>, redeems |-> <<>>]
  /\ past = {Catalog(tables)}
  /\ shown = past
  /\ drafts = <<>>
  /\ named = {}
  /\ client = Idle
  /\ writes = 0

CatalogWrite ==
  \/ \E rig \in Template :
       \/ NameRig(rig)
       \/ \E name \in BOOLEAN :
            \/ PatchTemplate(rig, name)
            \/ \E at \in Clock : RegisterTemplate(rig, at, name)
       \/ \E o \in Outfit, public \in BOOLEAN : BuildOutfit(o, rig, public)
  \/ WriteBatch
  \/ LoseBatch
  \/ \E o \in DOMAIN tables.outfits :
       \/ \E at \in Clock :
            \/ \E public \in BOOLEAN, rig \in Template : Update(o, at, public, rig)
            \/ SoftDelete(o, at)
       \/ \E u \in Player : Like(o, u) \/ Unlike(o, u)
       \/ RecordView(o)

LedgerWrite ==
  \E u \in Player, at \in Clock :
    \/ \E x \in Transaction : RecordTransaction(x, u, at)
    \/ \E e \in Entry :
         \/ CreateEntry(e, u, at)
         \/ \E r \in Redeem : CreateRedeem(r, e, u, at)

RedeemWrite ==
  \E r \in Redeem, at \in Clock :
    \/ ResolveRedeem(r, {}, at)
    \/ \E e \in Entry \ DOMAIN tables.entries : ResolveRedeem(r, {e}, at)

Read ==
  \/ \E asked \in Asked :
       \/ \E q \in Queries : StartWalk(q, asked)
       \/ \E refs \in References : StartResolve(refs, asked)
  \/ \E sort \in {"recent", "mostLiked", "mostViewed"} : ListOutfits(sort) \/ RefuseCursor(sort)
  \/ ListTemplates \/ ListTransactions \/ ListEntries \/ ListRedeems \/ ListBalances
  \/ Resolve \/ Leave

Next == Tick \/ Invalidate \/ CatalogWrite \/ LedgerWrite \/ RedeemWrite \/ Read

Spec == Init /\ [][Next]_vars

-----------------------------------------------------------------------------
Sorts == {"recent", "mostLiked", "mostViewed"}
Row == [id : Int, key : Int]

WalkTypeOK(c) ==
  /\ c.query \in Queries
  /\ c.limit \in 1 .. MaxPageSize
  /\ \A k \in c.cursor : k \in [sort : Sorts, id : Nat \ {0}, key : Nat]
  /\ \A i \in 1 .. Len(c.seen) : c.seen[i] \in Row
  /\ c.steady \subseteq Rows(tables, c.query)
  /\ c.done => c.cursor = {}

ResolveTypeOK(c) ==
  /\ c.refs \in References
  /\ c.limit \in 1 .. MaxPageSize
  /\ c.pos \in 0 .. Len(c.refs)

(* The variables have their types.  A request never asks the store for     *)
(* more rows than a page may have, whatever limit the client names, and    *)
(* names that are not written are not in the tables.                       *)
TypeOK ==
  /\ now \in Clock
  /\ writes \in 0 .. MaxWrites[area]
  /\ named \subseteq DOMAIN tables.templates
  /\ DOMAIN drafts \cap DOMAIN tables.outfits = {}
  /\ Catalog(tables) \in shown /\ shown \subseteq past
  /\ \A t \in past : \A o \in DOMAIN t.outfits : t.outfits[o] \in OutfitRow
  /\ \A o \in DOMAIN drafts : drafts[o] \in OutfitRow
  /\ \A r \in DOMAIN tables.templates : tables.templates[r] \in TemplateRow
  /\ \A x \in DOMAIN tables.transactions : tables.transactions[x] \in LedgerRow
  /\ \A e \in DOMAIN tables.entries : tables.entries[e] \in LedgerRow
  /\ \A r \in DOMAIN tables.redeems : tables.redeems[r] \in RedeemRow
  /\ client.kind = "walk" => WalkTypeOK(client)
  /\ client.kind = "resolve" => ResolveTypeOK(client)

(* The pages of a walk add up to the list, although rows move between them *)
(* and pages of outfits may be cached (internal/paging/cursor.go:3-5,      *)
(* README.md:565-567, internal/store/cached/outfits.go:189-205).  Each row *)
(* comes strictly after the one before, so no row repeats unless its key   *)
(* has fallen in between, and the walk ends.  Nothing is skipped: a row    *)
(* that has been listed with the same key since the first page - a row of  *)
(* outfits, since the last invalidation before it, and on every page that  *)
(* was served under version 0 - is among the rows served once the cursor   *)
(* has passed it, and at the end all are.                                  *)
PagesAddUp ==
  client.kind = "walk" =>
    /\ \A i, j \in 1 .. Len(client.seen) : i < j => Before(client.seen[i], client.seen[j])
    /\ \A r \in client.steady :
         (client.done \/ \E c \in client.cursor : ~After(c, r))
           => \E i \in 1 .. Len(client.seen) : client.seen[i] = r

(* Every reference that a resolve has passed was answered, as found or as  *)
(* missing; an outfit that was there all along is never missing, one that  *)
(* was away all along is never found; and totalPages, told with the first  *)
(* page, is the number of pages that it takes.                             *)
ResolveAnswersAll ==
  client.kind = "resolve" =>
    /\ \A i \in 1 .. client.pos : client.refs[i] \in client.found \cup client.missing
    /\ client.missing \cap client.alive = {}
    /\ client.found \cap client.gone = {}
    /\ client.done => client.pos = Len(client.refs)
    /\ client.done /\ client.refs # <<>> =>
         client.pages = TotalPages(client.refs, client.limit)

(* The rig of every outfit, written or about to be, is registered, and a   *)
(* name that a clerk gave a rig is not lost to the outfits that use it     *)
(* (internal/store/store.go:227-231).                                      *)
RigsKept ==
  /\ \A o \in DOMAIN tables.outfits : tables.outfits[o].rig \in DOMAIN tables.templates
  /\ \A o \in DOMAIN drafts : drafts[o].rig \in DOMAIN tables.templates
  /\ \A rig \in named : rig \in DOMAIN tables.templates /\ tables.templates[rig].named
=============================================================================
