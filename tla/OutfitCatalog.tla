---------------------------- MODULE OutfitCatalog ----------------------------
(***************************************************************************)
(* Outfits, their read cache, their like and view counters and the         *)
(* background embedding of their names: service/outfit.go and embed.go     *)
(* over store/cached and store/postgres.                                   *)
(*                                                                         *)
(* Handlers of several server processes share the Postgres tables and one  *)
(* Redis.  Each Postgres statement or transaction and each Redis command   *)
(* is one step.  Every cache key carries one global version number, which  *)
(* each write of an outfit increments after its commit.                    *)
(***************************************************************************)
EXTENDS Integers, FiniteSets

CONSTANTS
  Outfit,            \* outfit ids that requests can name
  Handler,           \* requests that can be in flight at the same time
  Player,            \* players who like outfits
  Name,              \* names an outfit can have
  Slot,              \* slots of the embedding semaphore
  Update,            \* kinds of writes that requests ask for
  Listing,           \* whether clients also list outfits
  MaxRevision,       \* bound on the writes of one outfit
  MaxViews,          \* bound on the views recorded for one outfit
  MaxVersion,        \* bound on the successful invalidations
  NoName             \* a PATCH without a name; a row without an embedding

ASSUME CatalogConstants ==
  /\ Update \subseteq {"patch", "items", "delete", "like", "unlike", "view"}
  /\ MaxRevision \in Nat \ {0} /\ MaxViews \in Nat /\ MaxVersion \in Nat
  /\ Listing \in BOOLEAN
  /\ NoName \notin Name

VARIABLES
  rows,        \* table outfit; rev counts the writes of the row
  items,       \* table outfit_item: the rev that wrote the items of an outfit
  likes,       \* table outfit_like
  views,       \* table outfit_view: rows per outfit
  version,     \* Redis: version of the namespace outfit:all
  entries,     \* Redis: cached pages by <<version, page>>
  call,        \* call[h]: where the request of handler h is
  job,         \* job[s]: the goroutine that holds slot s
  published    \* what the last successful invalidation made visible, by rev

vars == <<rows, items, likes, views, version, entries, call, job, published>>

-----------------------------------------------------------------------------
(* What one read covers: an outfit (Get) or all of them (List, Search).    *)
RowPage == [kind : {"row"}, of : {{o} : o \in Outfit}]
ListPage == [kind : {"list"}, of : {Outfit}]
Page == RowPage \cup (IF Listing THEN ListPage ELSE {})

\* What a client can ask for: op, page and the name or player it carries.
Request ==
  [op : {"read"}, page : Page, arg : {NoName}]
    \cup [op : Update \cap {"items", "delete", "view"},
          page : RowPage, arg : {NoName}]
    \cup [op : Update \cap {"patch"},
          page : RowPage, arg : Name \cup {NoName}]
    \cup [op : Update \cap {"like", "unlike"}, page : RowPage, arg : Player]

(* What a query saw of an outfit; rev 0 is "no such row".                  *)
Seen == [rev : 0 .. MaxRevision, items : 0 .. MaxRevision,
         name : Name \cup {NoName}, deleted : BOOLEAN]

Absent == [rev |-> 0, items |-> 0, name |-> NoName, deleted |-> FALSE]

Idle == [at |-> "idle"]
Free == [at |-> "free"]

OutfitRow == [name : Name, rev : 1 .. MaxRevision, deleted : BOOLEAN,
              likeCount : Nat, viewCount : Nat, vector : Name \cup {NoName}]

Reads == {"lookup", "rows", "items", "set", "loaded"}

ReadCall == [at : Reads,
             request : Request, v : Nat, known : BOOLEAN, floor : [Outfit -> 0 .. MaxRevision],
             seen : UNION {[page.of -> Seen] : page \in Page}]
WriteCall == [at : {"bump", "embed"}, todo : SUBSET (Outfit \X Name)]

Job == [at : {"embed", "bump"}, outfit : Outfit, name : Name]

TablesOK ==
  /\ DOMAIN rows \subseteq Outfit
  /\ rows \in [DOMAIN rows -> OutfitRow]
  /\ items \in [DOMAIN rows -> 1 .. MaxRevision]
  /\ likes \subseteq Outfit \X Player
  /\ views \in [Outfit -> 0 .. MaxViews]

CacheOK ==
  /\ version \in Nat
  /\ \A k \in DOMAIN entries : /\ k \in Nat \X Page
                               /\ entries[k] \in [k[2].of -> Seen]
  /\ published \in [Outfit -> 0 .. MaxRevision]

(* A read sees the outfits of its page, and found the rows whose items it  *)
(* is about to read.                                                       *)
SightOK(c) ==
  /\ c.at \in Reads => c.seen \in [c.request.page.of -> Seen]
  /\ c.at = "items" => \A o \in c.request.page.of :
                         c.seen[o].rev # 0 => o \in DOMAIN rows

HandlersOK ==
  /\ call \in [Handler -> {Idle} \cup ReadCall \cup WriteCall]
  /\ \A h \in Handler : SightOK(call[h])
  /\ job \in [Slot -> {Free} \cup Job]

TypeOK == TablesOK /\ CacheOK /\ HandlersOK

-----------------------------------------------------------------------------
(* Reads, through the cache *)

At(h, where) == call[h].at = where

\* The read of handler h goes on to its next statement with what it saw.
Continue(h, where, seen) ==
  call' = [call EXCEPT ![h] =
             [at |-> where, request |-> call[h].request, v |-> call[h].v,
              known |-> call[h].known, floor |-> call[h].floor, seen |-> seen]]

(* versionedKey: a read starts by asking for the current version.  A       *)
(* failed command leaves it at 0, which makes a difference only when it is *)
(* not 0; known is auxiliary and says which it was.                        *)
ReadVersion(h, request) ==
  /\ At(h, "idle")
  /\ \E known \in IF version = 0 THEN {TRUE} ELSE BOOLEAN :
       call' = [call EXCEPT ![h] =
                  [at |-> "lookup", request |-> request,
                   v |-> IF known THEN version ELSE 0, known |-> known,
                   floor |-> published,
                   seen |-> [o \in request.page.of |-> Absent]]]
  /\ UNCHANGED <<rows, items, likes, views, version, entries, job, published>>

Key(h) == <<call[h].v, call[h].request.page>>

(* A hit ends the read.  An entry that expired (entries live for the TTL,  *)
(* a minute) or that Redis fails to return is a miss.                      *)
Lookup(h) ==
  /\ At(h, "lookup")
  /\ \/ /\ Key(h) \in DOMAIN entries
        /\ Continue(h, "loaded", entries[Key(h)])
     \/ Continue(h, "rows", call[h].seen)
  /\ UNCHANGED <<rows, items, likes, views, version, entries, job, published>>

SeenRow(o) ==
  IF o \in DOMAIN rows
    THEN [rev |-> rows[o].rev, items |-> 0,
          name |-> rows[o].name, deleted |-> rows[o].deleted]
    ELSE Absent

(* The store reads rows and items with two statements and no transaction   *)
(* around them.  Get of an outfit that does not exist ends in a 404; a     *)
(* list leaves out a deleted one, which says no less than deleted here.    *)
ReadRows(h) ==
  /\ At(h, "rows")
  /\ LET page == call[h].request.page IN
     IF page.kind = "list" \/ page.of \subseteq DOMAIN rows
       THEN Continue(h, "items", [o \in page.of |-> SeenRow(o)])
       ELSE call' = [call EXCEPT ![h] = Idle]
  /\ UNCHANGED <<rows, items, likes, views, version, entries, job, published>>

ReadItems(h) ==
  /\ At(h, "items")
  /\ LET seen == call[h].seen IN
     Continue(h, "set",
       [o \in call[h].request.page.of |->
          [rev |-> seen[o].rev, items |-> IF seen[o].rev = 0 THEN 0 ELSE items[o],
           name |-> seen[o].name, deleted |-> seen[o].deleted]])
  /\ UNCHANGED <<rows, items, likes, views, version, entries, job, published>>

\* Mutant: the page is stored under the version of the moment.
StoreEntryLate(h) ==
  /\ At(h, "set")
  /\ LET key == <<version, call[h].request.page>> IN
     entries' = [k \in DOMAIN entries \cup {key} |->
                   IF k = key THEN call[h].seen ELSE entries[k]]
  /\ Continue(h, "loaded", call[h].seen)
  /\ UNCHANGED <<rows, items, likes, views, version, job, published>>

(* The page is stored under the version that was read first.  A failed SET *)
(* is only logged.                                                         *)
StoreEntry(h) ==
  /\ At(h, "set")
  /\ \/ entries' = [k \in DOMAIN entries \cup {Key(h)} |->
                      IF k = Key(h) THEN call[h].seen ELSE entries[k]]
     \/ UNCHANGED entries
  /\ Continue(h, "loaded", call[h].seen)
  /\ UNCHANGED <<rows, items, likes, views, version, job, published>>

Answer(h) ==
  /\ At(h, "loaded")
  /\ call[h].request.op = "read"
  /\ call' = [call EXCEPT ![h] = Idle]
  /\ UNCHANGED <<rows, items, likes, views, version, entries, job, published>>

-----------------------------------------------------------------------------
(* Writes.  All but Create and CreateBatch load the outfit first (through  *)
(* the cache) and refuse a deleted one with a 410.                         *)

Loaded(h, op, o) ==
  /\ At(h, "loaded")
  /\ call[h].request.op = op
  /\ call[h].request.page.of = {o}

Gone(h, o) ==
  /\ \E op \in Update : Loaded(h, op, o)
  /\ call[h].seen[o].deleted
  /\ call' = [call EXCEPT ![h] = Idle]
  /\ UNCHANGED <<rows, items, likes, views, version, entries, job, published>>

(* One database transaction inserts the outfits of a request, one or a     *)
(* batch, with their items; their names wait to be embedded.               *)
Create(h, names) ==
  /\ At(h, "idle")
  /\ DOMAIN names \cap DOMAIN rows = {}
  /\ rows' = [o \in DOMAIN rows \cup DOMAIN names |->
       IF o \in DOMAIN rows THEN rows[o]
       ELSE [name |-> names[o], rev |-> 1, deleted |-> FALSE,
             likeCount |-> 0, viewCount |-> 0, vector |-> NoName]]
  /\ items' = [o \in DOMAIN rows \cup DOMAIN names |->
                 IF o \in DOMAIN rows THEN items[o] ELSE 1]
  /\ call' = [call EXCEPT ![h] =
       [at |-> "bump", todo |-> {<<o, names[o]>> : o \in DOMAIN names}]]
  /\ UNCHANGED <<likes, views, version, entries, job, published>>

\* The row as the next write leaves it, counters and vector untouched.
Rewritten(o, name, deleted) ==
  [name |-> name, rev |-> rows[o].rev + 1, deleted |-> deleted,
   likeCount |-> rows[o].likeCount, viewCount |-> rows[o].viewCount,
   vector |-> rows[o].vector]

\* The row with other counters.
Counted(o, likeCount, viewCount) ==
  [name |-> rows[o].name, rev |-> rows[o].rev, deleted |-> rows[o].deleted,
   likeCount |-> likeCount, viewCount |-> viewCount, vector |-> rows[o].vector]

\* Mutant: the row that load returned is written back, without FOR UPDATE.
UpdateWithoutLock(h, o, name, deleted) ==
  /\ rows[o].rev < MaxRevision
  /\ rows' = [rows EXCEPT ![o] =
                 Rewritten(o, name, call[h].seen[o].deleted \/ deleted)]
  /\ items' = [items EXCEPT ![o] = rows[o].rev + 1]

(* store.Update: the row is locked, read again, changed by the caller's    *)
(* function and written with all its items.  It is not asked again whether *)
(* the outfit was deleted meanwhile; deleted_at stays what the row says.   *)
UpdateRow(h, o, name, deleted) ==
  /\ rows[o].rev < MaxRevision
  /\ rows' = [rows EXCEPT ![o] = Rewritten(o, name, rows[o].deleted \/ deleted)]
  /\ items' = [items EXCEPT ![o] = rows[o].rev + 1]

(* PATCH: other fields, and the name when the request has one.  The name   *)
(* is embedded again when it differs from the one that was loaded.         *)
Patch(h, o) ==
  /\ Loaded(h, "patch", o)
  /\ ~call[h].seen[o].deleted
  /\ LET asked == call[h].request.arg
         name == IF asked = NoName THEN rows[o].name ELSE asked
     IN  /\ UpdateRow(h, o, name, FALSE)
         /\ call' = [call EXCEPT ![h] =
              [at |-> "bump",
               todo |-> IF asked # NoName /\ name # call[h].seen[o].name
                          THEN {<<o, name>>} ELSE {}]]
  /\ UNCHANGED <<likes, views, version, entries, job, published>>

(* PUT items and DELETE.                                                   *)
ReplaceItems(h, o) ==
  /\ Loaded(h, "items", o)
  /\ ~call[h].seen[o].deleted
  /\ UpdateRow(h, o, rows[o].name, FALSE)
  /\ call' = [call EXCEPT ![h] = [at |-> "bump", todo |-> {}]]
  /\ UNCHANGED <<likes, views, version, entries, job, published>>

SoftDelete(h, o) ==
  /\ Loaded(h, "delete", o)
  /\ ~call[h].seen[o].deleted
  /\ UpdateRow(h, o, rows[o].name, TRUE)
  /\ call' = [call EXCEPT ![h] = [at |-> "bump", todo |-> {}]]
  /\ UNCHANGED <<likes, views, version, entries, job, published>>

(* A like inserts its row unless it exists and counts what it inserted, in *)
(* one database transaction that locks the outfit and refuses a deleted    *)
(* one.  Unlike and views alike; none of them invalidates the cache.       *)
Like(h, o) ==
  /\ Loaded(h, "like", o)
  /\ ~call[h].seen[o].deleted
  /\ LET like == <<o, call[h].request.arg>> IN
     IF rows[o].deleted \/ like \in likes
       THEN UNCHANGED <<likes, rows>>
       ELSE /\ likes' = likes \cup {like}
            /\ rows' = [rows EXCEPT ![o] =
                            Counted(o, rows[o].likeCount + 1, rows[o].viewCount)]
  /\ call' = [call EXCEPT ![h] = Idle]
  /\ UNCHANGED <<items, views, version, entries, job, published>>

\* greatest(like_count - 1, 0)
OneLess(n) == IF n = 0 THEN 0 ELSE n - 1

\* Mutant: the counter goes down whether or not there was a like.
UnlikeAlwaysCounts(h, o) ==
  /\ Loaded(h, "unlike", o)
  /\ ~call[h].seen[o].deleted
  /\ IF rows[o].deleted
       THEN UNCHANGED <<likes, rows>>
       ELSE /\ likes' = likes \ {<<o, call[h].request.arg>>}
            /\ rows' = [rows EXCEPT ![o] = Counted(o, OneLess(rows[o].likeCount),
                                                   rows[o].viewCount)]
  /\ call' = [call EXCEPT ![h] = Idle]
  /\ UNCHANGED <<items, views, version, entries, job, published>>

\* Mutant: nor is it kept from going below zero.
UnlikeBelowZero(h, o) ==
  /\ Loaded(h, "unlike", o)
  /\ ~call[h].seen[o].deleted
  /\ IF rows[o].deleted
       THEN UNCHANGED <<likes, rows>>
       ELSE /\ likes' = likes \ {<<o, call[h].request.arg>>}
            /\ rows' = [rows EXCEPT ![o] = Counted(o, rows[o].likeCount - 1,
                                                   rows[o].viewCount)]
  /\ call' = [call EXCEPT ![h] = Idle]
  /\ UNCHANGED <<items, views, version, entries, job, published>>

Unlike(h, o) ==
  /\ Loaded(h, "unlike", o)
  /\ ~call[h].seen[o].deleted
  /\ LET like == <<o, call[h].request.arg>> IN
     IF rows[o].deleted \/ like \notin likes
       THEN UNCHANGED <<likes, rows>>
       ELSE /\ likes' = likes \ {like}
            /\ rows' = [rows EXCEPT ![o] = Counted(o, OneLess(rows[o].likeCount),
                                                   rows[o].viewCount)]
  /\ call' = [call EXCEPT ![h] = Idle]
  /\ UNCHANGED <<items, views, version, entries, job, published>>

RecordView(h, o) ==
  /\ Loaded(h, "view", o)
  /\ ~call[h].seen[o].deleted
  /\ IF rows[o].deleted
       THEN UNCHANGED <<views, rows>>
       ELSE /\ views[o] < MaxViews
            /\ views' = [views EXCEPT ![o] = @ + 1]
            /\ rows' = [rows EXCEPT ![o] =
                            Counted(o, rows[o].likeCount, rows[o].viewCount + 1)]
  /\ call' = [call EXCEPT ![h] = Idle]
  /\ UNCHANGED <<items, likes, version, entries, job, published>>

-----------------------------------------------------------------------------
(* Invalidation and embedding *)

(* INCR of the version hides every entry stored so far.  A failure is only *)
(* logged and hides nothing.                                               *)
Invalidate ==
  \/ /\ version < MaxVersion
     /\ version' = version + 1
     /\ published' = [o \in Outfit |-> IF o \in DOMAIN rows THEN rows[o].rev ELSE 0]
  \/ UNCHANGED <<version, published>>

BumpVersion(h) ==
  /\ At(h, "bump")
  /\ Invalidate
  /\ call' = [call EXCEPT ![h] = IF call[h].todo = {} THEN Idle
                                 ELSE [at |-> "embed", todo |-> call[h].todo]]
  /\ UNCHANGED <<rows, items, likes, views, entries, job>>

(* embedNameAsync takes a slot if one is free and leaves the name alone    *)
(* otherwise.                                                              *)
EmbedName(h) ==
  /\ At(h, "embed")
  /\ \E t \in call[h].todo :
       /\ \/ \E s \in Slot :
               /\ job[s] = Free
               /\ job' = [job EXCEPT ![s] = [at |-> "embed", outfit |-> t[1],
                                             name |-> t[2]]]
          \/ /\ \A s \in Slot : job[s] # Free
             /\ UNCHANGED job
       /\ call' = [call EXCEPT ![h] = IF call[h].todo = {t} THEN Idle
                             ELSE [at |-> "embed", todo |-> call[h].todo \ {t}]]
  /\ UNCHANGED <<rows, items, likes, views, version, entries, published>>

(* The goroutine asks the provider, stores the vector of the name it was   *)
(* given and invalidates the cache; an error at any point ends it.         *)
SetNameEmbedding(s) ==
  /\ job[s].at = "embed"
  /\ LET o == job[s].outfit
         n == job[s].name
     IN  /\ rows' = [rows EXCEPT ![o] =
              [name |-> rows[o].name, rev |-> rows[o].rev,
               deleted |-> rows[o].deleted, likeCount |-> rows[o].likeCount,
               viewCount |-> rows[o].viewCount, vector |-> n]]
         /\ job' = [job EXCEPT ![s] = [at |-> "bump", outfit |-> o, name |-> n]]
  /\ UNCHANGED <<items, likes, views, version, entries, call, published>>

BumpAfterEmbedding(s) ==
  /\ job[s].at = "bump"
  /\ Invalidate
  /\ job' = [job EXCEPT ![s] = Free]
  /\ UNCHANGED <<rows, items, likes, views, entries, call>>

EmbeddingFails(s) ==
  /\ job[s] # Free
  /\ job' = [job EXCEPT ![s] = Free]
  /\ UNCHANGED <<rows, items, likes, views, version, entries, call, published>>

-----------------------------------------------------------------------------
(* A handler stops where it is: an error, a client that went away, a crash.*)
(* A process that stops takes its jobs along (EmbeddingFails).             *)
Stop(h) ==
  /\ call[h] # Idle
  /\ call' = [call EXCEPT ![h] = Idle]
  /\ UNCHANGED <<rows, items, likes, views, version, entries, job, published>>

Init ==
  /\ rows = [o \in {} |-> {}]
  /\ items = [o \in {} |-> {}]
  /\ likes = {}
  /\ views = [o \in Outfit |-> 0]
  /\ version = 0
  /\ entries = [k \in {} |-> {}]
  /\ call = [h \in Handler |-> Idle]
  /\ job = [s \in Slot |-> Free]
  /\ published = [o \in Outfit |-> 0]

Reading(h) ==
  \/ \E request \in Request : ReadVersion(h, request)
  \/ Lookup(h)
  \/ ReadRows(h)
  \/ ReadItems(h)
  \/ StoreEntry(h)
  \/ Answer(h)

Writing(h) ==
  \/ \E S \in SUBSET Outfit \ {{}} : \E names \in [S -> Name] : Create(h, names)
  \/ \E o \in DOMAIN rows :
       \/ Gone(h, o)
       \/ Patch(h, o)
       \/ ReplaceItems(h, o)
       \/ SoftDelete(h, o)
       \/ Like(h, o)
       \/ Unlike(h, o)
       \/ RecordView(h, o)
  \/ BumpVersion(h)
  \/ EmbedName(h)

Embedding(s) ==
  \/ SetNameEmbedding(s)
  \/ BumpAfterEmbedding(s)
  \/ EmbeddingFails(s)

Next ==
  \/ \E h \in Handler : Reading(h) \/ Writing(h) \/ Stop(h)
  \/ \E s \in Slot : Embedding(s)

Spec == Init /\ [][Next]_vars

-----------------------------------------------------------------------------
\* What a read was given of its page is not older than its floor.
UpToDate(h) ==
  \A o \in call[h].request.page.of :
    /\ call[h].seen[o].rev >= call[h].floor[o]
    /\ call[h].seen[o].items >= call[h].floor[o]

(* Once a write has been invalidated, no read that starts later and gets   *)
(* the version from Redis is given the row or the items as they were before*)
(* it: not by a reader that was slow between its version, its queries and  *)
(* its SET, not by a page put together from two states, and not by one that*)
(* a reader without version put under version 0 (cached.Outfits,           *)
(* versionedKey).                                                          *)
NoStaleRead ==
  \A h \in Handler : (At(h, "loaded") /\ call[h].known) => UpToDate(h)

(* "kunci jatuh ke v0 dan paling buruk jadi miss" (versionedKey): a read   *)
(* that could not get the version is not given anything older either.      *)
UnreadVersionIsAMiss ==
  \A h \in Handler : (At(h, "loaded") /\ ~call[h].known) => UpToDate(h)

(* The counters on the outfit are what the tables of likes and views hold, *)
(* whatever PATCH, PUT or DELETE runs at the same time (004_engagement:    *)
(* "keduanya tidak bisa berpisah").                                        *)
CountersMatchLog ==
  \A o \in DOMAIN rows :
    /\ rows[o].likeCount = Cardinality({p \in Player : <<o, p>> \in likes})
    /\ rows[o].viewCount = views[o]

(* A deleted outfit stays deleted, and its likes and views stay as they    *)
(* are, even for requests that loaded it while it was alive (Update,       *)
(* ensureOutfitAlive).                                                     *)
DeletedForGood ==
  [][\A o \in DOMAIN rows : rows[o].deleted =>
       /\ o \in DOMAIN rows'
       /\ rows'[o].deleted
       /\ views'[o] = views[o]
       /\ \A p \in Player : <<o, p>> \in likes' <=> <<o, p>> \in likes]_vars

-----------------------------------------------------------------------------
Pending(o) ==
  \/ \E s \in Slot : job[s] # Free /\ job[s].outfit = o
  \/ \E h \in Handler : /\ call[h].at \in {"bump", "embed"}
                        /\ \E t \in call[h].todo : t[1] = o

(* "a row that was skipped can be swept later (WHERE name_embedding IS     *)
(* NULL)" (embedNameAsync): an outfit whose embedding is not that of its   *)
(* name, and that no goroutine is about to embed, has none.                *)
SkippedRowsAreSwept ==
  \A o \in DOMAIN rows :
    Pending(o) \/ rows[o].vector \in {NoName, rows[o].name}

==============================================================================
