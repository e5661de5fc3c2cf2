--------------------------- MODULE CatalogProofs ----------------------------
(***************************************************************************)
(* Theorems about OutfitCatalog, for any outfits, handlers, names and      *)
(* slots: its state is well typed; a read that starts after a write was    *)
(* invalidated, and that gets the version, does not return what was there  *)
(* before, although other reads do not get it; and, for any finite set of  *)
(* players, the counters of an outfit are what the log of likes and views  *)
(* says and a deleted outfit stays as it is.                               *)
(***************************************************************************)
EXTENDS OutfitCatalog, FiniteSetTheorems, TLAPS

-----------------------------------------------------------------------------
(***************************************************************************)
(* Types                                                                   *)
(***************************************************************************)

(* What the position of a handler says about its local state.              *)
LEMMA CallShape ==
  ASSUME HandlersOK, NEW h \in Handler
  PROVE  /\ At(h, "idle") <=> call[h] = Idle
         /\ call[h].at \in Reads
              => /\ call[h] \in ReadCall
                 /\ call[h].seen \in [call[h].request.page.of -> Seen]
         /\ call[h].at \in {"bump", "embed"} => call[h] \in WriteCall
BY DEF HandlersOK, SightOK, At, Idle, ReadCall, WriteCall, Reads

(* A handler may be given any well typed state, as long as no row goes.    *)
LEMMA CallUpdate ==
  ASSUME HandlersOK, NEW h \in Handler, DOMAIN rows \subseteq DOMAIN rows',
         NEW c \in {Idle} \cup ReadCall \cup WriteCall, SightOK(c),
         call' = [call EXCEPT ![h] = c], UNCHANGED job
  PROVE  HandlersOK'
<1>1. call' \in [Handler -> {Idle} \cup ReadCall \cup WriteCall]
  BY DEF HandlersOK
<1>2. ASSUME NEW g \in Handler
      PROVE  SightOK(call[g])'
  <2>1. call'[g] = call[g] \/ call'[g] = c
    BY DEF HandlersOK
  <2> QED
    BY <2>1 DEF HandlersOK, SightOK
<1> QED
  BY <1>1, <1>2 DEF HandlersOK

(* A handler that does not read has nothing to rely on.                    *)
LEMMA IdleSight ==
  ASSUME NEW c \in {Idle} \cup WriteCall
  PROVE  SightOK(c)
BY DEF SightOK, Idle, WriteCall, Reads

LEMMA RequestShape ==
  ASSUME NEW request \in Request
  PROVE  /\ request.page \in Page
         /\ request.op = "patch" => request.arg \in Name \cup {NoName}
         /\ request.op \in {"like", "unlike"} => request.arg \in Player
BY DEF Request, Page, RowPage

(* A page is a set of outfits.                                             *)
LEMMA PageShape ==
  ASSUME NEW page \in Page
  PROVE  page.of \subseteq Outfit
BY DEF Page, RowPage, ListPage

(* A read that continues with well typed sight stays well typed.           *)
LEMMA ContinueType ==
  ASSUME HandlersOK, NEW h \in Handler, call[h] \in ReadCall,
         NEW where \in {"rows", "items", "set", "loaded"},
         NEW seen \in [call[h].request.page.of -> Seen],
         where = "items" => \A o \in call[h].request.page.of :
                              seen[o].rev # 0 => o \in DOMAIN rows,
         Continue(h, where, seen), UNCHANGED <<rows, job>>
  PROVE  HandlersOK'
<1> DEFINE c == [at |-> where, request |-> call[h].request, v |-> call[h].v,
                 known |-> call[h].known, floor |-> call[h].floor, seen |-> seen]
<1>1. call[h].request.page \in Page
  BY RequestShape DEF ReadCall
<1>2. c \in ReadCall
  BY <1>1 DEF ReadCall, Reads
<1>3. SightOK(c)
  BY DEF SightOK
<1>4. call' = [call EXCEPT ![h] = c]
  BY DEF Continue
<1> HIDE DEF c
<1> QED
  BY <1>2, <1>3, <1>4, CallUpdate

(* So does a row that is written by UpdateRow.                             *)
LEMMA UpdateRowType ==
  ASSUME TablesOK, NEW h, NEW o \in DOMAIN rows, NEW name \in Name,
         NEW deleted \in BOOLEAN, UpdateRow(h, o, name, deleted)
  PROVE  /\ DOMAIN rows' = DOMAIN rows
         /\ rows' \in [DOMAIN rows -> OutfitRow]
         /\ items' \in [DOMAIN rows -> 1 .. MaxRevision]
<1> DEFINE row == Rewritten(o, name, rows[o].deleted \/ deleted)
<1>1. rows[o] \in OutfitRow
  BY DEF TablesOK
<1>2. rows[o].rev + 1 \in 1 .. MaxRevision
  BY <1>1, CatalogConstants DEF UpdateRow, OutfitRow
<1>3. rows[o].deleted \/ deleted \in BOOLEAN
  BY <1>1 DEF OutfitRow
<1>4. row \in OutfitRow
  BY <1>1, <1>2, <1>3 DEF Rewritten, OutfitRow
<1>5. rows' = [rows EXCEPT ![o] = row] /\ items' = [items EXCEPT ![o] = rows[o].rev + 1]
  BY DEF UpdateRow
<1> HIDE DEF row
<1> QED
  BY <1>2, <1>4, <1>5 DEF TablesOK

(* And a row with other counters.                                          *)
LEMMA CountedType ==
  ASSUME TablesOK, NEW o \in DOMAIN rows, NEW m \in Nat, NEW n \in Nat,
         rows' = [rows EXCEPT ![o] = Counted(o, m, n)]
  PROVE  /\ DOMAIN rows' = DOMAIN rows
         /\ rows' \in [DOMAIN rows -> OutfitRow]
<1>1. Counted(o, m, n) \in OutfitRow
  BY DEF TablesOK, Counted, OutfitRow
<1> QED
  BY <1>1 DEF TablesOK

LEMMA InitType == Init => TypeOK
<1> SUFFICES ASSUME Init
             PROVE  TypeOK
  OBVIOUS
<1>1. TablesOK
  BY CatalogConstants DEF Init, TablesOK
<1>2. CacheOK
  BY CatalogConstants DEF Init, CacheOK
<1>3. HandlersOK
  <2>1. SightOK(Idle)
    BY IdleSight
  <2> QED
    BY <2>1 DEF Init, HandlersOK
<1> QED
  BY <1>1, <1>2, <1>3 DEF TypeOK

(* What a statement saw of an outfit.                                      *)
LEMMA SeenRowType ==
  ASSUME TablesOK, NEW o \in Outfit
  PROVE  SeenRow(o) \in Seen
<1>1. CASE o \in DOMAIN rows
  <2>1. rows[o] \in OutfitRow
    BY <1>1 DEF TablesOK
  <2> QED
    BY <1>1, <2>1, CatalogConstants DEF SeenRow, Seen, OutfitRow
<1>2. CASE o \notin DOMAIN rows
  BY <1>2, CatalogConstants DEF SeenRow, Seen, Absent
<1> QED
  BY <1>1, <1>2

(* Reads                                                                   *)
LEMMA ReadingType ==
  ASSUME TypeOK, NEW h \in Handler, Reading(h)
  PROVE  TypeOK'
<1>1. ASSUME NEW request \in Request, ReadVersion(h, request)
      PROVE  TypeOK'
  <2>1. PICK known \in BOOLEAN :
          call' = [call EXCEPT ![h] =
                     [at |-> "lookup", request |-> request,
                      v |-> IF known THEN version ELSE 0, known |-> known,
                      floor |-> published,
                      seen |-> [o \in request.page.of |-> Absent]]]
    BY <1>1 DEF ReadVersion
  <2> DEFINE seen == [o \in request.page.of |-> Absent]
             v == IF known THEN version ELSE 0
             c == [at |-> "lookup", request |-> request, v |-> v,
                   known |-> known, floor |-> published, seen |-> seen]
  <2>2. v \in Nat
    BY DEF TypeOK, CacheOK
  <2>3. seen \in [request.page.of -> Seen]
    BY CatalogConstants DEF Absent, Seen
  <2>4. c \in ReadCall
    BY <2>2, <2>3, RequestShape DEF ReadCall, Reads, TypeOK, CacheOK
  <2>5. SightOK(c)
    BY <2>3 DEF SightOK
  <2> HIDE DEF c
  <2>6. HandlersOK'
    BY <1>1, <2>1, <2>4, <2>5, CallUpdate DEF ReadVersion, TypeOK, c
  <2> QED
    BY <1>1, <2>6 DEF ReadVersion, TypeOK, TablesOK, CacheOK
<1>2. ASSUME Lookup(h)
      PROVE  TypeOK'
  <2>1. call[h] \in ReadCall /\ call[h].seen \in [call[h].request.page.of -> Seen]
    BY <1>2, CallShape DEF Lookup, At, TypeOK, Reads
  <2>2. CASE Continue(h, "rows", call[h].seen)
    BY <1>2, <2>1, <2>2, ContinueType DEF Lookup, TypeOK, TablesOK, CacheOK
  <2>3. CASE Key(h) \in DOMAIN entries /\ Continue(h, "loaded", entries[Key(h)])
    <3>1. entries[Key(h)] \in [call[h].request.page.of -> Seen]
      BY <2>3 DEF TypeOK, CacheOK, Key
    <3> QED
      BY <1>2, <2>1, <2>3, <3>1, ContinueType DEF Lookup, TypeOK, TablesOK, CacheOK
  <2> QED
    BY <1>2, <2>2, <2>3 DEF Lookup
<1>3. ASSUME ReadRows(h)
      PROVE  TypeOK'
  <2> DEFINE page == call[h].request.page
             seen == [o \in page.of |-> SeenRow(o)]
  <2>1. call[h] \in ReadCall
    BY <1>3, CallShape DEF ReadRows, At, TypeOK, Reads
  <2>2. page.of \subseteq Outfit
    BY <2>1, RequestShape, PageShape DEF ReadCall
  <2>3. seen \in [page.of -> Seen]
    BY <2>2, SeenRowType DEF TypeOK
  <2>4. \A o \in page.of : seen[o].rev # 0 => o \in DOMAIN rows
    BY DEF SeenRow, Absent
  <2>5. CASE call' = [call EXCEPT ![h] = Idle]
    <3>1. HandlersOK'
      BY <1>3, <2>5, CallUpdate, IdleSight DEF ReadRows, TypeOK
    <3> QED
      BY <1>3, <3>1 DEF ReadRows, TypeOK, TablesOK, CacheOK
  <2>6. CASE Continue(h, "items", seen)
    <3>1. HandlersOK'
      BY <1>3, <2>1, <2>3, <2>4, <2>6, ContinueType DEF ReadRows, TypeOK
    <3> QED
      BY <1>3, <3>1 DEF ReadRows, TypeOK, TablesOK, CacheOK
  <2> QED
    BY <1>3, <2>5, <2>6 DEF ReadRows
<1>4. ASSUME ReadItems(h)
      PROVE  TypeOK'
  <2> DEFINE page == call[h].request.page
             before == call[h].seen
             seen == [o \in page.of |->
               [rev |-> before[o].rev,
                items |-> IF before[o].rev = 0 THEN 0 ELSE items[o],
                name |-> before[o].name, deleted |-> before[o].deleted]]
  <2>1. call[h] \in ReadCall /\ before \in [page.of -> Seen]
    BY <1>4, CallShape DEF ReadItems, At, TypeOK, Reads
  <2>2. Continue(h, "set", seen)
    BY <1>4 DEF ReadItems
  <2>3. ASSUME NEW o \in page.of
        PROVE  (IF before[o].rev = 0 THEN 0 ELSE items[o]) \in 0 .. MaxRevision
    <3>1. before[o].rev # 0 => o \in DOMAIN rows
      BY <1>4, <2>3 DEF ReadItems, At, TypeOK, HandlersOK, SightOK
    <3> QED
      BY <3>1, CatalogConstants DEF TypeOK, TablesOK
  <2>4. seen \in [page.of -> Seen]
    BY <2>1, <2>3 DEF Seen
  <2> HIDE DEF page, before, seen
  <2>5. HandlersOK'
    BY <1>4, <2>1, <2>2, <2>4, ContinueType DEF ReadItems, TypeOK, page
  <2> QED
    BY <1>4, <2>5 DEF ReadItems, TypeOK, TablesOK, CacheOK
<1>5. ASSUME StoreEntry(h)
      PROVE  TypeOK'
  <2>1. call[h] \in ReadCall /\ call[h].seen \in [call[h].request.page.of -> Seen]
    BY <1>5, CallShape DEF StoreEntry, At, TypeOK, Reads
  <2>2. HandlersOK'
    BY <1>5, <2>1, ContinueType DEF StoreEntry, TypeOK
  <2>3. CacheOK'
    <3>1. CASE UNCHANGED entries
      BY <1>5, <3>1 DEF StoreEntry, TypeOK, CacheOK
    <3>2. CASE entries' = [k \in DOMAIN entries \cup {Key(h)} |->
                             IF k = Key(h) THEN call[h].seen ELSE entries[k]]
      <4>1. ASSUME NEW k \in DOMAIN entries \cup {Key(h)}
            PROVE  /\ k \in Nat \X Page
                   /\ entries'[k] \in [k[2].of -> Seen]
        <5>1. CASE k = Key(h)
          BY <2>1, <3>2, <5>1, RequestShape
             DEF Key, ReadCall
        <5>2. CASE k # Key(h)
          BY <3>2, <4>1, <5>2 DEF TypeOK, CacheOK
        <5> QED
          BY <5>1, <5>2
      <4>2. DOMAIN entries' = DOMAIN entries \cup {Key(h)}
        BY <3>2
      <4>3. UNCHANGED <<version, published>>
        BY <1>5 DEF StoreEntry
      <4>4. \A k \in DOMAIN entries' : /\ k \in Nat \X Page
                                       /\ entries'[k] \in [k[2].of -> Seen]
        BY <4>1, <4>2
      <4> QED
        BY <4>3, <4>4 DEF TypeOK, CacheOK
    <3> QED
      BY <1>5, <3>1, <3>2 DEF StoreEntry
  <2> QED
    BY <1>5, <2>2, <2>3 DEF StoreEntry, TypeOK, TablesOK
<1>6. ASSUME Answer(h)
      PROVE  TypeOK'
  <2>1. HandlersOK'
    BY <1>6, CallUpdate, IdleSight DEF Answer, TypeOK
  <2> QED
    BY <1>6, <2>1 DEF Answer, TypeOK, TablesOK, CacheOK
<1> QED
  BY <1>1, <1>2, <1>3, <1>4, <1>5, <1>6 DEF Reading

-----------------------------------------------------------------------------
(* What Loaded gives a write.                                              *)
LEMMA LoadedShape ==
  ASSUME HandlersOK, NEW h \in Handler, NEW o, NEW op, Loaded(h, op, o)
  PROVE  /\ call[h] \in ReadCall
         /\ call[h].request \in Request
         /\ call[h].seen[o] \in Seen
<1>1. call[h] \in ReadCall /\ call[h].seen \in [call[h].request.page.of -> Seen]
  BY CallShape DEF Loaded, At, Reads
<1> QED
  BY <1>1 DEF Loaded, ReadCall

(* The handler of a write that is done is idle or about to invalidate.     *)
LEMMA WrittenType ==
  ASSUME HandlersOK, NEW h \in Handler, DOMAIN rows \subseteq DOMAIN rows',
         NEW c \in {Idle} \cup WriteCall,
         call' = [call EXCEPT ![h] = c], UNCHANGED job
  PROVE  HandlersOK'
BY CallUpdate, IdleSight

LEMMA UpdateType ==
  ASSUME TypeOK, NEW h \in Handler, NEW o \in DOMAIN rows,
         \/ Patch(h, o) \/ ReplaceItems(h, o) \/ SoftDelete(h, o)
  PROVE  TypeOK'
<1>1. o \in Outfit /\ rows[o] \in OutfitRow
  BY DEF TypeOK, TablesOK
<1>2. ASSUME Patch(h, o)
      PROVE  TypeOK'
  <2> DEFINE asked == call[h].request.arg
             name == IF asked = NoName THEN rows[o].name ELSE asked
             todo == IF asked # NoName /\ name # call[h].seen[o].name
                       THEN {<<o, name>>} ELSE {}
  <2>1. call[h].request \in Request /\ call[h].request.op = "patch"
    BY <1>2, LoadedShape DEF Patch, TypeOK, Loaded
  <2>2. name \in Name
    BY <1>1, <2>1, RequestShape DEF OutfitRow
  <2>3. UpdateRow(h, o, name, FALSE) /\ call' = [call EXCEPT ![h] = [at |-> "bump", todo |-> todo]]
    BY <1>2 DEF Patch
  <2>4. todo \in SUBSET (Outfit \X Name)
    BY <1>1, <2>2
  <2> HIDE DEF asked, name, todo
  <2>5. /\ DOMAIN rows' = DOMAIN rows
        /\ rows' \in [DOMAIN rows -> OutfitRow]
        /\ items' \in [DOMAIN rows -> 1 .. MaxRevision]
    BY <2>2, <2>3, UpdateRowType DEF TypeOK
  <2>6. HandlersOK'
    BY <1>2, <2>3, <2>4, <2>5, WrittenType DEF Patch, TypeOK, WriteCall
  <2> QED
    BY <1>2, <2>5, <2>6 DEF Patch, TypeOK, TablesOK, CacheOK
<1>3. ASSUME ReplaceItems(h, o) \/ SoftDelete(h, o)
      PROVE  TypeOK'
  <2>1. PICK deleted \in BOOLEAN : UpdateRow(h, o, rows[o].name, deleted)
    BY <1>3 DEF ReplaceItems, SoftDelete
  <2>2. rows[o].name \in Name
    BY <1>1 DEF OutfitRow
  <2>3. /\ DOMAIN rows' = DOMAIN rows
        /\ rows' \in [DOMAIN rows -> OutfitRow]
        /\ items' \in [DOMAIN rows -> 1 .. MaxRevision]
    BY <2>1, <2>2, UpdateRowType DEF TypeOK
  <2>4. call' = [call EXCEPT ![h] = [at |-> "bump", todo |-> {}]] /\ UNCHANGED job
    BY <1>3 DEF ReplaceItems, SoftDelete
  <2>5. [at |-> "bump", todo |-> {}] \in WriteCall
    BY DEF WriteCall
  <2>6. HandlersOK'
    BY <2>3, <2>4, <2>5, WrittenType DEF TypeOK
  <2> QED
    BY <1>3, <2>3, <2>6 DEF ReplaceItems, SoftDelete, TypeOK, TablesOK, CacheOK
<1> QED
  BY <1>2, <1>3

LEMMA CreateType ==
  ASSUME TypeOK, NEW h \in Handler, NEW S \in SUBSET Outfit,
         NEW names \in [S -> Name], Create(h, names)
  PROVE  TypeOK'
<1> DEFINE row(o) == [name |-> names[o], rev |-> 1, deleted |-> FALSE,
                      likeCount |-> 0, viewCount |-> 0, vector |-> NoName]
           todo == {<<o, names[o]>> : o \in DOMAIN names}
<1>1. \A o \in S : row(o) \in OutfitRow
  BY CatalogConstants DEF OutfitRow
<1>2. /\ DOMAIN rows' = DOMAIN rows \cup S
      /\ DOMAIN rows' \subseteq Outfit
      /\ \A o \in DOMAIN rows' :
           rows'[o] = IF o \in DOMAIN rows THEN rows[o] ELSE row(o)
      /\ rows' = [o \in DOMAIN rows' |-> rows'[o]]
  BY DEF Create, TypeOK, TablesOK
<1> HIDE DEF row
<1>3. rows' \in [DOMAIN rows' -> OutfitRow]
  BY <1>1, <1>2 DEF TypeOK, TablesOK
<1>4. items' \in [DOMAIN rows' -> 1 .. MaxRevision]
  BY <1>2, CatalogConstants DEF Create, TypeOK, TablesOK
<1>5. [at |-> "bump", todo |-> todo] \in WriteCall
  BY DEF WriteCall
<1>6. HandlersOK'
  BY <1>2, <1>5, WrittenType DEF Create, TypeOK
<1> QED
  BY <1>2, <1>3, <1>4, <1>6 DEF Create, TypeOK, TablesOK, CacheOK

LEMMA EngagementType ==
  ASSUME TypeOK, NEW h \in Handler, NEW o \in DOMAIN rows,
         \/ Like(h, o) \/ Unlike(h, o) \/ RecordView(h, o)
  PROVE  TypeOK'
<1>1. /\ o \in Outfit /\ rows[o].likeCount \in Nat /\ rows[o].viewCount \in Nat
      /\ OneLess(rows[o].likeCount) \in Nat
      /\ rows[o].likeCount + 1 \in Nat /\ rows[o].viewCount + 1 \in Nat
  BY DEF TypeOK, TablesOK, OutfitRow, OneLess
<1>2. /\ DOMAIN rows' = DOMAIN rows
      /\ rows' \in [DOMAIN rows -> OutfitRow]
  <2>1. CASE UNCHANGED rows
    BY <2>1 DEF TypeOK, TablesOK
  <2>2. CASE ~UNCHANGED rows
    <3>1. CASE Like(h, o)
      <4>1. rows' = [rows EXCEPT ![o] =
                        Counted(o, rows[o].likeCount + 1, rows[o].viewCount)]
        BY <2>2, <3>1 DEF Like
      <4> QED
        BY <1>1, <4>1, CountedType DEF TypeOK
    <3>2. CASE Unlike(h, o)
      <4>1. rows' = [rows EXCEPT ![o] = Counted(o, OneLess(rows[o].likeCount),
                                                rows[o].viewCount)]
        BY <2>2, <3>2 DEF Unlike
      <4> QED
        BY <1>1, <4>1, CountedType DEF TypeOK
    <3>3. CASE RecordView(h, o)
      <4>1. rows' = [rows EXCEPT ![o] =
                        Counted(o, rows[o].likeCount, rows[o].viewCount + 1)]
        BY <2>2, <3>3 DEF RecordView
      <4> QED
        BY <1>1, <4>1, CountedType DEF TypeOK
    <3> QED
      BY <3>1, <3>2, <3>3
  <2> QED
    BY <2>1, <2>2
<1>3. likes' \subseteq Outfit \X Player
  <2>1. CASE Like(h, o)
    <3>1. call[h].request.arg \in Player
      BY <2>1, LoadedShape, RequestShape DEF Like, Loaded, TypeOK
    <3> QED
      BY <1>1, <2>1, <3>1 DEF Like, TypeOK, TablesOK
  <2> QED
    BY <2>1 DEF Unlike, RecordView, TypeOK, TablesOK
<1>4. views' \in [Outfit -> 0 .. MaxViews]
  BY <1>1, CatalogConstants DEF Like, Unlike, RecordView, TypeOK, TablesOK
<1>5. HandlersOK'
  BY <1>2, WrittenType DEF Like, Unlike, RecordView, TypeOK
<1>6. UNCHANGED <<items, version, entries, published>>
  BY DEF Like, Unlike, RecordView
<1> QED
  BY <1>2, <1>3, <1>4, <1>5, <1>6 DEF TypeOK, TablesOK, CacheOK

-----------------------------------------------------------------------------
LEMMA InvalidateType ==
  ASSUME TypeOK, Invalidate
  PROVE  version' \in Nat /\ published' \in [Outfit -> 0 .. MaxRevision]
BY CatalogConstants DEF Invalidate, TypeOK, TablesOK, CacheOK, OutfitRow

LEMMA AfterWriteType ==
  ASSUME TypeOK, NEW h \in Handler, BumpVersion(h) \/ EmbedName(h)
  PROVE  TypeOK'
<1>1. call[h] \in WriteCall
  BY CallShape DEF BumpVersion, EmbedName, At, TypeOK
<1>2. CASE BumpVersion(h)
  <2> DEFINE c == IF call[h].todo = {} THEN Idle
                  ELSE [at |-> "embed", todo |-> call[h].todo]
  <2>1. c \in {Idle} \cup WriteCall
    BY <1>1 DEF WriteCall
  <2>2. call' = [call EXCEPT ![h] = c] /\ UNCHANGED <<rows, job>>
    BY <1>2 DEF BumpVersion
  <2> HIDE DEF c
  <2>3. HandlersOK'
    BY <2>1, <2>2, WrittenType DEF TypeOK
  <2> QED
    BY <1>2, <2>3, InvalidateType DEF BumpVersion, TypeOK, TablesOK, CacheOK
<1>3. CASE EmbedName(h)
  <2>1. PICK t \in call[h].todo :
          /\ \/ \E s \in Slot :
                  job' = [job EXCEPT ![s] = [at |-> "embed", outfit |-> t[1],
                                             name |-> t[2]]]
             \/ UNCHANGED job
          /\ call' = [call EXCEPT ![h] = IF call[h].todo = {t} THEN Idle
                             ELSE [at |-> "embed", todo |-> call[h].todo \ {t}]]
    BY <1>3 DEF EmbedName
  <2> DEFINE c == IF call[h].todo = {t} THEN Idle
                  ELSE [at |-> "embed", todo |-> call[h].todo \ {t}]
  <2>2. c \in {Idle} \cup WriteCall
    BY <1>1 DEF WriteCall
  <2>3. [at |-> "embed", outfit |-> t[1], name |-> t[2]] \in Job
    BY <1>1 DEF WriteCall, Job
  <2>4. job' \in [Slot -> {Free} \cup Job]
    BY <2>1, <2>3 DEF TypeOK, HandlersOK
  <2>5. call' = [call EXCEPT ![h] = c] /\ UNCHANGED rows
    BY <1>3, <2>1 DEF EmbedName
  <2> HIDE DEF c
  <2>6. \A g \in Handler : SightOK(call[g])'
    <3>1. SightOK(c)
      BY <2>2, IdleSight
    <3> QED
      BY <2>5, <3>1 DEF TypeOK, HandlersOK, SightOK
  <2>7. HandlersOK'
    BY <2>2, <2>4, <2>5, <2>6 DEF TypeOK, HandlersOK
  <2> QED
    BY <1>3, <2>7 DEF EmbedName, TypeOK, TablesOK, CacheOK
<1> QED
  BY <1>2, <1>3

LEMMA EmbeddingType ==
  ASSUME TypeOK, NEW s \in Slot, Embedding(s)
  PROVE  TypeOK'
<1>1. ASSUME job' \in [Slot -> {Free} \cup Job], UNCHANGED call,
             DOMAIN rows \subseteq DOMAIN rows'
      PROVE  HandlersOK'
  BY <1>1 DEF TypeOK, HandlersOK, SightOK
<1>2. CASE SetNameEmbedding(s)
  <2>1. job[s] \in Job
    BY <1>2 DEF SetNameEmbedding, TypeOK, HandlersOK, Free
  <2>2. job' \in [Slot -> {Free} \cup Job]
    BY <1>2, <2>1 DEF SetNameEmbedding, TypeOK, HandlersOK, Job
  <2>3. DOMAIN rows' = DOMAIN rows /\ rows' \in [DOMAIN rows -> OutfitRow]
    BY <1>2, <2>1 DEF SetNameEmbedding, TypeOK, TablesOK, Job, OutfitRow
  <2> QED
    BY <1>1, <1>2, <2>2, <2>3 DEF SetNameEmbedding, TypeOK, TablesOK, CacheOK
<1>3. CASE BumpAfterEmbedding(s)
  <2>1. HandlersOK'
    BY <1>1, <1>3 DEF BumpAfterEmbedding, TypeOK, HandlersOK
  <2> QED
    BY <1>3, <2>1, InvalidateType DEF BumpAfterEmbedding, TypeOK, TablesOK, CacheOK
<1>4. CASE EmbeddingFails(s)
  <2>1. HandlersOK'
    BY <1>1, <1>4 DEF EmbeddingFails, TypeOK, HandlersOK
  <2> QED
    BY <1>4, <2>1 DEF EmbeddingFails, TypeOK, TablesOK, CacheOK
<1> QED
  BY <1>2, <1>3, <1>4 DEF Embedding

LEMMA WritingType ==
  ASSUME TypeOK, NEW h \in Handler, Writing(h)
  PROVE  TypeOK'
<1>1. ASSUME NEW o, Gone(h, o)
      PROVE  TypeOK'
  <2>1. HandlersOK'
    BY <1>1, WrittenType DEF Gone, TypeOK
  <2> QED
    BY <1>1, <2>1 DEF Gone, TypeOK, TablesOK, CacheOK
<1> QED
  BY <1>1, CreateType, UpdateType, EngagementType, AfterWriteType DEF Writing

LEMMA TypeStep == TypeOK /\ [Next]_vars => TypeOK'
<1> SUFFICES ASSUME TypeOK, [Next]_vars
             PROVE  TypeOK'
  OBVIOUS
<1>1. ASSUME NEW h \in Handler, Stop(h)
      PROVE  TypeOK'
  <2>1. HandlersOK'
    BY <1>1, WrittenType DEF Stop, TypeOK
  <2> QED
    BY <1>1, <2>1 DEF Stop, TypeOK, TablesOK, CacheOK
<1>2. CASE UNCHANGED vars
  BY <1>2 DEF vars, TypeOK, TablesOK, CacheOK, HandlersOK, SightOK
<1> QED
  BY <1>1, <1>2, ReadingType, WritingType, EmbeddingType DEF Next

(* Whatever requests, embeddings and failures interleave, the tables, the  *)
(* cache and every request and job in flight hold values of their types.   *)
THEOREM TypeCorrect == Spec => []TypeOK
BY InitType, TypeStep, PTL DEF Spec

-----------------------------------------------------------------------------
(***************************************************************************)
(* Fresh reads: the inductive invariant                                    *)
(***************************************************************************)

Reader(h) == call[h].at \in Reads

Zero == [o \in Outfit |-> 0]

(* What a reader relies on: what had been invalidated when it read the     *)
(* version, or nothing when it did not get it.                             *)
Floor(h) == IF call[h].known THEN call[h].floor ELSE Zero

\* What was seen of the outfits is not older than floor.
Covers(seen, floor, outfits) ==
  \A o \in outfits : seen[o].rev >= floor[o] /\ seen[o].items >= floor[o]

(* Row and items of an outfit are of one write, and what was invalidated   *)
(* is in the tables; under version 0 that is nothing.                      *)
TablesAhead ==
  /\ \A o \in DOMAIN rows : items[o] = rows[o].rev /\ published[o] <= rows[o].rev
  /\ \A o \in Outfit \ DOMAIN rows : published[o] = 0
  /\ version = 0 => published = Zero

(* Readers that read the same version have the same floor, that of the     *)
(* last invalidation if the version is current.                            *)
FloorsOfVersions ==
  \A h \in Handler : Reader(h) =>
    /\ call[h].v <= version
    /\ \A o \in Outfit : Floor(h)[o] <= published[o]
    /\ call[h].v = version => Floor(h) = published
    /\ call[h].v = 0 => Floor(h) = Zero
    /\ \A g \in Handler :
         Reader(g) /\ call[g].v = call[h].v => Floor(g) = Floor(h)

(* An entry is fresh for all who read its version, now and later.          *)
EntriesFresh ==
  \A k \in DOMAIN entries :
    /\ k[1] <= version
    /\ k[1] = version => Covers(entries[k], published, k[2].of)
    /\ \A h \in Handler : Reader(h) /\ call[h].v = k[1]
                            => Covers(entries[k], Floor(h), k[2].of)

(* So is what a reader has seen up to now.                                 *)
SightFresh(h) ==
  /\ At(h, "items") => \A o \in call[h].request.page.of :
                         call[h].seen[o].rev >= Floor(h)[o]
  /\ call[h].at \in {"set", "loaded"}
       => Covers(call[h].seen, Floor(h), call[h].request.page.of)

FreshInv ==
  /\ TypeOK
  /\ TablesAhead
  /\ FloorsOfVersions
  /\ EntriesFresh
  /\ \A h \in Handler : SightFresh(h)

-----------------------------------------------------------------------------
(***************************************************************************)
(* What steps do to readers                                                *)
(***************************************************************************)

\* Those who read after the step are where they were.
Untouched == \A g \in Handler : Reader(g)' => call'[g] = call[g]

\* Those who read after the step read with the version they had.
SameVersions ==
  \A g \in Handler : Reader(g)' =>
    /\ Reader(g)
    /\ call'[g].v = call[g].v
    /\ Floor(g)' = Floor(g)
    /\ call'[g].request = call[g].request

LEMMA UntouchedVersions == Untouched => SameVersions
BY DEF Untouched, SameVersions, Reader, Floor

LEMMA ContinueVersions ==
  ASSUME HandlersOK, NEW h \in Handler, Reader(h), NEW where, NEW seen,
         Continue(h, where, seen)
  PROVE  SameVersions
<1>1. call[h] \in ReadCall
  BY CallShape DEF Reader
<1>2. ASSUME NEW g \in Handler, Reader(g)'
      PROVE  /\ Reader(g)
             /\ call'[g].v = call[g].v
             /\ Floor(g)' = Floor(g)
             /\ call'[g].request = call[g].request
  <2>1. CASE g = h
    BY <2>1 DEF Continue, HandlersOK, Floor
  <2>2. CASE g # h
    BY <1>2, <2>2 DEF Continue, HandlersOK, Reader, Floor
  <2> QED
    BY <2>1, <2>2
<1> QED
  BY <1>2 DEF SameVersions

(* A handler that is given no reading position leaves the others alone.    *)
LEMMA LeftUntouched ==
  ASSUME HandlersOK, NEW h \in Handler, NEW c, c.at \notin Reads,
         call' = [call EXCEPT ![h] = c]
  PROVE  Untouched
BY DEF HandlersOK, Untouched, Reader

LEMMA WritingUntouched ==
  ASSUME HandlersOK, NEW h \in Handler, Writing(h) \/ Stop(h) \/ Answer(h)
  PROVE  Untouched /\ UNCHANGED entries
<1>1. Idle.at \notin Reads
  BY DEF Idle, Reads
<1>2. ASSUME NEW todo, NEW where \in {"bump", "embed"}
      PROVE  [at |-> where, todo |-> todo].at \notin Reads
  BY DEF Reads
<1>3. ASSUME NEW names, Create(h, names)
      PROVE  Untouched /\ UNCHANGED entries
  BY <1>2, <1>3, LeftUntouched DEF Create
<1>4. ASSUME NEW o, Patch(h, o) \/ ReplaceItems(h, o) \/ SoftDelete(h, o)
      PROVE  Untouched /\ UNCHANGED entries
  BY <1>2, <1>4, LeftUntouched DEF Patch, ReplaceItems, SoftDelete
<1>5. ASSUME NEW o, Gone(h, o) \/ Like(h, o) \/ Unlike(h, o) \/ RecordView(h, o)
      PROVE  Untouched /\ UNCHANGED entries
  BY <1>1, <1>5, LeftUntouched DEF Gone, Like, Unlike, RecordView
<1>6. CASE BumpVersion(h)
  BY <1>1, <1>2, <1>6, LeftUntouched DEF BumpVersion
<1>7. CASE EmbedName(h)
  BY <1>1, <1>2, <1>7, LeftUntouched DEF EmbedName
<1>8. CASE Stop(h) \/ Answer(h)
  BY <1>1, <1>8, LeftUntouched DEF Stop, Answer
<1> QED
  BY <1>3, <1>4, <1>5, <1>6, <1>7, <1>8 DEF Writing

LEMMA EmbeddingUntouched ==
  ASSUME NEW s \in Slot, Embedding(s)
  PROVE  Untouched /\ UNCHANGED entries
BY DEF Embedding, SetNameEmbedding, BumpAfterEmbedding, EmbeddingFails, Untouched

-----------------------------------------------------------------------------
(***************************************************************************)
(* Each part of the invariant is kept                                      *)
(***************************************************************************)

(* A step invalidates, without touching the tables, or leaves version and  *)
(* published alone.                                                        *)
LEMMA VersionStep ==
  ASSUME [Next]_vars
  PROVE  \/ Invalidate /\ UNCHANGED <<rows, items>>
         \/ UNCHANGED <<version, published>>
<1>1. ASSUME NEW h \in Handler, Reading(h)
      PROVE  UNCHANGED <<version, published>>
  BY <1>1 DEF Reading, ReadVersion, Lookup, ReadRows, ReadItems, StoreEntry, Answer
<1>2. ASSUME NEW h \in Handler, Writing(h)
      PROVE  \/ Invalidate /\ UNCHANGED <<rows, items>>
             \/ UNCHANGED <<version, published>>
  BY <1>2 DEF Writing, Create, Gone, Patch, ReplaceItems, SoftDelete, Like, Unlike,
              RecordView, BumpVersion, EmbedName
<1>3. ASSUME NEW s \in Slot, Embedding(s)
      PROVE  \/ Invalidate /\ UNCHANGED <<rows, items>>
             \/ UNCHANGED <<version, published>>
  BY <1>3 DEF Embedding, SetNameEmbedding, BumpAfterEmbedding, EmbeddingFails
<1>4. ASSUME NEW h \in Handler, Stop(h)
      PROVE  UNCHANGED <<version, published>>
  BY <1>4 DEF Stop
<1> QED
  BY <1>1, <1>2, <1>3, <1>4 DEF Next, vars

(* What is invalidated is in the tables, and not before what was, under a  *)
(* version that is not 0.                                                  *)
LEMMA InvalidateAhead ==
  ASSUME TypeOK, TablesAhead, Invalidate
  PROVE  /\ \/ UNCHANGED <<version, published>>
            \/ /\ version' = version + 1
               /\ \A o \in Outfit : published'[o] >= published[o]
         /\ \A o \in DOMAIN rows : published'[o] <= rows[o].rev
         /\ \A o \in Outfit \ DOMAIN rows : published'[o] = 0
         /\ version' = 0 => published' = Zero
<1>1. /\ DOMAIN rows \subseteq Outfit
      /\ \A o \in DOMAIN rows : rows[o].rev \in Int
      /\ \A o \in Outfit : published[o] \in Int
      /\ version \in Nat
  BY DEF TypeOK, TablesOK, CacheOK, OutfitRow
<1>2. CASE UNCHANGED <<version, published>>
  BY <1>2 DEF TablesAhead
<1>3. CASE /\ version' = version + 1
           /\ published' = [o \in Outfit |->
                              IF o \in DOMAIN rows THEN rows[o].rev ELSE 0]
  BY <1>1, <1>3 DEF TablesAhead
<1> QED
  BY <1>2, <1>3 DEF Invalidate

LEMMA UpdateAhead ==
  ASSUME TypeOK, TablesAhead, NEW h, NEW o \in DOMAIN rows, NEW name, NEW deleted,
         UpdateRow(h, o, name, deleted), UNCHANGED <<version, published>>
  PROVE  TablesAhead'
<1>1. /\ o \in Outfit /\ rows[o].rev \in Int /\ published[o] \in Int
      /\ rows = [x \in DOMAIN rows |-> rows[x]]
      /\ items = [x \in DOMAIN rows |-> items[x]]
  BY DEF TypeOK, TablesOK, CacheOK, OutfitRow
<1>2. Rewritten(o, name, rows[o].deleted \/ deleted).rev = rows[o].rev + 1
  BY DEF Rewritten
<1>3. /\ DOMAIN rows' = DOMAIN rows
      /\ rows'[o].rev = rows[o].rev + 1 /\ items'[o] = rows[o].rev + 1
      /\ \A x \in DOMAIN rows \ {o} : rows'[x] = rows[x] /\ items'[x] = items[x]
  BY <1>1, <1>2 DEF UpdateRow
<1> QED
  BY <1>1, <1>3 DEF TablesAhead

LEMMA CreateAhead ==
  ASSUME TypeOK, TablesAhead, NEW h \in Handler, NEW S \in SUBSET Outfit,
         NEW names \in [S -> Name], Create(h, names)
  PROVE  TablesAhead'
<1>1. /\ DOMAIN rows' = DOMAIN rows \cup S
      /\ \A o \in DOMAIN rows : rows'[o] = rows[o] /\ items'[o] = items[o]
      /\ \A o \in S : o \notin DOMAIN rows /\ rows'[o].rev = 1 /\ items'[o] = 1
  BY DEF Create
<1>2. UNCHANGED <<version, published>>
  BY DEF Create
<1> QED
  BY <1>1, <1>2 DEF TablesAhead

(* Engagement and embeddings leave the rev of a row alone.                 *)
LEMMA CountedAhead ==
  ASSUME TypeOK, TablesAhead, UNCHANGED <<items, version, published>>,
         DOMAIN rows' = DOMAIN rows,
         \A o \in DOMAIN rows : rows'[o].rev = rows[o].rev
  PROVE  TablesAhead'
BY DEF TablesAhead

LEMMA EngagementRevs ==
  ASSUME TypeOK, NEW h \in Handler, NEW x \in DOMAIN rows,
         Like(h, x) \/ Unlike(h, x) \/ RecordView(h, x)
  PROVE  /\ UNCHANGED <<items, version, published>>
         /\ DOMAIN rows' = DOMAIN rows
         /\ \A o \in DOMAIN rows : rows'[o].rev = rows[o].rev
<1>1. rows = [o \in DOMAIN rows |-> rows[o]]
  BY DEF TypeOK, TablesOK
<1>2. \A m, n : Counted(x, m, n).rev = rows[x].rev
  BY DEF Counted
<1>3. UNCHANGED rows \/ \E m, n : rows' = [rows EXCEPT ![x] = Counted(x, m, n)]
  BY DEF Like, Unlike, RecordView
<1>4. UNCHANGED <<items, version, published>>
  BY DEF Like, Unlike, RecordView
<1> QED
  BY <1>1, <1>2, <1>3, <1>4

LEMMA TablesStep ==
  ASSUME TypeOK, TablesAhead, [Next]_vars
  PROVE  TablesAhead'
<1>1. CASE UNCHANGED <<rows, items, version, published>>
  BY <1>1 DEF TablesAhead
<1>2. CASE Invalidate /\ UNCHANGED <<rows, items>>
  BY <1>2, InvalidateAhead DEF TablesAhead
<1>3. ASSUME NEW h \in Handler, NEW o \in DOMAIN rows,
             Patch(h, o) \/ ReplaceItems(h, o) \/ SoftDelete(h, o)
      PROVE  TablesAhead'
  <2>1. /\ UNCHANGED <<version, published>>
        /\ \E name, deleted : UpdateRow(h, o, name, deleted)
    BY <1>3 DEF Patch, ReplaceItems, SoftDelete
  <2> QED
    BY <2>1, UpdateAhead
<1>4. ASSUME NEW h \in Handler, NEW o \in DOMAIN rows,
             Like(h, o) \/ Unlike(h, o) \/ RecordView(h, o)
      PROVE  TablesAhead'
  BY <1>4, EngagementRevs, CountedAhead
<1>5. ASSUME NEW h \in Handler, Reading(h) \/ Stop(h)
      PROVE  UNCHANGED <<rows, items, version, published>>
  BY <1>5 DEF Reading, ReadVersion, Lookup, ReadRows, ReadItems, StoreEntry, Answer,
              Stop
<1>6. ASSUME NEW h \in Handler, Writing(h)
      PROVE  TablesAhead'
  <2>1. ASSUME NEW o, Gone(h, o)
        PROVE  UNCHANGED <<rows, items, version, published>>
    BY <2>1 DEF Gone
  <2>2. CASE BumpVersion(h)
    BY <1>2, <2>2 DEF BumpVersion
  <2>3. CASE EmbedName(h)
    BY <1>1, <2>3 DEF EmbedName
  <2> QED
    BY <1>1, <1>3, <1>4, <1>6, <2>1, <2>2, <2>3, CreateAhead DEF Writing
<1>7. ASSUME NEW s \in Slot, Embedding(s)
      PROVE  TablesAhead'
  <2>1. CASE SetNameEmbedding(s)
    <3>1. rows = [o \in DOMAIN rows |-> rows[o]]
      BY DEF TypeOK, TablesOK
    <3> QED
      BY <2>1, <3>1, CountedAhead DEF SetNameEmbedding
  <2>2. CASE BumpAfterEmbedding(s)
    BY <1>2, <2>2 DEF BumpAfterEmbedding
  <2>3. CASE EmbeddingFails(s)
    BY <1>1, <2>3 DEF EmbeddingFails
  <2> QED
    BY <1>7, <2>1, <2>2, <2>3 DEF Embedding
<1> QED
  BY <1>1, <1>5, <1>6, <1>7 DEF Next, vars

-----------------------------------------------------------------------------
LEMMA ReadingVersions ==
  ASSUME HandlersOK, NEW h \in Handler,
         Lookup(h) \/ ReadRows(h) \/ ReadItems(h) \/ StoreEntry(h)
  PROVE  SameVersions
<1>1. Reader(h)
  BY DEF Lookup, ReadRows, ReadItems, StoreEntry, At, Reader, Reads
<1>2. CASE call' = [call EXCEPT ![h] = Idle]
  BY <1>2, LeftUntouched, UntouchedVersions DEF Idle, Reads
<1>3. (\E where, seen : Continue(h, where, seen)) \/ call' = [call EXCEPT ![h] = Idle]
  BY DEF Lookup, ReadRows, ReadItems, StoreEntry
<1> QED
  BY <1>1, <1>2, <1>3, ContinueVersions

(* A read that starts has the current version, or 0 and nothing to rely on.*)
LEMMA StartShape ==
  ASSUME HandlersOK, NEW h \in Handler, NEW request,
         ReadVersion(h, request)
  PROVE  /\ call'[h].at = "lookup"
         /\ \/ call'[h].v = version /\ Floor(h)' = published
            \/ call'[h].v = 0 /\ Floor(h)' = Zero
         /\ \A g \in Handler \ {h} : call'[g] = call[g]
         /\ UNCHANGED <<rows, items, version, entries, published>>
<1>1. PICK known \in BOOLEAN :
        call' = [call EXCEPT ![h] =
                   [at |-> "lookup", request |-> request,
                    v |-> IF known THEN version ELSE 0, known |-> known,
                    floor |-> published,
                    seen |-> [o \in request.page.of |-> Absent]]]
  BY DEF ReadVersion
<1>2. UNCHANGED <<rows, items, version, entries, published>>
  BY DEF ReadVersion
<1>3. /\ call'[h].at = "lookup" /\ call'[h].known = known
      /\ call'[h].v = IF known THEN version ELSE 0
      /\ call'[h].floor = published
      /\ \A g \in Handler \ {h} : call'[g] = call[g]
  BY <1>1 DEF HandlersOK
<1> QED
  BY <1>2, <1>3 DEF Floor

(* Every step starts a read or keeps the version of all readers.           *)
LEMMA VersionsKept ==
  ASSUME HandlersOK, [Next]_vars
  PROVE  \/ SameVersions
         \/ \E h \in Handler, request \in Request : ReadVersion(h, request)
<1>1. ASSUME NEW h \in Handler, Writing(h) \/ Stop(h) \/ Answer(h)
      PROVE  SameVersions
  BY <1>1, WritingUntouched, UntouchedVersions
<1>2. ASSUME NEW s \in Slot, Embedding(s)
      PROVE  SameVersions
  BY <1>2, EmbeddingUntouched, UntouchedVersions
<1>3. CASE UNCHANGED vars
  BY <1>3, UntouchedVersions DEF vars, Untouched
<1> QED
  BY <1>1, <1>2, <1>3, ReadingVersions DEF Next, Reading

LEMMA ReaderTypes ==
  ASSUME TypeOK, NEW h \in Handler, Reader(h)
  PROVE  /\ call[h].v \in Nat
         /\ Floor(h) \in [Outfit -> 0 .. MaxRevision]
         /\ call[h].request.page.of \subseteq Outfit
BY CallShape, RequestShape, PageShape, CatalogConstants
   DEF TypeOK, Reader, ReadCall, Floor, Zero

(* Who relies on nothing is given nothing older.                           *)
LEMMA ZeroCovered ==
  ASSUME TypeOK, NEW k \in DOMAIN entries
  PROVE  Covers(entries[k], Zero, k[2].of)
<1>1. k[2] \in Page /\ entries[k] \in [k[2].of -> Seen]
  BY DEF TypeOK, CacheOK
<1>2. k[2].of \subseteq Outfit
  BY <1>1, PageShape
<1> QED
  BY <1>1, <1>2 DEF Covers, Zero, Seen

LEMMA FloorsStep ==
  ASSUME TypeOK, TablesAhead, FloorsOfVersions, [Next]_vars
  PROVE  FloorsOfVersions'
<1>1. version \in Nat /\ \A o \in Outfit : published[o] \in Int
  BY DEF TypeOK, CacheOK
<1>2. ASSUME NEW h \in Handler, NEW request \in Request, ReadVersion(h, request)
      PROVE  FloorsOfVersions'
  <2>1. /\ \/ call'[h].v = version /\ Floor(h)' = published
           \/ call'[h].v = 0 /\ Floor(h)' = Zero
        /\ \A g \in Handler \ {h} : call'[g] = call[g]
        /\ UNCHANGED <<version, published>>
    BY <1>2, StartShape DEF TypeOK
  <2>2. \A g \in Handler \ {h} : Reader(g)' => Reader(g) /\ Floor(g)' = Floor(g)
    BY <2>1 DEF Reader, Floor
  <2>3. version = 0 => published = Zero
    BY DEF TablesAhead
  <2>4. \A o \in Outfit : Zero[o] <= published[o]
    BY DEF Zero, TypeOK, CacheOK
  <2>5. /\ call'[h].v <= version'
        /\ \A o \in Outfit : Floor(h)'[o] <= published'[o]
        /\ call'[h].v = version' => Floor(h)' = published'
        /\ call'[h].v = 0 => Floor(h)' = Zero
    BY <1>1, <2>1, <2>3, <2>4
  <2>6. ASSUME NEW g \in Handler \ {h}, Reader(g)'
        PROVE  /\ call'[g].v <= version'
               /\ \A o \in Outfit : Floor(g)'[o] <= published'[o]
               /\ call'[g].v = version' => Floor(g)' = published'
               /\ call'[g].v = 0 => Floor(g)' = Zero
               /\ call'[g].v = call'[h].v => Floor(g)' = Floor(h)'
    BY <2>1, <2>2, <2>3, <2>6 DEF FloorsOfVersions
  <2>7. ASSUME NEW f \in Handler \ {h}, NEW g \in Handler \ {h}, Reader(f)', Reader(g)',
               call'[g].v = call'[f].v
        PROVE  Floor(g)' = Floor(f)'
    BY <2>1, <2>2, <2>7 DEF FloorsOfVersions
  <2> QED
    BY <2>5, <2>6, <2>7 DEF FloorsOfVersions
<1>3. CASE SameVersions
  <2>1. \/ UNCHANGED <<version, published>>
        \/ /\ version' = version + 1
           /\ \A o \in Outfit : published'[o] >= published[o]
    BY VersionStep, InvalidateAhead
  <2>2. ASSUME NEW h \in Handler, Reader(h)'
        PROVE  /\ call'[h].v <= version'
               /\ \A o \in Outfit : Floor(h)'[o] <= published'[o]
               /\ call'[h].v = version' => Floor(h)' = published'
               /\ call'[h].v = 0 => Floor(h)' = Zero
    <3>1. /\ Reader(h) /\ call'[h].v = call[h].v /\ Floor(h)' = Floor(h)
      BY <1>3, <2>2 DEF SameVersions
    <3>2. call[h].v \in Nat /\ \A o \in Outfit : Floor(h)[o] \in Int
      BY <3>1, ReaderTypes
    <3>3. published' \in [Outfit -> 0 .. MaxRevision]
      BY TypeStep DEF TypeOK, CacheOK
    <3> QED
      BY <1>1, <2>1, <3>1, <3>2, <3>3 DEF FloorsOfVersions
  <2>3. ASSUME NEW h \in Handler, NEW g \in Handler, Reader(h)', Reader(g)',
               call'[g].v = call'[h].v
        PROVE  Floor(g)' = Floor(h)'
    BY <1>3, <2>3 DEF SameVersions, FloorsOfVersions
  <2> QED
    BY <2>2, <2>3 DEF FloorsOfVersions
<1> QED
  BY <1>2, <1>3, VersionsKept DEF TypeOK

LEMMA EntriesStep ==
  ASSUME FreshInv, [Next]_vars
  PROVE  EntriesFresh'
<1>1. version \in Nat
  BY DEF FreshInv, TypeOK, CacheOK
<1>2. ASSUME NEW h \in Handler, NEW request \in Request, ReadVersion(h, request)
      PROVE  EntriesFresh'
  <2>1. /\ \/ call'[h].v = version /\ Floor(h)' = published
           \/ call'[h].v = 0 /\ Floor(h)' = Zero
        /\ \A g \in Handler \ {h} : call'[g] = call[g]
        /\ UNCHANGED <<version, published, entries>>
    BY <1>2, StartShape DEF FreshInv, TypeOK
  <2>2. \A g \in Handler \ {h} : Reader(g)' => Reader(g) /\ Floor(g)' = Floor(g)
    BY <2>1 DEF Reader, Floor
  <2>3. ASSUME NEW k \in DOMAIN entries, call'[h].v = k[1]
        PROVE  Covers(entries[k], Floor(h)', k[2].of)
    BY <2>1, <2>3, ZeroCovered DEF FreshInv, EntriesFresh
  <2>4. ASSUME NEW k \in DOMAIN entries, NEW g \in Handler \ {h}, Reader(g)',
               call'[g].v = k[1]
        PROVE  Covers(entries[k], Floor(g)', k[2].of)
    BY <2>1, <2>2, <2>4 DEF FreshInv, EntriesFresh
  <2>5. \A k \in DOMAIN entries : /\ k[1] <= version
                                  /\ k[1] = version => Covers(entries[k], published, k[2].of)
    BY DEF FreshInv, EntriesFresh
  <2> QED
    BY <2>1, <2>3, <2>4, <2>5 DEF EntriesFresh
<1>3. CASE SameVersions /\ UNCHANGED entries
  <2>1. UNCHANGED <<version, published>> \/ version' = version + 1
    BY VersionStep, InvalidateAhead DEF FreshInv
  <2>2. ASSUME NEW k \in DOMAIN entries
        PROVE  /\ k[1] <= version'
               /\ k[1] = version' => Covers(entries[k], published', k[2].of)
               /\ \A h \in Handler : Reader(h)' /\ call'[h].v = k[1]
                    => Covers(entries[k], Floor(h)', k[2].of)
    <3>1. k[1] \in Nat
      BY DEF FreshInv, TypeOK, CacheOK
    <3>2. /\ k[1] <= version
          /\ k[1] = version => Covers(entries[k], published, k[2].of)
          /\ \A h \in Handler : Reader(h) /\ call[h].v = k[1]
               => Covers(entries[k], Floor(h), k[2].of)
      BY DEF FreshInv, EntriesFresh
    <3>3. k[1] <= version' /\ (k[1] = version' => UNCHANGED <<version, published>>)
      BY <1>1, <2>1, <3>1, <3>2
    <3>4. k[1] = version' => Covers(entries[k], published', k[2].of)
      BY <3>2, <3>3
    <3>5. \A h \in Handler : Reader(h)' /\ call'[h].v = k[1]
            => Covers(entries[k], Floor(h)', k[2].of)
      BY <1>3, <3>2 DEF SameVersions
    <3> QED
      BY <3>3, <3>4, <3>5
  <2> QED
    BY <1>3, <2>2 DEF EntriesFresh
<1>4. ASSUME NEW h \in Handler, StoreEntry(h), ~UNCHANGED entries
      PROVE  EntriesFresh'
  <2>1. /\ Reader(h) /\ SameVersions /\ UNCHANGED <<version, published>>
        /\ Covers(call[h].seen, Floor(h), call[h].request.page.of)
    BY <1>4, ReadingVersions
       DEF StoreEntry, At, Reader, Reads, FreshInv, TypeOK, SightFresh
  <2>2. /\ DOMAIN entries' = DOMAIN entries \cup {Key(h)}
        /\ \A k \in DOMAIN entries' :
             entries'[k] = IF k = Key(h) THEN call[h].seen ELSE entries[k]
    BY <1>4 DEF StoreEntry
  <2>3. ASSUME NEW k \in DOMAIN entries'
        PROVE  /\ k[1] <= version
               /\ k[1] = version => Covers(entries'[k], published, k[2].of)
               /\ \A g \in Handler : Reader(g)' /\ call'[g].v = k[1]
                    => Covers(entries'[k], Floor(g)', k[2].of)
    <3>1. CASE k = Key(h)
      <4>1. /\ entries'[k] = call[h].seen
            /\ k[1] = call[h].v /\ k[2] = call[h].request.page
        BY <2>2, <2>3, <3>1 DEF Key
      <4>2. call[h].v <= version /\ (call[h].v = version => Floor(h) = published)
        BY <2>1 DEF FreshInv, FloorsOfVersions
      <4>3. \A g \in Handler : Reader(g)' /\ call'[g].v = call[h].v
              => Floor(g)' = Floor(h)
        BY <2>1 DEF FreshInv, FloorsOfVersions, SameVersions
      <4> QED
        BY <2>1, <4>1, <4>2, <4>3
    <3>2. CASE k # Key(h)
      <4>1. k \in DOMAIN entries /\ entries'[k] = entries[k]
        BY <2>2, <2>3, <3>2
      <4> QED
        BY <2>1, <4>1 DEF FreshInv, EntriesFresh, SameVersions
    <3> QED
      BY <3>1, <3>2
  <2> QED
    BY <2>1, <2>3 DEF EntriesFresh
<1>5. \/ UNCHANGED entries
      \/ \E h \in Handler : StoreEntry(h)
  BY WritingUntouched, EmbeddingUntouched
     DEF FreshInv, TypeOK, Next, vars, Reading, ReadVersion, Lookup, ReadRows,
         ReadItems
<1> QED
  BY <1>2, <1>3, <1>4, <1>5, VersionsKept DEF FreshInv, TypeOK

-----------------------------------------------------------------------------
(* A handler whose state is as before has seen what it had.                *)
LEMMA SightKept ==
  ASSUME NEW h \in Handler, SightFresh(h), Reader(h)' => call'[h] = call[h]
  PROVE  SightFresh(h)'
BY DEF SightFresh, Reader, Reads, At, Floor

\* The state of handler h after it continued, and of the others.
LEMMA ContinueShape ==
  ASSUME HandlersOK, NEW h \in Handler, NEW where, NEW seen, Continue(h, where, seen)
  PROVE  /\ call'[h].at = where /\ call'[h].seen = seen
         /\ Floor(h)' = Floor(h) /\ call'[h].request = call[h].request
         /\ \A g \in Handler \ {h} : call'[g] = call[g]
BY DEF Continue, HandlersOK, Floor

LEMMA LookupSight ==
  ASSUME FreshInv, NEW h \in Handler, Lookup(h)
  PROVE  \A g \in Handler : SightFresh(g)'
<1>1. Reader(h) /\ HandlersOK
  BY DEF Lookup, At, Reader, Reads, FreshInv, TypeOK
<1>2. CASE Continue(h, "rows", call[h].seen)
  BY <1>1, <1>2, ContinueShape, SightKept DEF FreshInv, SightFresh, At
<1>3. CASE Key(h) \in DOMAIN entries /\ Continue(h, "loaded", entries[Key(h)])
  <2>1. Covers(entries[Key(h)], Floor(h), call[h].request.page.of)
    BY <1>1, <1>3 DEF Key, FreshInv, EntriesFresh
  <2> HIDE DEF Key
  <2>2. SightFresh(h)'
    BY <1>1, <1>3, <2>1, ContinueShape DEF SightFresh, At
  <2> QED
    BY <1>1, <1>3, <2>2, ContinueShape, SightKept DEF FreshInv
<1> QED
  BY <1>2, <1>3 DEF Lookup

(* What the tables hold is not older than what was invalidated before the  *)
(* read began.                                                             *)
LEMMA FloorBehindTables ==
  ASSUME FreshInv, NEW h \in Handler, Reader(h), NEW o \in Outfit
  PROVE  IF o \in DOMAIN rows THEN /\ Floor(h)[o] <= rows[o].rev
                                   /\ Floor(h)[o] <= items[o]
                              ELSE Floor(h)[o] = 0
<1>1. /\ Floor(h)[o] \in Nat /\ published[o] \in Nat
      /\ o \in DOMAIN rows => rows[o].rev \in Nat
  BY ReaderTypes DEF FreshInv, TypeOK, TablesOK, CacheOK, OutfitRow
<1>2. Floor(h)[o] <= published[o]
  BY DEF FreshInv, FloorsOfVersions
<1> QED
  BY <1>1, <1>2 DEF FreshInv, TablesAhead

LEMMA RowsSight ==
  ASSUME FreshInv, NEW h \in Handler, ReadRows(h)
  PROVE  \A g \in Handler : SightFresh(g)'
<1> DEFINE seen == [o \in call[h].request.page.of |-> SeenRow(o)]
<1>1. Reader(h) /\ HandlersOK
  BY DEF ReadRows, At, Reader, Reads, FreshInv, TypeOK
<1>2. CASE call' = [call EXCEPT ![h] = Idle]
  BY <1>1, <1>2, LeftUntouched, SightKept DEF FreshInv, Untouched, Idle, Reads
<1>3. CASE Continue(h, "items", seen)
  <2>1. call[h].request.page.of \subseteq Outfit
    BY <1>1, ReaderTypes DEF FreshInv
  <2>2. ASSUME NEW o \in call[h].request.page.of
        PROVE  seen[o].rev >= Floor(h)[o]
    <3>1. /\ Floor(h)[o] \in Nat
          /\ o \in DOMAIN rows => rows[o].rev \in Nat
      BY <1>1, <2>1, ReaderTypes DEF FreshInv, TypeOK, TablesOK, OutfitRow
    <3> QED
      BY <1>1, <2>1, <3>1, FloorBehindTables DEF SeenRow, Absent
  <2> HIDE DEF seen
  <2>3. SightFresh(h)'
    BY <1>1, <1>3, <2>2, ContinueShape DEF SightFresh, At
  <2> QED
    BY <1>1, <1>3, <2>3, ContinueShape, SightKept DEF FreshInv
<1> QED
  BY <1>2, <1>3 DEF ReadRows

LEMMA ItemsSight ==
  ASSUME FreshInv, NEW h \in Handler, ReadItems(h)
  PROVE  \A g \in Handler : SightFresh(g)'
<1> DEFINE before == call[h].seen
           seen == [o \in call[h].request.page.of |->
             [rev |-> before[o].rev,
              items |-> IF before[o].rev = 0 THEN 0 ELSE items[o],
              name |-> before[o].name, deleted |-> before[o].deleted]]
<1>1. Reader(h) /\ HandlersOK /\ Continue(h, "set", seen)
  BY DEF ReadItems, At, Reader, Reads, FreshInv, TypeOK
<1>2. /\ call[h].request.page.of \subseteq Outfit
      /\ before \in [call[h].request.page.of -> Seen]
  BY <1>1, ReaderTypes, CallShape DEF FreshInv, Reader
<1>3. ASSUME NEW o \in call[h].request.page.of
      PROVE  /\ before[o].rev >= Floor(h)[o]
             /\ (IF before[o].rev = 0 THEN 0 ELSE items[o]) >= Floor(h)[o]
  <2>1. /\ before[o].rev >= Floor(h)[o]
        /\ before[o].rev # 0 => o \in DOMAIN rows
    BY DEF ReadItems, At, FreshInv, SightFresh, TypeOK, HandlersOK, SightOK
  <2>2. /\ Floor(h)[o] \in Nat /\ before[o].rev \in Nat
        /\ o \in DOMAIN rows => items[o] \in Nat
    BY <1>1, <1>2, ReaderTypes DEF FreshInv, TypeOK, TablesOK, Seen
  <2> HIDE DEF before
  <2> QED
    BY <1>1, <1>2, <2>1, <2>2, FloorBehindTables
<1>4. Covers(seen, Floor(h), call[h].request.page.of)
  BY <1>3 DEF Covers
<1> HIDE DEF seen
<1>5. SightFresh(h)'
  BY <1>1, <1>4, ContinueShape DEF SightFresh, At
<1> QED
  BY <1>1, <1>5, ContinueShape, SightKept DEF FreshInv

LEMMA SightStep ==
  ASSUME FreshInv, [Next]_vars
  PROVE  \A g \in Handler : SightFresh(g)'
<1>1. CASE Untouched
  BY <1>1, SightKept DEF FreshInv, Untouched
<1>2. ASSUME NEW h \in Handler, NEW request \in Request, ReadVersion(h, request)
      PROVE  \A g \in Handler : SightFresh(g)'
  <2>1. /\ call'[h].at = "lookup"
        /\ \A g \in Handler \ {h} : call'[g] = call[g]
    BY <1>2, StartShape DEF FreshInv, TypeOK
  <2>2. SightFresh(h)'
    BY <2>1 DEF SightFresh, At
  <2> QED
    BY <2>1, <2>2, SightKept DEF FreshInv
<1>3. ASSUME NEW h \in Handler, StoreEntry(h)
      PROVE  \A g \in Handler : SightFresh(g)'
  <2>1. HandlersOK /\ At(h, "set") /\ Continue(h, "loaded", call[h].seen)
    BY <1>3 DEF StoreEntry, FreshInv, TypeOK
  <2>2. SightFresh(h)'
    BY <2>1, ContinueShape DEF FreshInv, SightFresh, At
  <2> QED
    BY <2>1, <2>2, ContinueShape, SightKept DEF FreshInv
<1>4. CASE UNCHANGED vars
  BY <1>1, <1>4 DEF vars, Untouched
<1> QED
  BY <1>1, <1>2, <1>3, <1>4, LookupSight, RowsSight, ItemsSight, WritingUntouched,
     EmbeddingUntouched DEF FreshInv, TypeOK, Next, Reading

-----------------------------------------------------------------------------
LEMMA FreshInit == Init => FreshInv
<1> SUFFICES ASSUME Init
             PROVE  FreshInv
  OBVIOUS
<1>1. \A h \in Handler : ~Reader(h) /\ SightFresh(h)
  BY DEF Init, Reader, Reads, SightFresh, At, Idle
<1>2. TablesAhead /\ EntriesFresh
  BY DEF Init, TablesAhead, EntriesFresh, Zero
<1> QED
  BY <1>1, <1>2, InitType DEF FreshInv, FloorsOfVersions

LEMMA FreshStep == FreshInv /\ [Next]_vars => FreshInv'
BY TypeStep, TablesStep, FloorsStep, EntriesStep, SightStep DEF FreshInv

(* A read that starts after a write of an outfit was invalidated, and that *)
(* gets the version from Redis, returns neither the row nor the items of   *)
(* before it, whatever slow readers, readers without a version, other      *)
(* writes and lost entries come between its steps (versionedKey,           *)
(* cached.Outfits).                                                        *)
THEOREM ReadsAreFresh == Spec => []NoStaleRead
<1>1. FreshInv => NoStaleRead
  BY DEF FreshInv, SightFresh, NoStaleRead, UpToDate, At, Covers, Floor
<1> QED
  BY <1>1, FreshInit, FreshStep, PTL DEF Spec

-----------------------------------------------------------------------------
(***************************************************************************)
(* Counters and deletion: the inductive invariant                          *)
(***************************************************************************)

LikesOf(o) == {p \in Player : <<o, p>> \in likes}

(* The counters of the rows are right, and what does not exist has neither *)
(* likes nor views, so that a new row may start at zero.  Likes come one   *)
(* by one, so they are finitely many whatever the number of players.       *)
CountersInv ==
  /\ TypeOK
  /\ \A o \in Outfit : IsFiniteSet(LikesOf(o))
  /\ \A o \in DOMAIN rows : /\ rows[o].likeCount = Cardinality(LikesOf(o))
                            /\ rows[o].viewCount = views[o]
  /\ \A o \in Outfit \ DOMAIN rows : LikesOf(o) = {} /\ views[o] = 0

-----------------------------------------------------------------------------
(* What a step does to the counters and to deleted rows, step by step.     *)

\* Rows may be added and changed, but neither their counters nor the log.
CountersUntouched ==
  /\ DOMAIN rows \subseteq DOMAIN rows'
  /\ \A o \in DOMAIN rows : /\ rows'[o].likeCount = rows[o].likeCount
                            /\ rows'[o].viewCount = rows[o].viewCount
                            /\ rows[o].deleted => rows'[o].deleted
  /\ \A o \in DOMAIN rows' \ DOMAIN rows : /\ rows'[o].likeCount = 0
                                           /\ rows'[o].viewCount = 0
  /\ UNCHANGED <<likes, views>>

\* Counters and log of one live outfit change.
Counting(h, o) ==
  /\ ~rows[o].deleted
  /\ Like(h, o) \/ Unlike(h, o) \/ RecordView(h, o)

LEMMA UpdateCounters ==
  ASSUME TypeOK, NEW h \in Handler, NEW x \in DOMAIN rows,
         Patch(h, x) \/ ReplaceItems(h, x) \/ SoftDelete(h, x)
  PROVE  CountersUntouched
<1>1. PICK name, deleted : UpdateRow(h, x, name, deleted)
  BY DEF Patch, ReplaceItems, SoftDelete
<1>2. UNCHANGED <<likes, views>>
  BY DEF Patch, ReplaceItems, SoftDelete
<1> DEFINE row == Rewritten(x, name, rows[x].deleted \/ deleted)
<1>3. /\ row.likeCount = rows[x].likeCount /\ row.viewCount = rows[x].viewCount
      /\ rows[x].deleted => row.deleted
  BY DEF Rewritten
<1>4. rows' = [rows EXCEPT ![x] = row]
  BY <1>1 DEF UpdateRow
<1>5. rows = [o \in DOMAIN rows |-> rows[o]]
  BY DEF TypeOK, TablesOK
<1> HIDE DEF row
<1> QED
  BY <1>2, <1>3, <1>4, <1>5 DEF CountersUntouched

LEMMA Effects ==
  ASSUME TypeOK, [Next]_vars
  PROVE  \/ CountersUntouched
         \/ \E h \in Handler : \E o \in DOMAIN rows : Counting(h, o)
<1>1. rows = [o \in DOMAIN rows |-> rows[o]]
  BY DEF TypeOK, TablesOK
<1>2. UNCHANGED <<rows, likes, views>> => CountersUntouched
  BY DEF CountersUntouched
<1>3. ASSUME NEW h \in Handler, Reading(h) \/ Stop(h)
      PROVE  UNCHANGED <<rows, likes, views>>
  BY <1>3 DEF Reading, ReadVersion, Lookup, ReadRows, ReadItems, StoreEntry, Answer,
              Stop
<1>4. ASSUME NEW s \in Slot, Embedding(s)
      PROVE  CountersUntouched
  <2>1. CASE SetNameEmbedding(s)
    <3>1. /\ DOMAIN rows' = DOMAIN rows
          /\ \A o \in DOMAIN rows : /\ rows'[o].likeCount = rows[o].likeCount
                                    /\ rows'[o].viewCount = rows[o].viewCount
                                    /\ rows'[o].deleted = rows[o].deleted
      BY <1>1, <2>1 DEF SetNameEmbedding
    <3> QED
      BY <2>1, <3>1 DEF SetNameEmbedding, CountersUntouched
  <2>2. CASE BumpAfterEmbedding(s) \/ EmbeddingFails(s)
    BY <1>2, <2>2 DEF BumpAfterEmbedding, EmbeddingFails
  <2> QED
    BY <1>4, <2>1, <2>2 DEF Embedding
<1>5. ASSUME NEW h \in Handler, NEW names, Create(h, names)
      PROVE  CountersUntouched
  <2>1. /\ DOMAIN rows \subseteq DOMAIN rows'
        /\ \A o \in DOMAIN rows : rows'[o] = rows[o]
        /\ \A o \in DOMAIN rows' \ DOMAIN rows : /\ rows'[o].likeCount = 0
                                                 /\ rows'[o].viewCount = 0
        /\ UNCHANGED <<likes, views>>
    BY <1>5 DEF Create
  <2> QED
    BY <2>1 DEF CountersUntouched
<1>6. ASSUME NEW h \in Handler, NEW o \in DOMAIN rows,
             Like(h, o) \/ Unlike(h, o) \/ RecordView(h, o)
      PROVE  CountersUntouched \/ Counting(h, o)
  <2>1. CASE rows[o].deleted
    BY <1>2, <1>6, <2>1 DEF Like, Unlike, RecordView
  <2> QED
    BY <1>6, <2>1 DEF Counting
<1>7. ASSUME NEW h \in Handler, Writing(h)
      PROVE  CountersUntouched \/ \E o \in DOMAIN rows : Counting(h, o)
  <2>1. ASSUME NEW o, Gone(h, o)
        PROVE  UNCHANGED <<rows, likes, views>>
    BY <2>1 DEF Gone
  <2>2. CASE BumpVersion(h) \/ EmbedName(h)
    BY <1>2, <2>2 DEF BumpVersion, EmbedName
  <2> QED
    BY <1>2, <1>5, <1>6, <1>7, <2>1, <2>2, UpdateCounters DEF Writing
<1> QED
  BY <1>2, <1>3, <1>4, <1>7 DEF Next, vars

(* Counting concerns one outfit and what is logged of it.                  *)
LEMMA CountingElsewhere ==
  ASSUME TypeOK, NEW h \in Handler, NEW x \in DOMAIN rows, Counting(h, x)
  PROVE  /\ DOMAIN rows' = DOMAIN rows
         /\ \A o \in DOMAIN rows \ {x} : rows'[o] = rows[o]
         /\ \A o \in Outfit \ {x} : /\ LikesOf(o)' = LikesOf(o)
                                     /\ views'[o] = views[o]
<1>1. rows = [o \in DOMAIN rows |-> rows[o]] /\ views = [o \in Outfit |-> views[o]]
  BY DEF TypeOK, TablesOK
<1>2. CASE Like(h, x)
  BY <1>1, <1>2 DEF Like, LikesOf
<1>3. CASE Unlike(h, x)
  BY <1>1, <1>3 DEF Unlike, LikesOf
<1>4. CASE RecordView(h, x)
  BY <1>1, <1>4 DEF RecordView, LikesOf
<1> QED
  BY <1>2, <1>3, <1>4 DEF Counting

(* The outfit that is counted: its counters go with the log.               *)
LEMMA CountingRight ==
  ASSUME CountersInv, NEW h \in Handler, NEW x \in DOMAIN rows, Counting(h, x)
  PROVE  /\ rows'[x].likeCount = Cardinality(LikesOf(x)')
         /\ rows'[x].viewCount = views'[x]
         /\ IsFiniteSet(LikesOf(x)')
<1> DEFINE player == call[h].request.arg
<1>1. /\ x \in Outfit /\ rows = [o \in DOMAIN rows |-> rows[o]]
      /\ views = [o \in Outfit |-> views[o]]
  BY DEF CountersInv, TypeOK, TablesOK
<1>2. IsFiniteSet(LikesOf(x)) /\ Cardinality(LikesOf(x)) \in Nat
  BY <1>1, FS_CardinalityType DEF CountersInv
<1>3. /\ rows[x].likeCount = Cardinality(LikesOf(x))
      /\ rows[x].viewCount = views[x]
  BY DEF CountersInv
<1>4. CASE UNCHANGED <<likes, rows, views>>
  BY <1>2, <1>3, <1>4 DEF LikesOf
<1>5. CASE Like(h, x) /\ ~UNCHANGED <<likes, rows, views>>
  <2>1. player \in Player
    BY <1>5, LoadedShape, RequestShape DEF Like, Loaded, CountersInv, TypeOK
  <2>2. /\ <<x, player>> \notin likes /\ likes' = likes \cup {<<x, player>>}
        /\ rows' = [rows EXCEPT ![x] =
                        Counted(x, rows[x].likeCount + 1, rows[x].viewCount)]
        /\ UNCHANGED views
    BY <1>5 DEF Like
  <2> HIDE DEF player
  <2>3. LikesOf(x)' = LikesOf(x) \cup {player} /\ player \notin LikesOf(x)
    BY <2>1, <2>2 DEF LikesOf
  <2>4. /\ rows'[x].likeCount = rows[x].likeCount + 1
        /\ rows'[x].viewCount = rows[x].viewCount
    BY <1>1, <2>2 DEF Counted
  <2> QED
    BY <1>2, <1>3, <2>2, <2>3, <2>4, FS_AddElement
<1>6. CASE Unlike(h, x) /\ ~UNCHANGED <<likes, rows, views>>
  <2>1. player \in Player
    BY <1>6, LoadedShape, RequestShape DEF Unlike, Loaded, CountersInv, TypeOK
  <2>2. /\ <<x, player>> \in likes /\ likes' = likes \ {<<x, player>>}
        /\ rows' = [rows EXCEPT ![x] =
                        Counted(x, OneLess(rows[x].likeCount), rows[x].viewCount)]
        /\ UNCHANGED views
    BY <1>6 DEF Unlike
  <2> HIDE DEF player
  <2>3. LikesOf(x)' = LikesOf(x) \ {player} /\ player \in LikesOf(x)
    BY <2>1, <2>2 DEF LikesOf
  <2>4. /\ rows'[x].likeCount = OneLess(rows[x].likeCount)
        /\ rows'[x].viewCount = rows[x].viewCount
    BY <1>1, <2>2 DEF Counted
  <2>5. Cardinality(LikesOf(x)) # 0
    BY <1>2, <2>3, FS_EmptySet
  <2> QED
    BY <1>2, <1>3, <2>2, <2>3, <2>4, <2>5, FS_RemoveElement DEF OneLess
<1>7. CASE RecordView(h, x) /\ ~UNCHANGED <<likes, rows, views>>
  <2>1. /\ views' = [views EXCEPT ![x] = @ + 1] /\ UNCHANGED likes
        /\ rows' = [rows EXCEPT ![x] =
                        Counted(x, rows[x].likeCount, rows[x].viewCount + 1)]
    BY <1>7 DEF RecordView
  <2>2. /\ rows'[x].likeCount = rows[x].likeCount
        /\ rows'[x].viewCount = rows[x].viewCount + 1
        /\ views'[x] = views[x] + 1
    BY <1>1, <2>1 DEF Counted
  <2> QED
    BY <1>2, <1>3, <2>1, <2>2 DEF LikesOf
<1> QED
  BY <1>4, <1>5, <1>6, <1>7 DEF Counting

LEMMA CountersStep == CountersInv /\ [Next]_vars => CountersInv'
<1> SUFFICES ASSUME CountersInv, [Next]_vars
             PROVE  CountersInv'
  OBVIOUS
<1>1. TypeOK' /\ DOMAIN rows \subseteq Outfit /\ DOMAIN rows' \subseteq Outfit
  BY TypeStep DEF CountersInv, TypeOK, TablesOK
<1>2. CASE CountersUntouched
  <2>1. \A o \in Outfit : LikesOf(o)' = LikesOf(o) /\ views'[o] = views[o]
    BY <1>2 DEF CountersUntouched, LikesOf
  <2>2. ASSUME NEW o \in DOMAIN rows'
        PROVE  /\ rows'[o].likeCount = Cardinality(LikesOf(o)')
               /\ rows'[o].viewCount = views'[o]
    <3>1. CASE o \in DOMAIN rows
      BY <1>1, <1>2, <2>1, <3>1 DEF CountersInv, CountersUntouched
    <3>2. CASE o \notin DOMAIN rows
      <4>1. LikesOf(o) = {} /\ views[o] = 0
        BY <1>1, <3>2 DEF CountersInv
      <4> QED
        BY <1>1, <1>2, <2>1, <3>2, <4>1, FS_EmptySet DEF CountersUntouched
    <3> QED
      BY <3>1, <3>2
  <2>3. \A o \in Outfit \ DOMAIN rows' : LikesOf(o)' = {} /\ views'[o] = 0
    BY <1>2, <2>1 DEF CountersInv, CountersUntouched
  <2>4. \A o \in Outfit : IsFiniteSet(LikesOf(o)')
    BY <2>1 DEF CountersInv
  <2> QED
    BY <1>1, <2>2, <2>3, <2>4 DEF CountersInv
<1>3. ASSUME NEW h \in Handler, NEW x \in DOMAIN rows, Counting(h, x)
      PROVE  CountersInv'
  <2>1. \A o \in DOMAIN rows' : /\ rows'[o].likeCount = Cardinality(LikesOf(o)')
                                /\ rows'[o].viewCount = views'[o]
    BY <1>1, <1>3, CountingElsewhere, CountingRight DEF CountersInv
  <2>2. \A o \in Outfit \ DOMAIN rows' : LikesOf(o)' = {} /\ views'[o] = 0
    BY <1>3, CountingElsewhere DEF CountersInv
  <2>3. \A o \in Outfit : IsFiniteSet(LikesOf(o)')
    BY <1>1, <1>3, CountingElsewhere, CountingRight DEF CountersInv
  <2> QED
    BY <1>1, <2>1, <2>2, <2>3 DEF CountersInv
<1> QED
  BY <1>2, <1>3, Effects DEF CountersInv

LEMMA CountersInit == Init => CountersInv
BY InitType, FS_EmptySet DEF Init, CountersInv, LikesOf

(* Whatever likes, unlikes, views, changes and embeddings of an outfit run *)
(* at the same time, its two counters are the numbers of rows in the logs  *)
(* (004_engagement.sql: they cannot come apart).                           *)
THEOREM CountersAreTheLog == Spec => []CountersMatchLog
<1>1. CountersInv => CountersMatchLog
  BY DEF CountersInv, CountersMatchLog, LikesOf
<1> QED
  BY <1>1, CountersInit, CountersStep, PTL DEF Spec

-----------------------------------------------------------------------------
LEMMA DeletedStep ==
  ASSUME TypeOK, [Next]_vars, NEW o \in DOMAIN rows, rows[o].deleted
  PROVE  /\ o \in DOMAIN rows'
         /\ rows'[o].deleted
         /\ views'[o] = views[o]
         /\ \A p \in Player : <<o, p>> \in likes' <=> <<o, p>> \in likes
<1>1. CASE CountersUntouched
  BY <1>1 DEF CountersUntouched
<1>2. ASSUME NEW h \in Handler, NEW x \in DOMAIN rows, Counting(h, x)
      PROVE  /\ o \in DOMAIN rows' /\ rows'[o] = rows[o]
             /\ views'[o] = views[o] /\ LikesOf(o)' = LikesOf(o)
  <2>1. o # x /\ o \in Outfit
    BY <1>2 DEF Counting, TypeOK, TablesOK
  <2> QED
    BY <1>2, <2>1, CountingElsewhere
<1> QED
  BY <1>1, <1>2, Effects DEF LikesOf

(* Nothing brings a deleted outfit back or counts a like or a view of it,  *)
(* not even a request that loaded it while it was alive (Update,           *)
(* ensureOutfitAlive).                                                     *)
THEOREM DeletedOutfitsStay == Spec => DeletedForGood
<1>1. TypeOK /\ [Next]_vars
        => [\A o \in DOMAIN rows : rows[o].deleted =>
              /\ o \in DOMAIN rows'
              /\ rows'[o].deleted
              /\ views'[o] = views[o]
              /\ \A p \in Player : <<o, p>> \in likes' <=> <<o, p>> \in likes]_vars
  BY DeletedStep
<1> QED
  BY <1>1, TypeCorrect, PTL DEF Spec, DeletedForGood

=============================================================================
