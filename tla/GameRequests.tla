---------------------------- MODULE GameRequests ----------------------------
(***************************************************************************)
(* The way of a call to the API and back: the client of the game servers   *)
(* (roblox/AvatarCatalog.lua) and other clients, the rate limiter, the     *)
(* idempotency middleware with its store, and what the handlers behind it  *)
(* write.  A client that hears nothing sends its request again, while the  *)
(* server may still be working on the one before.                          *)
(***************************************************************************)
EXTENDS Integers, Sequences, FiniteSets

CONSTANTS
  Call,            \* calls that clients make
  Key,             \* values of the header Idempotency-Key
  NoKey,           \* a request without the header
  NoRow,           \* an answer that names no row
  MaxAttempts,     \* how often a client sends the request of one call
  Limit,           \* requests that the limiter lets pass in one window
  Window,          \* length of a window
  PruneInterval,   \* time between two prunings
  TTL,             \* age at which a stored answer expires
  MaxTime,         \* bound on the clock
  MaxInFlight      \* bound on the requests under way at the same time

ASSUME RequestConstants ==
  /\ NoKey \notin Key /\ NoRow \notin Call \X Nat
  /\ {MaxAttempts, Limit, Window, PruneInterval,
      MaxInFlight} \subseteq Nat \ {0}
  /\ TTL \in Nat /\ MaxTime \in Nat

VARIABLES
  now,         \* the clock of the servers
  calls,       \* calls[c]: what the client knows of its call
  requests,    \* requests in flight, by <<call, attempt>>
  windows,     \* limiter: the window of each client's API key
  lastPrune,   \* limiter: when it last dropped windows
  admitted,    \* when a client's requests passed the limiter, one after the other
  records,     \* idempotency store, by <<scope, key>>
  rows         \* rows that requests created, by <<call, attempt>>

vars == <<now, calls, requests, windows, lastPrune, admitted, records, rows>>

-----------------------------------------------------------------------------
Client == {"game", "importer"}
Route == {"outfits.create", "outfits.createBatch", "transactions"}
Status == {0, 200, 201, 400, 422, 429, 500}

Id == Call \X (1 .. MaxAttempts)
Time == 0 .. MaxTime
Never == MaxTime + 1

(* What clients ask for: the client of the game servers sends no key, that *)
(* of an importer does.                                                    *)
Asked == [client : {"game"}, route : {"outfits.create", "transactions"}, key : {NoKey}]
           \cup [client : {"importer"}, route : Route, key : Key]

TypeOK ==
  /\ now \in Time
  /\ calls \in [Call -> [at : {"sending", "waiting", "done"}, asked : Asked,
                         attempt : 0 .. MaxAttempts, status : Status,
                         row : Id \cup {NoRow}]]
  /\ DOMAIN requests \subseteq Id
  /\ \A i \in DOMAIN requests :
       requests[i] \in [at : {"sent", "handler", "put", "answer"},
                        looked : Time \cup {Never}, status : Status,
                        row : Id \cup {NoRow}]
  /\ DOMAIN windows \subseteq Client
  /\ \A k \in DOMAIN windows : windows[k] \in [startedAt : Time, count : 1 .. Limit]
  /\ lastPrune \in Int
  /\ admitted \in [Client -> Seq(Time)]
  /\ DOMAIN records \subseteq Route \X Key
  /\ \A k \in DOMAIN records : records[k] \in [row : Id, createdAt : Time]
  /\ DOMAIN rows \subseteq Id
  /\ \A i \in DOMAIN rows : rows[i] \in [asked : Asked, looked : Time \cup {Never},
                                         recorded : Time \cup {Never}]

-----------------------------------------------------------------------------
(* The client *)

Current(c) == <<c, calls[c].attempt>>

(* One attempt: its request is under way, and arrives or vanishes.         *)
Send(c) ==
  /\ calls[c].at = "sending"
  /\ Cardinality(DOMAIN requests) < MaxInFlight
  /\ calls' = [calls EXCEPT ![c].at = "waiting", ![c].attempt = @ + 1]
  /\ requests' = [i \in DOMAIN requests \cup {Current(c)'} |->
       IF i = Current(c)' THEN [at |-> "sent", looked |-> Never, status |-> 0, row |-> NoRow]
                         ELSE requests[i]]
  /\ UNCHANGED <<now, windows, lastPrune, admitted, records, rows>>

Retryable(status) == status \in {0, 429} \/ status >= 500

(* What an attempt came to: the client backs off and repeats the request,  *)
(* or this is what its call comes to.                                      *)
Concluded(c, status, row) ==
  calls' = [calls EXCEPT ![c] =
    IF Retryable(status) /\ @.attempt < MaxAttempts
      THEN [@ EXCEPT !.at = "sending"]
      ELSE [@ EXCEPT !.at = "done", !.status = status, !.row = row]]

Without(f, x) == [y \in DOMAIN f \ {x} |-> f[y]]

(* The middleware hands the answer through as the handler writes it, before *)
(* it is stored.                                                           *)
Hear(c) ==
  /\ calls[c].at = "waiting"
  /\ Current(c) \in DOMAIN requests
  /\ LET r == requests[Current(c)] IN
     /\ r.at \in {"put", "answer"}
     /\ Concluded(c, r.status, r.row)
     /\ requests' = IF r.at = "put" THEN requests ELSE Without(requests, Current(c))
  /\ UNCHANGED <<now, windows, lastPrune, admitted, records, rows>>

(* RequestAsync fails: no connection, a timeout, or the answer is lost.  A *)
(* request that the server still has goes on.                              *)
NetworkError(c) ==
  /\ calls[c].at = "waiting"
  /\ Concluded(c, 0, NoRow)
  /\ requests' = IF Current(c) \in DOMAIN requests /\ requests[Current(c)].at = "answer"
                   THEN Without(requests, Current(c)) ELSE requests
  /\ UNCHANGED <<now, windows, lastPrune, admitted, records, rows>>

-----------------------------------------------------------------------------
(* The server *)

Asking(i) == calls[i[1]].asked

(* Request i goes on to the next place, or has its answer.  An answer that *)
(* nobody waits for any more is gone.                                      *)
Goes(i, where) == requests' = [requests EXCEPT ![i].at = where]
Heard(i) == calls[i[1]].at = "waiting" /\ Current(i[1]) = i
Answers(i, status, row) ==
  requests' = IF Heard(i)
    THEN [requests EXCEPT ![i] = [@ EXCEPT !.at = "answer", !.status = status, !.row = row]]
    ELSE Without(requests, i)

\* Mutant: pruning drops windows that still count.
PrunedAll ==
  IF now - lastPrune < PruneInterval THEN windows ELSE [k \in {} |-> {}]

(* Once in a while, windows that are over are dropped.                     *)
Pruned ==
  IF now - lastPrune < PruneInterval THEN windows
  ELSE [k \in {k \in DOMAIN windows : now - windows[k].startedAt < Window} |-> windows[k]]

\* Mutant: one more than the limit.
FullAboveLimit(w) == w.count > Limit

Full(w) == w.count >= Limit

\* Mutant: one scope for all routes.
RecordKeyUnscoped(asked) == <<"outfits.create", asked.key>>

RecordKey(asked) == <<asked.route, asked.key>>

Alive(k) == k \in DOMAIN records /\ now - records[k].createdAt <= TTL

(* Allow: a fixed window per API key.                                      *)
Open(k) == k \in DOMAIN Pruned /\ now - Pruned[k].startedAt < Window

Refused(i) == Open(Asking(i).client) /\ Full(Pruned[Asking(i).client])

Admit(i) ==
  LET k == Asking(i).client IN
  /\ windows' = [x \in DOMAIN Pruned \cup {k} |->
       IF x # k THEN Pruned[x]
       ELSE IF Open(k) THEN [Pruned[k] EXCEPT !.count = @ + 1]
       ELSE [startedAt |-> now, count |-> 1]]
  /\ admitted' = [admitted EXCEPT ![k] = Append(@, now)]

(* Requests with a key look for the answer of an earlier one.  An error of *)
(* Redis counts as none.  Transactions are not behind the middleware.      *)
Keyed(asked) == asked.route # "transactions" /\ asked.key # NoKey

LookUp(i) ==
  LET k == RecordKey(Asking(i)) IN
  \/ ~Keyed(Asking(i)) /\ Goes(i, "handler")
  \/ Keyed(Asking(i)) /\ Alive(k) /\ Answers(i, 200, records[k].row)
  \/ /\ Keyed(Asking(i)) /\ ~Alive(k)
     /\ requests' = [requests EXCEPT ![i] = [@ EXCEPT !.at = "handler", !.looked = now]]
  \/ Keyed(Asking(i)) /\ Goes(i, "handler")

(* A request arrives: the limiter refuses it with a 429, or it goes on to  *)
(* the middleware, and by that to the handler.                             *)
Arrive(i) ==
  /\ requests[i].at = "sent"
  /\ \/ /\ Refused(i)
        /\ Answers(i, 429, NoRow)
        /\ windows' = Pruned
        /\ UNCHANGED admitted
     \/ /\ ~Refused(i)
        /\ Admit(i)
        /\ LookUp(i)
  /\ lastPrune' = IF now - lastPrune < PruneInterval THEN lastPrune ELSE now
  /\ UNCHANGED <<now, calls, records, rows>>

\* Request i creates a row.
Creates(i) ==
  rows' = [x \in DOMAIN rows \cup {i} |->
             IF x = i THEN [asked |-> Asking(i), looked |-> requests[i].looked,
                            recorded |-> Never] ELSE rows[x]]

Fails(i) ==
  /\ \E status \in {422, 500} : Answers(i, status, NoRow)
  /\ UNCHANGED rows

(* POST /v1/outfits and /v1/outfits:batch.  The answer of success to a     *)
(* request with a key is going to be stored, if it is not too large.       *)
CreateOutfit(i) ==
  /\ requests[i].at = "handler"
  /\ Asking(i).route # "transactions"
  /\ \/ /\ Creates(i)
        /\ \/ Answers(i, 201, i)
           \/ /\ Asking(i).key # NoKey
              /\ requests' = [requests EXCEPT ![i] =
                                [@ EXCEPT !.at = "put", !.status = 201, !.row = i]]
     \/ Fails(i)
  /\ UNCHANGED <<now, calls, windows, lastPrune, admitted, records>>

(* POST /v1/transactions wants its key in the header and knows no other    *)
(* field in the body than those of a purchase; the game client sends the   *)
(* key as a field of the body.  The key is unique in the table.  After the *)
(* purchase is written its bonus may fail: the answer is then a 500.       *)
CreateTransaction(i) ==
  /\ requests[i].at = "handler"
  /\ Asking(i).route = "transactions"
  /\ LET asked == Asking(i)
         same == {x \in DOMAIN rows : rows[x].asked = asked}
     IN  \/ /\ asked.client = "game" \/ asked.key = NoKey
            /\ Answers(i, 400, NoRow)
            /\ UNCHANGED rows
         \/ /\ asked.client # "game" /\ asked.key # NoKey
            /\ \/ /\ same = {}
                  /\ Creates(i)
                  /\ Answers(i, 201, i) \/ Answers(i, 500, NoRow)
               \/ /\ UNCHANGED rows
                  /\ \E x \in same : Answers(i, 200, x)
               \/ Fails(i)
  /\ UNCHANGED <<now, calls, windows, lastPrune, admitted, records>>

\* Mutant: the sweep drops what has not expired.
SweptLive == [k \in {k \in DOMAIN records : now - records[k].createdAt > TTL} |-> records[k]]

(* The store in memory sweeps out what has expired when it is written, not *)
(* every time.                                                             *)
Swept == [k \in {k \in DOMAIN records : now - records[k].createdAt <= TTL} |-> records[k]]

(* The answer is stored; a failure of Redis is only logged.                *)
Put(i) ==
  /\ requests[i].at = "put"
  /\ LET k == RecordKey(Asking(i)) IN
     \/ /\ \E kept \in {records, Swept} :
             records' = [x \in DOMAIN kept \cup {k} |->
                           IF x = k THEN [row |-> i, createdAt |-> now] ELSE kept[x]]
        /\ rows' = [rows EXCEPT ![i].recorded = now]
     \/ UNCHANGED <<records, rows>>
  /\ Answers(i, 201, i)
  /\ UNCHANGED <<now, calls, windows, lastPrune, admitted>>

-----------------------------------------------------------------------------
(* The surroundings *)

Tick ==
  /\ now < MaxTime
  /\ now' = now + 1
  /\ UNCHANGED <<calls, requests, windows, lastPrune, admitted, records, rows>>

\* The process stops in the middle, the client went away, or nobody listens.
Vanish(i) ==
  /\ requests[i].at # "answer"
  /\ requests' = Without(requests, i)
  /\ UNCHANGED <<now, calls, windows, lastPrune, admitted, records, rows>>

(* Redis evicts a record when its memory is full (allkeys-lru): what was   *)
(* stored under the key is forgotten.                                      *)
Forget(k) ==
  /\ records' = Without(records, k)
  /\ rows' = [i \in DOMAIN rows |->
                IF RecordKey(rows[i].asked) = k THEN [rows[i] EXCEPT !.recorded = Never]
                                                ELSE rows[i]]
  /\ UNCHANGED <<now, calls, requests, windows, lastPrune, admitted>>

Init ==
  /\ now = 0
  /\ calls \in [Call -> [at : {"sending"}, asked : Asked, attempt : {0}, status : {0},
                         row : {NoRow}]]
  /\ requests = [i \in {} |-> {}]
  /\ windows = [k \in {} |-> {}]
  /\ lastPrune = 0 - PruneInterval
  /\ admitted = [k \in Client |-> <<>>]
  /\ records = [k \in {} |-> {}]
  /\ rows = [i \in {} |-> {}]

Next ==
  \/ \E c \in Call :
       \/ Send(c)
       \/ Hear(c)
       \/ NetworkError(c)
  \/ \E i \in DOMAIN requests :
       \/ Arrive(i)
       \/ CreateOutfit(i)
       \/ CreateTransaction(i)
       \/ Put(i)
       \/ Vanish(i)
  \/ \E k \in DOMAIN records : Forget(k)
  \/ Tick

Spec == Init /\ [][Next]_vars

-----------------------------------------------------------------------------
(* A client that is told of success, now or by a replay, is told of a row  *)
(* that is there and that a request for the same, with the same key,       *)
(* created (idempotent, writeReplay).                                      *)
AnswersAreTrue ==
  \A c \in Call : calls[c].at = "done" /\ calls[c].status \in {200, 201} =>
    /\ calls[c].row \in DOMAIN rows
    /\ rows[calls[c].row].asked = calls[c].asked
    /\ calls[c].asked.key = NoKey => calls[c].row[1] = c

(* A second row for the same key and route is only created by a request    *)
(* that looked before the answer to the first was stored, or when that had *)
(* expired; or that could not look (MemoryStore.Get, Put, sweepLocked).    *)
SecondRowHasReason ==
  \A i, j \in DOMAIN rows :
    /\ i # j
    /\ rows[i].asked = rows[j].asked
    /\ rows[j].looked # Never
    /\ rows[i].recorded < rows[j].looked
    => rows[j].looked - rows[i].recorded > TTL

(* In any span as long as a window, fewer than twice the limit of a        *)
(* client's requests pass, however windows are pruned in between           *)
(* (FixedWindow.Allow, pruneLocked).                                       *)
LessThanTwiceTheLimit ==
  \A k \in Client :
    \A n \in 1 .. Len(admitted[k]) - 2 * Limit + 1 :
      admitted[k][n + 2 * Limit - 1] - admitted[k][n] >= Window

(* "menyimpan hasil POST yang sudah pernah diproses supaya retry dari sisi *)
(* Roblox (timeout padahal backend sudah menulis) tidak membuat data       *)
(* ganda": the attempts of one call of the game client create one row.     *)
RetriesCreateOneRow ==
  \A i, j \in DOMAIN rows :
    i[1] = j[1] /\ rows[i].asked.client = "game" => i = j

(* "backend mengenali kunci yang sama" (recordTransaction): the backend    *)
(* does not refuse the purchases that the game client reports.             *)
PurchaseIsAccepted ==
  \A c \in Call :
    /\ calls[c].at = "done" 
    /\ calls[c].asked.client = "game" /\ calls[c].asked.route = "transactions"
    => calls[c].status # 400

=============================================================================
