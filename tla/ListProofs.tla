----------------------------- MODULE ListProofs -----------------------------
(***************************************************************************)
(* Theorems about PagedLists, for any ids, players, bounds and lists of    *)
(* references: rigs stay registered under their names, a resolve answers   *)
(* every reference that it passes, in the number of pages told, and the    *)
(* pages of a walk add up to the list, also where they come out of the     *)
(* read cache.                                                             *)
(***************************************************************************)
EXTENDS PagedLists, FiniteSetTheorems, SequenceTheorems, TLAPS

-----------------------------------------------------------------------------
(* The tables are the five tables, and the rows of outfits are whole.      *)
Fields == {"outfits", "templates", "transactions", "entries", "redeems"}

AnyOutfit == [at : Clock, public : BOOLEAN, rig : Template, likes : SUBSET Player,
              views : Nat, deleted : BOOLEAN]

Whole ==
  /\ DOMAIN tables = Fields
  /\ now \in Clock
  /\ \A o \in DOMAIN tables.outfits : tables.outfits[o] \in AnyOutfit
  /\ \A o \in DOMAIN drafts : drafts[o] \in AnyOutfit
  /\ \A rig \in DOMAIN tables.templates : tables.templates[rig] \in [at : Clock, named : BOOLEAN]

RigInv == Whole /\ RigsKept

(* What a resolve has counted so far.                                      *)
ResolveRecord ==
  [kind : {"resolve"}, refs : References, pos : Nat, pages : Nat, done : BOOLEAN,
   limit : 1 .. MaxPageSize, found : SUBSET Nat, missing : SUBSET Nat, alive : SUBSET Nat,
   gone : SUBSET Nat]

Counted(c) ==
  LET total == Len(c.refs)
  IN /\ c.pos <= total
     /\ ~c.done => /\ c.pos = c.pages * c.limit
                   /\ c.pos < total \/ c.pages = 0
     /\ c.done => /\ c.pos = total
                  /\ total # 0 => c.pages = TotalPages(c.refs, c.limit)

Told(c) ==
  /\ \A i \in 1 .. c.pos : c.refs[i] \in c.found \cup c.missing
  /\ c.missing \cap c.alive = {}
  /\ c.found \cap c.gone = {}

(* The marks of a resolve are about the tables as they are.                *)
Watching(c, t) ==
  /\ \A o \in c.alive : Alive(t, o)
  /\ \A o \in c.gone : ~Alive(t, o)

ResolveInv ==
  /\ "kind" \in DOMAIN client
  /\ client.kind = "resolve" =>
       client \in ResolveRecord /\ Counted(client) /\ Told(client) /\ Watching(client, tables)

-----------------------------------------------------------------------------
(* Rigs.                                                                   *)
LEMMA Clocks == ASSUME NEW at \in Clock PROVE at \in Nat
BY ListConstants DEF Clock

LEMMA RigsInit == Init => RigInv
<1> SUFFICES ASSUME Init PROVE RigInv
  OBVIOUS
<1>1. 0 \in Clock /\ FirstRig \in Template
  BY ListConstants DEF Clock
<1>2. tables.templates = [r \in {FirstRig} |-> [at |-> 0, named |-> FALSE]]
  BY DEF Init
<1>3. /\ DOMAIN tables = Fields /\ DOMAIN tables.outfits = Existing
      /\ \A o \in Existing :
           tables.outfits[o] = [at |-> 0, public |-> TRUE, rig |-> FirstRig, likes |-> {},
                                views |-> 0, deleted |-> FALSE]
      /\ DOMAIN drafts = {} /\ named = {} /\ now = 0
  BY DEF Init, Fields
<1> DEFINE row == [at |-> 0, public |-> TRUE, rig |-> FirstRig, likes |-> {}, views |-> 0,
                   deleted |-> FALSE]
<1>4. row \in AnyOutfit /\ [at |-> 0, named |-> FALSE] \in [at : Clock, named : BOOLEAN]
  BY <1>1 DEF AnyOutfit
<1>6. \A o \in DOMAIN tables.outfits : tables.outfits[o] = row
  BY <1>3
<1> HIDE DEF row
<1>7. Whole
  BY <1>1, <1>2, <1>3, <1>4, <1>6 DEF Whole
<1>5. RigsKept
  BY <1>2, <1>3 DEF RigsKept
<1> QED
  BY <1>5, <1>7 DEF RigInv

(* A change of one outfit that leaves it whole, on a rig that is there.    *)
LEMMA ChangeKeepsRigs ==
  ASSUME RigInv, NEW o \in DOMAIN tables.outfits, NEW row \in AnyOutfit,
         row.rig \in DOMAIN tables.templates, Change(o, row)
  PROVE  RigInv'
<1>1. /\ tables' = [tables EXCEPT !.outfits[o] = row]
      /\ UNCHANGED <<drafts, named, now>>
  BY DEF Change, Write
<1>2. /\ DOMAIN tables' = Fields
      /\ tables'.templates = tables.templates
      /\ DOMAIN tables'.outfits = DOMAIN tables.outfits
      /\ \A x \in DOMAIN tables.outfits :
           tables'.outfits[x] = IF x = o THEN row ELSE tables.outfits[x]
  BY <1>1 DEF RigInv, Whole, Fields
<1>3. Whole'
  BY <1>1, <1>2 DEF RigInv, Whole
<1>4. RigsKept'
  BY <1>1, <1>2 DEF RigInv, RigsKept
<1> QED
  BY <1>3, <1>4 DEF RigInv

(* A registration: nothing else of the tables changes.                     *)
LEMMA EnsureKeepsRigs ==
  ASSUME RigInv, NEW rig \in Template, NEW row \in [at : Clock, named : BOOLEAN],
         NEW added,
         tables' = [tables EXCEPT !.templates = EnsureRig(tables.templates, rig, row)],
         now' = now,
         \A o \in DOMAIN drafts' : drafts'[o] \in AnyOutfit
           /\ drafts'[o].rig \in DOMAIN tables.templates \cup {rig},
         named' = named \cup added,
         \A r \in added : r = rig /\ r \notin DOMAIN tables.templates /\ row.named
  PROVE  RigInv'
<1>2. /\ DOMAIN tables' = Fields
      /\ tables'.outfits = tables.outfits
      /\ tables'.templates = EnsureRig(tables.templates, rig, row)
  BY DEF RigInv, Whole, Fields
<1>3. /\ DOMAIN tables'.templates = DOMAIN tables.templates \cup {rig}
      /\ \A r \in DOMAIN tables.templates : tables'.templates[r] = tables.templates[r]
      /\ rig \notin DOMAIN tables.templates => tables'.templates[rig] = row
  BY <1>2 DEF EnsureRig, With
<1>4. Whole'
  BY <1>2, <1>3 DEF RigInv, Whole
<1>5. RigsKept'
  BY <1>2, <1>3 DEF RigInv, RigsKept
<1> QED
  BY <1>4, <1>5 DEF RigInv

(* Steps that leave outfits, drafts and rigs alone.                        *)
LEMMA OthersKeepRigs ==
  ASSUME RigInv, DOMAIN tables' = Fields, now' \in Clock,
         tables'.outfits = tables.outfits, tables'.templates = tables.templates,
         UNCHANGED <<drafts, named>>
  PROVE  RigInv'
BY DEF RigInv, Whole, RigsKept

LEMMA CatalogKeepsRigs == RigInv /\ CatalogWrite => RigInv'
<1> SUFFICES ASSUME RigInv, CatalogWrite PROVE RigInv'
  OBVIOUS
<1>0. PICK at0 \in Clock : now = at0
  BY DEF RigInv, Whole
<1> DEFINE fresh == [at |-> at0, named |-> FALSE]
           none == {}
<1>9. fresh \in [at : Clock, named : BOOLEAN] /\ \A r : r \notin none
  OBVIOUS
<1> HIDE DEF fresh, none
<1>1. ASSUME NEW rig \in Template, NameRig(rig) PROVE RigInv'
  <2>2. /\ tables' = [tables EXCEPT !.templates =
             EnsureRig(tables.templates, rig, fresh)]
        /\ UNCHANGED <<drafts, now>> /\ named' = named \cup none
    BY <1>0, <1>1 DEF NameRig, UseRig, Write, fresh, none
  <2>3. \A x \in DOMAIN drafts' : /\ drafts'[x] \in AnyOutfit
                                  /\ drafts'[x].rig \in DOMAIN tables.templates \cup {rig}
    BY <2>2 DEF RigInv, Whole, RigsKept
  <2> QED
    BY <1>9, <2>2, <2>3, EnsureKeepsRigs
<1>2. ASSUME NEW rig \in Template, NEW name \in BOOLEAN, PatchTemplate(rig, name) PROVE RigInv'
  <2>1. /\ rig \in DOMAIN tables.templates
        /\ tables' = [tables EXCEPT !.templates[rig].named = name]
        /\ named' = IF name THEN named \cup {rig} ELSE named \ {rig}
        /\ UNCHANGED <<drafts, now>>
    BY <1>2 DEF PatchTemplate, Write
  <2>2. tables.templates[rig] \in [at : Clock, named : BOOLEAN]
    BY <2>1 DEF RigInv, Whole
  <2>3. /\ DOMAIN tables' = Fields
        /\ tables'.outfits = tables.outfits
        /\ DOMAIN tables'.templates = DOMAIN tables.templates
        /\ \A r \in DOMAIN tables.templates :
             tables'.templates[r] = IF r = rig THEN [tables.templates[rig] EXCEPT !.named = name]
                                               ELSE tables.templates[r]
    BY <2>1 DEF RigInv, Whole, Fields
  <2>4. /\ [tables.templates[rig] EXCEPT !.named = name] \in [at : Clock, named : BOOLEAN]
        /\ [tables.templates[rig] EXCEPT !.named = name].named = name
    BY <2>2
  <2>5. Whole'
    BY <2>1, <2>3, <2>4 DEF RigInv, Whole
  <2>6. RigsKept'
    BY <2>1, <2>3, <2>4 DEF RigInv, RigsKept
  <2> QED
    BY <2>5, <2>6 DEF RigInv
<1>3. ASSUME NEW rig \in Template, NEW name \in BOOLEAN, NEW at \in Clock,
             RegisterTemplate(rig, at, name)
      PROVE  RigInv'
  <2>1. [at |-> at, named |-> name] \in [at : Clock, named : BOOLEAN]
    OBVIOUS
  <2>2. /\ tables' = [tables EXCEPT !.templates =
             EnsureRig(tables.templates, rig, [at |-> at, named |-> name])]
        /\ UNCHANGED <<drafts, now>>
    BY <1>3 DEF RegisterTemplate, Write
  <2> DEFINE added == IF rig \notin DOMAIN tables.templates /\ name THEN {rig} ELSE {}
  <2>3. named' = named \cup added
    BY <1>3 DEF RegisterTemplate
  <2>4. \A r \in added : /\ r = rig /\ r \notin DOMAIN tables.templates
                         /\ [at |-> at, named |-> name].named
    OBVIOUS
  <2>5. \A x \in DOMAIN drafts' : /\ drafts'[x] \in AnyOutfit
                                  /\ drafts'[x].rig \in DOMAIN tables.templates \cup {rig}
    BY <2>2 DEF RigInv, Whole, RigsKept
  <2> HIDE DEF added
  <2> QED
    BY <2>1, <2>2, <2>3, <2>4, <2>5, EnsureKeepsRigs
<1>4. ASSUME NEW rig \in Template, NEW o \in Outfit, NEW public \in BOOLEAN,
             BuildOutfit(o, rig, public)
      PROVE  RigInv'
  <2> DEFINE row == [at |-> now, public |-> public, rig |-> rig, likes |-> {}, views |-> 0,
                     deleted |-> FALSE]
  <2>1. row \in AnyOutfit /\ row.rig = rig
    BY <1>0 DEF AnyOutfit
  <2>3. /\ tables' = [tables EXCEPT !.templates =
             EnsureRig(tables.templates, rig, fresh)]
        /\ drafts' = With(drafts, o, row)
        /\ named' = named \cup none /\ now' = now
    BY <1>0, <1>4 DEF BuildOutfit, UseRig, Write, fresh, none
  <2> HIDE DEF row
  <2>4. \A x \in DOMAIN drafts' :
          drafts'[x] = row \/ (x \in DOMAIN drafts /\ drafts'[x] = drafts[x])
    BY <2>3 DEF With
  <2>5. \A x \in DOMAIN drafts' : /\ drafts'[x] \in AnyOutfit
                                  /\ drafts'[x].rig \in DOMAIN tables.templates \cup {rig}
    BY <2>1, <2>4 DEF RigInv, Whole, RigsKept
  <2> QED
    BY <1>9, <2>3, <2>5, EnsureKeepsRigs
<1>5. ASSUME WriteBatch PROVE RigInv'
  <2>1. /\ tables' = [tables EXCEPT !.outfits = Joined(tables.outfits, drafts)]
        /\ drafts' = <<>> /\ UNCHANGED <<named, now>>
    BY <1>5 DEF WriteBatch, Write
  <2>2. /\ DOMAIN tables' = Fields
        /\ tables'.templates = tables.templates
        /\ tables'.outfits = Joined(tables.outfits, drafts)
        /\ DOMAIN drafts' = {}
    BY <2>1 DEF RigInv, Whole, Fields
  <2>3. \A x \in DOMAIN tables'.outfits :
          \/ x \in DOMAIN tables.outfits /\ tables'.outfits[x] = tables.outfits[x]
          \/ x \in DOMAIN drafts /\ tables'.outfits[x] = drafts[x]
    BY <2>2 DEF Joined
  <2>4. Whole'
    BY <2>1, <2>2, <2>3 DEF RigInv, Whole
  <2>5. RigsKept'
    BY <2>1, <2>2, <2>3 DEF RigInv, RigsKept
  <2> QED
    BY <2>4, <2>5 DEF RigInv
<1>6. ASSUME LoseBatch PROVE RigInv'
  <2>1. DOMAIN drafts' = {} /\ UNCHANGED <<tables, named, now>>
    BY <1>6 DEF LoseBatch
  <2> QED
    BY <2>1 DEF RigInv, Whole, RigsKept
<1>7. ASSUME NEW o \in DOMAIN tables.outfits, NEW at \in Clock, NEW public \in BOOLEAN,
             NEW rig \in Template, Update(o, at, public, rig)
      PROVE  RigInv'
  <2> DEFINE row == [tables.outfits[o] EXCEPT !.at = at, !.public = public, !.rig = rig]
  <2>1. row \in AnyOutfit /\ row.rig = rig
    BY DEF RigInv, Whole, AnyOutfit
  <2>2. rig \in DOMAIN tables.templates /\ Change(o, row)
    BY <1>7 DEF Update
  <2> HIDE DEF row
  <2> QED
    BY <2>1, <2>2, ChangeKeepsRigs
<1>8. ASSUME NEW o \in DOMAIN tables.outfits,
             \/ \E at \in Clock : SoftDelete(o, at)
             \/ \E u \in Player : Like(o, u) \/ Unlike(o, u)
             \/ RecordView(o)
      PROVE  RigInv'
  <2>1. tables.outfits[o] \in AnyOutfit /\ tables.outfits[o].rig \in DOMAIN tables.templates
    BY DEF RigInv, Whole, RigsKept
  <2>2. PICK row \in AnyOutfit : row.rig = tables.outfits[o].rig /\ Change(o, row)
    <3>1. CASE \E at \in Clock : SoftDelete(o, at)
      BY <2>1, <3>1 DEF SoftDelete, AnyOutfit
    <3>2. CASE \E u \in Player : Like(o, u) \/ Unlike(o, u)
      BY <2>1, <3>2 DEF Like, Unlike, AnyOutfit
    <3>3. CASE RecordView(o)
      BY <2>1, <3>3 DEF RecordView, AnyOutfit
    <3> QED
      BY <1>8, <3>1, <3>2, <3>3
  <2> QED
    BY <2>1, <2>2, ChangeKeepsRigs
<1> QED
  BY <1>1, <1>2, <1>3, <1>4, <1>5, <1>6, <1>7, <1>8 DEF CatalogWrite

LEMMA LedgersKeepRigs == RigInv /\ (LedgerWrite \/ RedeemWrite) => RigInv'
<1> SUFFICES ASSUME RigInv, LedgerWrite \/ RedeemWrite PROVE RigInv'
  OBVIOUS
<1>1. /\ DOMAIN tables' = Fields /\ now' \in Clock
      /\ tables'.outfits = tables.outfits /\ tables'.templates = tables.templates
      /\ UNCHANGED <<drafts, named>>
  <2>1. ASSUME NEW x, NEW u, NEW at, RecordTransaction(x, u, at) PROVE <1>1!:
    BY <2>1 DEF RecordTransaction, Write, RigInv, Whole, Fields
  <2>2. ASSUME NEW e, NEW u, NEW at, CreateEntry(e, u, at) PROVE <1>1!:
    BY <2>2 DEF CreateEntry, Write, RigInv, Whole, Fields
  <2>3. ASSUME NEW r, NEW e, NEW u, NEW at, CreateRedeem(r, e, u, at) PROVE <1>1!:
    BY <2>3 DEF CreateRedeem, Write, RigInv, Whole, Fields
  <2>4. ASSUME NEW r, NEW back, NEW at, ResolveRedeem(r, back, at) PROVE <1>1!:
    BY <2>4 DEF ResolveRedeem, Write, RigInv, Whole, Fields
  <2> QED
    BY <2>1, <2>2, <2>3, <2>4 DEF LedgerWrite, RedeemWrite
<1> QED
  BY <1>1, OthersKeepRigs

LEMMA ReadsChangeNoTable ==
  Read => UNCHANGED <<store, area, now, tables, shown, past, drafts, named, writes>>
BY DEF Read, StartWalk, StartResolve, ListOutfits, RefuseCursor, ListTemplates,
       ListTransactions, ListEntries, ListRedeems, ListBalances, Resolve, Leave, Turn, Ask

LEMMA RigsStep == RigInv /\ [Next]_vars => RigInv'
<1> SUFFICES ASSUME RigInv, [Next]_vars PROVE RigInv'
  OBVIOUS
<1>1. CASE CatalogWrite
  BY <1>1, CatalogKeepsRigs
<1>2. CASE LedgerWrite \/ RedeemWrite
  BY <1>2, LedgersKeepRigs
<1>3. CASE Read \/ Invalidate \/ UNCHANGED vars
  BY <1>3, ReadsChangeNoTable, OthersKeepRigs DEF Invalidate, vars, RigInv, Whole
<1>4. CASE Tick
  <2>1. now' \in Clock
    BY <1>4, ListConstants DEF Tick, RigInv, Whole, Clock
  <2> QED
    BY <1>4, <2>1, OthersKeepRigs DEF Tick, RigInv, Whole
<1> QED
  BY <1>1, <1>2, <1>3, <1>4 DEF Next

(* The rig of every outfit, written or about to be, is registered, and a   *)
(* name given to a rig is kept, for any number of handlers between the     *)
(* registration of a rig and the writing of its outfits.                   *)
THEOREM RigsStay == Spec => []RigsKept
<1>1. Init => RigInv
  BY RigsInit
<1>2. RigInv /\ [Next]_vars => RigInv'
  BY RigsStep
<1>3. RigInv => RigsKept
  BY DEF RigInv
<1> QED
  BY <1>1, <1>2, <1>3, PTL DEF Spec

-----------------------------------------------------------------------------
(* Resolve.                                                                *)

(* A page number is a quotient rounded up.                                 *)
LEMMA PagesOf ==
  ASSUME NEW n \in Nat, NEW l \in Nat \ {0}, NEW p \in Nat, p * l < n, n <= p * l + l
  PROVE  (n + l - 1) \div l = p + 1
<1> DEFINE q == (n + l - 1) \div l
           r == (n + l - 1) % l
<1>1. q \in Int /\ r \in 0 .. l - 1 /\ n + l - 1 = l * q + r
  OBVIOUS
<1> HIDE DEF q, r
<1>2. ASSUME q <= p PROVE FALSE
  <2>1. l * q <= l * p
    BY <1>1, <1>2
  <2> QED
    BY <1>1, <2>1
<1>3. ASSUME q >= p + 2 PROVE FALSE
  <2>1. l * q >= l * (p + 2)
    BY <1>1, <1>3
  <2>2. l * (p + 2) = p * l + l + l
    OBVIOUS
  <2> QED
    BY <1>1, <2>1, <2>2
<1>4. q = p + 1
  BY <1>1, <1>2, <1>3
<1> QED
  BY <1>4 DEF q

LEMMA NextPage ==
  ASSUME NEW p \in Nat, NEW l \in Nat \ {0} PROVE p * l + l = (p + 1) * l
OBVIOUS

LEMMA ResolveInit == Init => ResolveInv
BY DEF Init, Idle, ResolveInv

(* Marks are taken off as soon as they are no longer true.                 *)
LEMMA MarksFollow ==
  ASSUME ResolveInv, client' = Seen(client, tables')
  PROVE  ResolveInv'
<1>1. CASE client.kind = "walk"
  <2>1. "kind" \in DOMAIN client' /\ client'.kind = "walk"
    BY <1>1 DEF ResolveInv, Seen
  <2> QED
    BY <2>1 DEF ResolveInv
<1>2. CASE client.kind = "resolve"
  <2>1. client \in ResolveRecord /\ Counted(client) /\ Told(client)
    BY <1>2 DEF ResolveInv
  <2>2. /\ client' = [client EXCEPT !.alive = {o \in @ : Alive(tables', o)},
                                    !.gone = {o \in @ : ~Alive(tables', o)}]
    BY <1>2 DEF Seen
  <2>3. /\ client' \in ResolveRecord
        /\ client'.alive = {o \in client.alive : Alive(tables', o)}
        /\ client'.gone = {o \in client.gone : ~Alive(tables', o)}
        /\ client'.refs = client.refs /\ client'.pos = client.pos
        /\ client'.pages = client.pages /\ client'.done = client.done
        /\ client'.limit = client.limit /\ client'.found = client.found
        /\ client'.missing = client.missing
    <3> DEFINE there == {o \in client.alive : Alive(tables', o)}
               away == {o \in client.gone : ~Alive(tables', o)}
    <3>1. client' = [client EXCEPT !.alive = there, !.gone = away]
      BY <2>2
    <3>2. there \subseteq client.alive /\ away \subseteq client.gone
      OBVIOUS
    <3> HIDE DEF there, away
    <3>3. /\ client' \in ResolveRecord /\ client'.alive = there /\ client'.gone = away
          /\ client'.refs = client.refs /\ client'.pos = client.pos
          /\ client'.pages = client.pages /\ client'.done = client.done
          /\ client'.limit = client.limit /\ client'.found = client.found
          /\ client'.missing = client.missing
      BY <2>1, <3>1, <3>2 DEF ResolveRecord
    <3> QED
      BY <3>3 DEF there, away
  <2>4. Counted(client)'
    BY <2>1, <2>3 DEF Counted, TotalPages
  <2>5. Told(client)'
    BY <2>1, <2>3 DEF Told
  <2>6. Watching(client, tables)'
    BY <2>3 DEF Watching, Alive
  <2>7. "kind" \in DOMAIN client'
    BY <2>3 DEF ResolveRecord
  <2> QED
    BY <2>3, <2>4, <2>5, <2>6, <2>7 DEF ResolveInv
<1>3. CASE client.kind \notin {"walk", "resolve"}
  <2>1. client' = client
    BY <1>3 DEF Seen
  <2> QED
    BY <1>3, <2>1 DEF ResolveInv
<1> QED
  BY <1>1, <1>2, <1>3

(* A client that walks, or has left, has nothing to account for.           *)
LEMMA NotResolving ==
  ASSUME "kind" \in DOMAIN client', client'.kind # "resolve"
  PROVE  ResolveInv'
BY DEF ResolveInv

LEMMA LimitsArePositive == MaxPageSize \in Nat /\ 1 .. MaxPageSize \subseteq Nat \ {0}
BY ListConstants

LEMMA LimitsAreClamped ==
  ASSUME NEW asked \in Asked
  PROVE  ClampLimit(asked, DefaultPageSize, MaxPageSize) \in 1 .. MaxPageSize
BY ListConstants DEF ClampLimit

LEMMA StartResolves ==
  ASSUME NEW refs \in References, NEW asked \in Asked, StartResolve(refs, asked)
  PROVE  ResolveInv'
<1> DEFINE l == ClampLimit(asked, DefaultPageSize, MaxPageSize)
           there == {o \in Outfit : Alive(tables, o)}
           away == {o \in Outfit \cup {0} : ~Alive(tables, o)}
<1>1. /\ client' = [kind |-> "resolve", refs |-> refs, pos |-> 0, pages |-> 0, done |-> FALSE,
                    limit |-> l, found |-> {}, missing |-> {}, alive |-> there, gone |-> away]
      /\ tables' = tables
  BY DEF StartResolve, Ask
<1>2. l \in 1 .. MaxPageSize
  BY LimitsAreClamped
<1>3. there \in SUBSET Nat /\ away \in SUBSET Nat /\ refs \in Seq(Outfit \cup {0})
  <2>1. Outfit \subseteq Nat /\ References \subseteq Seq(Outfit \cup {0})
    BY ListConstants
  <2>2. refs \in Seq(Outfit \cup {0})
    BY <2>1, Zenon
  <2>3. there \subseteq Outfit /\ away \subseteq Outfit \cup {0}
    OBVIOUS
  <2> HIDE DEF there, away
  <2> QED
    BY <2>1, <2>2, <2>3
<1>6. (\A o \in there : Alive(tables, o)) /\ (\A o \in away : ~Alive(tables, o))
  OBVIOUS
<1> HIDE DEF l, there, away
<1>4. client' \in ResolveRecord /\ "kind" \in DOMAIN client'
  <2>1. {} \in SUBSET Nat /\ 0 \in Nat
    OBVIOUS
  <2> QED
    BY <1>1, <1>2, <1>3, <2>1 DEF ResolveRecord
<1>5. Counted(client)' /\ Told(client)'
  BY <1>1, <1>2, <1>3, LimitsArePositive DEF Counted, Told
<1>7. Watching(client, tables)'
  BY <1>1, <1>6 DEF Watching, Alive
<1> QED
  BY <1>4, <1>5, <1>7 DEF ResolveInv

LEMMA OnePage ==
  ASSUME ResolveInv, Resolve
  PROVE  ResolveInv'
<1> DEFINE total == Len(client.refs)
           end == End(client.pos, client.limit, total)
           page == {client.refs[i] : i \in client.pos + 1 .. end}
           found == ListByReferenceIDs(page)
<1>1. /\ client.kind = "resolve" /\ client.done = FALSE
      /\ client' = [client EXCEPT
           !.found = @ \cup found, !.missing = @ \cup (page \ found),
           !.pos = end, !.pages = @ + 1, !.done = (end >= total)]
      /\ tables' = tables
  BY DEF Resolve, Resolving, Ask, ResolveInv, ResolveRecord
<1>2. client \in ResolveRecord /\ Counted(client) /\ Told(client) /\ Watching(client, tables)
  BY <1>1 DEF ResolveInv
<1>3. /\ client.refs \in Seq(Outfit \cup {0}) /\ total \in Nat
      /\ client.pos \in Nat /\ client.pages \in Nat /\ client.limit \in Nat \ {0}
      /\ client.found \in SUBSET Nat /\ client.missing \in SUBSET Nat
  <2>1. /\ client.refs \in References /\ client.limit \in 1 .. MaxPageSize
        /\ client.pos \in Nat /\ client.pages \in Nat
        /\ client.found \in SUBSET Nat /\ client.missing \in SUBSET Nat
    BY <1>2 DEF ResolveRecord
  <2>2. client.refs \in Seq(Outfit \cup {0})
    BY <2>1, ListConstants, Zenon
  <2>3. client.limit \in Nat \ {0}
    BY <2>1, LimitsArePositive, Zenon
  <2> QED
    BY <2>1, <2>2, <2>3, LenProperties
<1>4. /\ client.pos <= total
      /\ client.pos = client.pages * client.limit
      /\ client.pos < total \/ client.pages = 0
  BY <1>1, <1>2 DEF Counted
<1>5. /\ end \in Nat /\ client.pos <= end /\ end <= total
      /\ end >= total => end = total /\ total <= client.pos + client.limit
      /\ ~(end >= total) => end = client.pos + client.limit
  BY <1>3, <1>4 DEF End
<1>6. page \subseteq Nat /\ found \subseteq page
  <2>1. \A i \in client.pos + 1 .. end : client.refs[i] \in Outfit \cup {0}
    BY <1>3, <1>5
  <2>2. Outfit \subseteq Nat
    BY ListConstants
  <2>3. page \subseteq Nat
    <3> SUFFICES ASSUME NEW x \in page PROVE x \in Nat
      OBVIOUS
    <3>1. PICK i \in client.pos + 1 .. end : x = client.refs[i]
      OBVIOUS
    <3> HIDE DEF page, end, total
    <3>2. x \in Outfit \cup {0}
      BY <2>1, <3>1
    <3> QED
      BY <2>2, <3>2
  <2>4. found \subseteq page
    BY DEF ListByReferenceIDs
  <2> QED
    BY <2>3, <2>4
<1>7. \A i \in client.pos + 1 .. end : client.refs[i] \in page
  OBVIOUS
<1>8. /\ \A o \in found : Alive(tables, o)
      /\ \A o \in page \ found : ~Alive(tables, o)
  BY DEF ListByReferenceIDs, Alive
<1> HIDE DEF page, found, end, total
<1>9. /\ client'.found = client.found \cup found
      /\ client'.missing = client.missing \cup (page \ found)
      /\ client'.pos = end /\ client'.pages = client.pages + 1
      /\ client'.done <=> end >= total
      /\ client'.refs = client.refs /\ client'.limit = client.limit
      /\ client'.alive = client.alive /\ client'.gone = client.gone
      /\ client'.kind = "resolve" /\ "kind" \in DOMAIN client'
  BY <1>1, <1>2 DEF ResolveRecord
<1>10. client' \in ResolveRecord
  <2>1. client.found \cup found \in SUBSET Nat
    BY <1>3, <1>6
  <2>2. client.missing \cup (page \ found) \in SUBSET Nat
    BY <1>3, <1>6
  <2>3. end \in Nat /\ client.pages + 1 \in Nat
    BY <1>3, <1>5
  <2>4. PICK last : last = (end >= total)
    OBVIOUS
  <2>5. last \in BOOLEAN
    <3>1. (end >= total) \in BOOLEAN
      BY SMT
    <3> QED
      BY <2>4, <3>1, Zenon
  <2>6. client' = [client EXCEPT
           !.found = client.found \cup found, !.missing = client.missing \cup (page \ found),
           !.pos = end, !.pages = client.pages + 1, !.done = last]
    BY <1>1, <2>4, Zenon
  <2> QED
    BY <1>2, <2>1, <2>2, <2>3, <2>5, <2>6 DEF ResolveRecord
<1>11. Counted(client)'
  <2>1. CASE end >= total
    <3>1. ASSUME total # 0 PROVE TotalPages(client.refs, client.limit) = client.pages + 1
      <4>1. client.pages * client.limit < total
        BY <1>3, <1>4, <3>1
      <4>2. total <= client.pages * client.limit + client.limit
        BY <1>3, <1>4, <1>5, <2>1
      <4> QED
        BY <1>3, <4>1, <4>2, PagesOf DEF TotalPages, total
    <3> QED
      BY <1>3, <1>5, <1>9, <2>1, <3>1 DEF Counted, total
  <2>2. CASE ~(end >= total)
    <3>1. end = (client.pages + 1) * client.limit
      BY <1>3, <1>4, <1>5, <2>2, NextPage
    <3>2. ~client'.done /\ end < total
      BY <1>3, <1>5, <1>9, <2>2
    <3> QED
      BY <1>9, <3>1, <3>2 DEF Counted, total
  <2> QED
    BY <2>1, <2>2
<1>12. Told(client)'
  <2>1. \A i \in 1 .. client'.pos : client'.refs[i] \in client'.found \cup client'.missing
    <3> SUFFICES ASSUME NEW i \in 1 .. end
                 PROVE  client.refs[i] \in client'.found \cup client'.missing
      BY <1>9
    <3>1. CASE i \in 1 .. client.pos
      BY <1>2, <1>9, <3>1 DEF Told
    <3>2. CASE i \in client.pos + 1 .. end
      BY <1>7, <1>9, <3>2
    <3> QED
      BY <1>3, <1>5, <3>1, <3>2
  <2>2. client'.missing \cap client'.alive = {}
    BY <1>2, <1>8, <1>9 DEF Told, Watching
  <2>3. client'.found \cap client'.gone = {}
    BY <1>2, <1>8, <1>9 DEF Told, Watching
  <2> QED
    BY <2>1, <2>2, <2>3 DEF Told
<1>13. Watching(client, tables)'
  BY <1>1, <1>2, <1>9 DEF Watching, Alive
<1> QED
  BY <1>9, <1>10, <1>11, <1>12, <1>13 DEF ResolveInv

LEMMA ReadsResolve == ResolveInv /\ Read => ResolveInv'
<1> SUFFICES ASSUME ResolveInv, Read PROVE ResolveInv'
  OBVIOUS
<1>1. ASSUME NEW q, NEW limit, Ask(FirstPage(q, limit)) PROVE ResolveInv'
  BY <1>1, NotResolving DEF Ask, FirstPage
<1>2. ASSUME NEW page, NEW sort, client.kind = "walk", NEW steady,
             Ask(Turned([client EXCEPT !.steady = steady], page, sort))
      PROVE  ResolveInv'
  <2>1. "kind" \in DOMAIN client' /\ client'.kind = "walk"
    BY <1>2 DEF Turned, Ask, ResolveInv
  <2> QED
    BY <2>1, NotResolving
<1>3. ASSUME NEW page, NEW sort, client.kind = "walk", Turn(page, sort) PROVE ResolveInv'
  <2>1. "kind" \in DOMAIN client' /\ client'.kind = "walk"
    BY <1>3 DEF Turn, Turned, Ask, ResolveInv
  <2> QED
    BY <2>1, NotResolving
<1>4. ASSUME NEW q \in Queries, NEW asked \in Asked, StartWalk(q, asked) PROVE ResolveInv'
  BY <1>1, <1>4 DEF StartWalk
<1>5. ASSUME NEW sort, ListOutfits(sort) \/ RefuseCursor(sort) PROVE ResolveInv'
  <2>1. ASSUME ListOutfits(sort) PROVE ResolveInv'
    BY <1>2, <1>3, <2>1 DEF ListOutfits, Walking
  <2> QED
    BY <1>1, <1>5, <2>1 DEF RefuseCursor
<1>6. ASSUME \/ ListTemplates \/ ListTransactions \/ ListEntries \/ ListRedeems \/ ListBalances
      PROVE  ResolveInv'
  BY <1>6, <1>3 DEF ListTemplates, ListTransactions, ListEntries, ListRedeems, ListBalances,
                    Walking
<1>7. ASSUME Leave PROVE ResolveInv'
  BY <1>7, NotResolving DEF Leave, Ask, Idle
<1> QED
  BY <1>4, <1>5, <1>6, <1>7, StartResolves, OnePage DEF Read

LEMMA WritesAreSeen ==
  CatalogWrite \/ LedgerWrite \/ RedeemWrite =>
    client' = Seen(client, tables') \/ UNCHANGED <<tables, client>>
<1>1. ASSUME NEW where, NEW t, Write(where, t) PROVE client' = Seen(client, tables')
  BY <1>1, Zenon DEF Write
<1> QED
  BY <1>1, Zenon DEF CatalogWrite, LedgerWrite, RedeemWrite, NameRig, PatchTemplate,
    RegisterTemplate, BuildOutfit, WriteBatch, LoseBatch, Update, SoftDelete, Like, Unlike,
    RecordView, Change, RecordTransaction, CreateEntry, CreateRedeem, ResolveRedeem

LEMMA ResolveStep == ResolveInv /\ [Next]_vars => ResolveInv'
<1> SUFFICES ASSUME ResolveInv, [Next]_vars PROVE ResolveInv'
  OBVIOUS
<1>1. ASSUME UNCHANGED <<tables, client>> PROVE ResolveInv'
  BY <1>1 DEF ResolveInv, Counted, Told, Watching, Alive
<1>2. CASE CatalogWrite \/ LedgerWrite \/ RedeemWrite
  BY <1>1, <1>2, WritesAreSeen, MarksFollow
<1>3. CASE Read
  BY <1>3, ReadsResolve
<1>4. CASE Tick \/ Invalidate \/ UNCHANGED vars
  BY <1>1, <1>4 DEF Tick, Invalidate, vars
<1> QED
  BY <1>2, <1>3, <1>4 DEF Next

(* A resolve answers every reference that it passes, finds what was there  *)
(* all along and not what was away, and takes as many pages as its first   *)
(* page said, for any list of references and any page size, whatever is    *)
(* written between the pages.                                              *)
THEOREM ResolvesAnswerAll == Spec => []ResolveAnswersAll
<1>1. Init => ResolveInv
  BY ResolveInit
<1>2. ResolveInv /\ [Next]_vars => ResolveInv'
  BY ResolveStep
<1>3. ResolveInv => ResolveAnswersAll
  <2> SUFFICES ASSUME ResolveInv, client.kind = "resolve" PROVE ResolveAnswersAll
    BY DEF ResolveAnswersAll
  <2>1. client \in ResolveRecord /\ Counted(client) /\ Told(client)
    BY DEF ResolveInv
  <2>2. client.refs # <<>> => Len(client.refs) # 0
    BY <2>1 DEF ResolveRecord
  <2> QED
    BY <2>1, <2>2 DEF Counted, Told, ResolveAnswersAll
<1> QED
  BY <1>1, <1>2, <1>3, PTL DEF Spec

-----------------------------------------------------------------------------
(* Pages.                                                                  *)

(* Rows are in a strict order.                                             *)
LEMMA Trichotomy ==
  ASSUME NEW q \in Row, NEW r \in Row
  PROVE  /\ q = r \/ Before(q, r) \/ Before(r, q)
         /\ ~(Before(q, r) /\ Before(r, q)) /\ ~Before(r, r)
<1>1. /\ q.key \in Int /\ q.id \in Int /\ r.key \in Int /\ r.id \in Int
      /\ q.key = r.key /\ q.id = r.id => q = r
  BY DEF Row
<1> QED
  BY <1>1 DEF Before

LEMMA BeforeIsTransitive ==
  ASSUME NEW p \in Row, NEW q \in Row, NEW r \in Row, Before(p, q), Before(q, r)
  PROVE  Before(p, r)
BY DEF Row, Before

(* The rank of a row: where the order puts it, counted from 0.             *)
LEMMA RankIsLess ==
  ASSUME NEW S, IsFiniteSet(S), S \subseteq Row, NEW r \in S
  PROVE  Rank(S, r) \in Nat /\ Cardinality(S) \in Nat /\ Rank(S, r) < Cardinality(S)
<1> DEFINE T == {q \in S : Before(q, r)}
<1>1. T \subseteq S /\ r \notin T
  BY Trichotomy
<1> HIDE DEF T
<1>2. /\ IsFiniteSet(T) /\ Cardinality(T) <= Cardinality(S)
      /\ Cardinality(T) # Cardinality(S)
  BY <1>1, FS_Subset
<1>3. Cardinality(T) \in Nat /\ Cardinality(S) \in Nat
  BY <1>2, FS_CardinalityType
<1>4. Cardinality(T) < Cardinality(S)
  BY <1>2, <1>3
<1> QED
  BY <1>3, <1>4 DEF Rank, T

LEMMA RankGrows ==
  ASSUME NEW S, IsFiniteSet(S), S \subseteq Row, NEW q \in S, NEW r \in S, Before(q, r)
  PROVE  Rank(S, q) < Rank(S, r)
<1> DEFINE P == {p \in S : Before(p, q)}
           T == {p \in S : Before(p, r)}
<1>1. P \subseteq T /\ T \subseteq S /\ q \in T /\ q \notin P
  BY BeforeIsTransitive, Trichotomy
<1> HIDE DEF P, T
<1>2. IsFiniteSet(T)
  BY <1>1, FS_Subset
<1>3. IsFiniteSet(P) /\ Cardinality(P) <= Cardinality(T) /\ Cardinality(P) # Cardinality(T)
  BY <1>1, <1>2, FS_Subset
<1>4. Cardinality(P) \in Nat /\ Cardinality(T) \in Nat
  BY <1>2, <1>3, FS_CardinalityType
<1>5. Cardinality(P) < Cardinality(T)
  BY <1>3, <1>4
<1> QED
  BY <1>5 DEF Rank, P, T

LEMMA RanksDiffer ==
  ASSUME NEW S, IsFiniteSet(S), S \subseteq Row, NEW q \in S, NEW r \in S
  PROVE  /\ Rank(S, q) = Rank(S, r) => q = r
         /\ Rank(S, q) < Rank(S, r) => Before(q, r)
<1>1. Rank(S, q) \in Nat /\ Rank(S, r) \in Nat
  BY RankIsLess
<1>2. Before(q, r) => Rank(S, q) < Rank(S, r)
  BY RankGrows
<1>3. Before(r, q) => Rank(S, r) < Rank(S, q)
  BY RankGrows
<1>4. q = r \/ Before(q, r) \/ Before(r, q)
  BY Trichotomy
<1> QED
  BY <1>1, <1>2, <1>3, <1>4

(* There is a row of every rank.                                           *)
LEMMA RanksAreTaken ==
  ASSUME NEW S, IsFiniteSet(S), S \subseteq Row
  PROVE  \A n \in 0 .. Cardinality(S) - 1 : \E r \in S : Rank(S, r) = n
<1> DEFINE f == [r \in S |-> Rank(S, r)]
           D == 0 .. Cardinality(S) - 1
<1>1. Cardinality(S) \in Nat
  BY FS_CardinalityType
<1>2. IsFiniteSet(D) /\ Cardinality(D) = Cardinality(S)
  BY <1>1, FS_Interval
<1>3. f \in [S -> D]
  <2>1. \A r \in S : Rank(S, r) \in 0 .. Cardinality(S) - 1
    BY RankIsLess
  <2> QED
    BY <2>1
<1>4. f \in Injection(S, D)
  <2>1. \A q, r \in S : f[q] = f[r] => q = r
    BY RanksDiffer
  <2> HIDE DEF f, D
  <2> QED
    BY <1>3, <2>1 DEF Injection, IsInjective
<1>5. f \in Surjection(S, D)
  <2> HIDE DEF f, D
  <2> QED
    BY <1>2, <1>4, FS_Injection
<1>6. \A n \in D : \E r \in S : f[r] = n
  <2> HIDE DEF f, D
  <2> QED
    BY <1>5 DEF Surjection
<1> QED
  BY <1>6

(* A set in order: every row is where its rank says.                       *)
LEMMA OrderIsByRank ==
  ASSUME NEW S, IsFiniteSet(S), S \subseteq Row
  PROVE  /\ InOrder(S) \in Seq(S) /\ Len(InOrder(S)) = Cardinality(S)
         /\ \A n \in 1 .. Cardinality(S) : /\ InOrder(S)[n] \in S
                                           /\ Rank(S, InOrder(S)[n]) = n - 1
<1>1. Cardinality(S) \in Nat
  BY FS_CardinalityType
<1> DEFINE at(n) == CHOOSE r \in S : Rank(S, r) = n - 1
<1>2. \A n \in 1 .. Cardinality(S) : at(n) \in S /\ Rank(S, at(n)) = n - 1
  <2> SUFFICES ASSUME NEW n \in 1 .. Cardinality(S) PROVE at(n) \in S /\ Rank(S, at(n)) = n - 1
    OBVIOUS
  <2>1. n - 1 \in 0 .. Cardinality(S) - 1
    BY <1>1
  <2>2. \E r \in S : Rank(S, r) = n - 1
    BY <2>1, RanksAreTaken
  <2> QED
    BY <2>2
<1>3. InOrder(S) = [n \in 1 .. Cardinality(S) |-> at(n)]
  BY DEF InOrder
<1> HIDE DEF at
<1>4. InOrder(S) \in [1 .. Cardinality(S) -> S]
  BY <1>2, <1>3
<1>5. InOrder(S) \in Seq(S) /\ Len(InOrder(S)) = Cardinality(S)
  BY <1>1, <1>4
<1> QED
  BY <1>2, <1>3, <1>5

-----------------------------------------------------------------------------
(* What a page is, of the rows that follow a cursor: the first of them, at *)
(* most `limit`, in order, and whether there are more.                     *)
IsPage(page, rows, limit) ==
  /\ page.rows \in Seq(rows)
  /\ \A i, j \in 1 .. Len(page.rows) : i < j => Before(page.rows[i], page.rows[j])
  /\ \A i \in 1 .. Len(page.rows) : Rank(rows, page.rows[i]) < limit
  /\ \A r \in rows : Rank(rows, r) < limit => \E i \in 1 .. Len(page.rows) : page.rows[i] = r
  /\ page.more \in BOOLEAN
  /\ page.more <=> Cardinality(rows) > limit

(* The first n rows in order.                                              *)
LEMMA SortedRows ==
  ASSUME NEW S, IsFiniteSet(S), S \subseteq Row
  PROVE  \A i, j \in 1 .. Cardinality(S) : i < j => Before(InOrder(S)[i], InOrder(S)[j])
<1> SUFFICES ASSUME NEW i \in 1 .. Cardinality(S), NEW j \in 1 .. Cardinality(S), i < j
             PROVE  Before(InOrder(S)[i], InOrder(S)[j])
  OBVIOUS
<1> DEFINE q == InOrder(S)[i]
           r == InOrder(S)[j]
<1>1. q \in S /\ r \in S /\ Rank(S, q) = i - 1 /\ Rank(S, r) = j - 1
  BY OrderIsByRank
<1> HIDE DEF q, r
<1>2. Rank(S, q) < Rank(S, r)
  BY <1>1, FS_CardinalityType
<1>3. Before(q, r)
  BY <1>1, <1>2, RanksDiffer
<1> QED
  BY <1>3 DEF q, r

LEMMA EveryRowInOrder ==
  ASSUME NEW S, IsFiniteSet(S), S \subseteq Row, NEW r \in S
  PROVE  /\ Rank(S, r) + 1 \in 1 .. Cardinality(S)
         /\ InOrder(S)[Rank(S, r) + 1] = r
<1>1. Rank(S, r) \in Nat /\ Cardinality(S) \in Nat /\ Rank(S, r) < Cardinality(S)
  BY RankIsLess
<1>2. Rank(S, r) + 1 \in 1 .. Cardinality(S)
  BY <1>1
<1>3. PICK n \in 1 .. Cardinality(S) : n = Rank(S, r) + 1
  BY <1>2
<1>4. PICK q : q = InOrder(S)[n]
  OBVIOUS
<1>5. q \in S /\ Rank(S, q) = n - 1
  BY <1>4, OrderIsByRank
<1>6. Rank(S, q) = Rank(S, r)
  BY <1>1, <1>3, <1>5
<1>7. q = r
  BY <1>5, <1>6, RanksDiffer
<1> QED
  BY <1>2, <1>3, <1>4, <1>7

(* The maps.                                                               *)
LEMMA MemPageIsPage ==
  ASSUME NEW S, IsFiniteSet(S), S \subseteq Row, NEW limit \in Nat \ {0}
  PROVE  IsPage(MemPage(S, limit), S, limit)
<1> DEFINE n == Cardinality(S)
           m == IF n > limit THEN limit ELSE n
           s == InOrder(S)
           page == MemPage(S, limit)
<1>1. n \in Nat /\ m \in Nat /\ m <= n /\ m <= limit /\ (m < limit => m = n)
  BY FS_CardinalityType
<1>2. s \in Seq(S) /\ Len(s) = n
  BY OrderIsByRank
<1>3. \A i \in 1 .. n : s[i] \in S /\ Rank(S, s[i]) = i - 1
  BY OrderIsByRank
<1>4. \A i, j \in 1 .. n : i < j => Before(s[i], s[j])
  BY SortedRows
<1>5. \A r \in S : /\ Rank(S, r) \in Nat /\ Rank(S, r) + 1 \in 1 .. n
                   /\ s[Rank(S, r) + 1] = r
  BY EveryRowInOrder, RankIsLess
<1>6. page.rows = SubSeq(s, 1, m) /\ page.more = (n > limit)
  BY <1>2 DEF MemPage, Truncate
<1> HIDE DEF n, m, s, page
<1>7. /\ SubSeq(s, 1, m) \in Seq(S) /\ Len(SubSeq(s, 1, m)) = m
      /\ \A i \in 1 .. m : SubSeq(s, 1, m)[i] = s[i]
  BY <1>1, <1>2, <1>3, SubSeqProperties
<1> DEFINE rows == page.rows
<1>8. /\ rows \in Seq(S) /\ Len(rows) = m
      /\ \A i \in 1 .. m : i \in 1 .. n /\ rows[i] = s[i]
  BY <1>1, <1>6, <1>7
<1>9. \A r \in S : Rank(S, r) < limit => Rank(S, r) + 1 \in 1 .. m
  BY <1>1, <1>5
<1> HIDE DEF rows
<1>10. \A i, j \in 1 .. Len(rows) : i < j => Before(rows[i], rows[j])
  BY <1>4, <1>8
<1>11. \A i \in 1 .. Len(rows) : Rank(S, rows[i]) < limit
  <2> SUFFICES ASSUME NEW i \in 1 .. m PROVE Rank(S, rows[i]) < limit
    BY <1>8
  <2>1. Rank(S, rows[i]) = i - 1
    BY <1>3, <1>8
  <2> QED
    BY <1>1, <2>1
<1>12. \A r \in S : Rank(S, r) < limit => \E i \in 1 .. Len(rows) : rows[i] = r
  <2> SUFFICES ASSUME NEW r \in S, Rank(S, r) < limit
               PROVE  \E i \in 1 .. Len(rows) : rows[i] = r
    OBVIOUS
  <2>1. Rank(S, r) + 1 \in 1 .. m /\ rows[Rank(S, r) + 1] = r
    BY <1>5, <1>8, <1>9
  <2> QED
    BY <1>8, <2>1
<1>13. page.more \in BOOLEAN /\ (page.more <=> n > limit)
  <2>1. (n > limit) \in BOOLEAN
    BY SMT
  <2> QED
    BY <1>6, <2>1, Zenon
<1> QED
  BY <1>8, <1>10, <1>11, <1>12, <1>13 DEF IsPage, rows, n, page

(* The tables: limit and one more, of which the last is taken off.         *)
LEMMA FetchedRanks ==
  ASSUME NEW S, IsFiniteSet(S), S \subseteq Row, NEW n \in Nat,
         NEW F, F = {r \in S : Rank(S, r) < n}, NEW r \in F
  PROVE  Rank(F, r) = Rank(S, r)
<1>1. \A q \in S : Rank(S, q) \in Nat
  BY RankIsLess
<1>2. \A q \in S : Before(q, r) => q \in F
  <2> SUFFICES ASSUME NEW q \in S, Before(q, r) PROVE q \in F
    OBVIOUS
  <2>1. r \in S /\ Rank(S, r) < n
    OBVIOUS
  <2>2. Rank(S, q) < Rank(S, r)
    BY <2>1, RankGrows
  <2> QED
    BY <1>1, <2>1, <2>2
<1>3. {q \in F : Before(q, r)} = {q \in S : Before(q, r)}
  BY <1>2
<1> QED
  BY <1>3 DEF Rank

LEMMA TrimmedIsPage ==
  ASSUME NEW S, IsFiniteSet(S), S \subseteq Row, NEW limit \in Nat \ {0},
         NEW F, F = {r \in S : Rank(S, r) < limit + 1}
  PROVE  IsPage(TrimPage(F, limit), S, limit)
<1> DEFINE P == {r \in F : Rank(F, r) < limit}
<1>1. /\ \A r \in S : Rank(S, r) \in Nat
      /\ Cardinality(S) \in Nat
  BY RankIsLess, FS_CardinalityType
<1>2. F \subseteq S /\ \A r \in F : Rank(F, r) = Rank(S, r)
  BY FetchedRanks
<1>3. P \subseteq S /\ \A r \in S : Rank(S, r) < limit <=> r \in P
  BY <1>1, <1>2
<1>4. IsFiniteSet(F) /\ Cardinality(F) \in Nat /\ Cardinality(F) <= Cardinality(S)
  BY <1>2, FS_Subset, FS_CardinalityType
<1>5. Cardinality(F) > limit <=> Cardinality(S) > limit
  <2>1. ASSUME Cardinality(S) > limit PROVE Cardinality(F) > limit
    <3>1. limit \in 0 .. Cardinality(S) - 1
      BY <1>1, <2>1
    <3>2. PICK r \in S : Rank(S, r) = limit
      BY <3>1, RanksAreTaken
    <3>3. r \in F /\ Rank(F, r) = limit
      BY <1>2, <3>2
    <3>4. Rank(F, r) < Cardinality(F)
      BY <1>2, <1>4, <3>3, RankIsLess
    <3> QED
      BY <3>3, <3>4
  <2> QED
    BY <1>1, <1>4, <2>1
<1> HIDE DEF P
<1>6. IsFiniteSet(P) /\ P \subseteq Row
  BY <1>3, FS_Subset
<1> DEFINE page == TrimPage(F, limit)
           rows == page.rows
<1>7. rows = InOrder(P) /\ page.more = (Cardinality(F) > limit)
  BY DEF TrimPage, P
<1> HIDE DEF page, rows
<1>8. rows \in Seq(P) /\ Len(rows) = Cardinality(P)
  BY <1>6, <1>7, OrderIsByRank
<1>9. rows \in Seq(S)
  BY <1>3, <1>8, SeqMonotonic
<1>10. \A i, j \in 1 .. Len(rows) : i < j => Before(rows[i], rows[j])
  BY <1>6, <1>7, <1>8, SortedRows
<1>11. \A i \in 1 .. Len(rows) : Rank(S, rows[i]) < limit
  BY <1>3, <1>8, ElementOfSeq
<1>12. ASSUME NEW r \in S, Rank(S, r) < limit
       PROVE  \E i \in 1 .. Len(rows) : rows[i] = r
  <2>1. r \in P
    BY <1>3, <1>12
  <2>2. /\ Rank(P, r) + 1 \in 1 .. Cardinality(P)
        /\ InOrder(P)[Rank(P, r) + 1] = r
    BY <1>6, <2>1, EveryRowInOrder
  <2> QED
    BY <1>7, <1>8, <2>2
<1>13. page.more \in BOOLEAN /\ (page.more <=> Cardinality(S) > limit)
  <2>1. (Cardinality(F) > limit) \in BOOLEAN
    BY SMT
  <2> QED
    BY <1>5, <1>7, <2>1, Zenon
<1> QED
  BY <1>9, <1>10, <1>11, <1>12, <1>13 DEF IsPage, rows, page

LEMMA SqlPageIsPage ==
  ASSUME NEW rows, IsFiniteSet(rows), rows \subseteq Row, NEW limit \in Nat \ {0},
         NEW cursor, \A c \in cursor : c.key \in Int /\ c.id \in Int
  PROVE  IsPage(SqlPage(rows, cursor, limit), {r \in rows : \A c \in cursor : After(c, r)}, limit)
<1> DEFINE left == {r \in rows : \A c \in cursor : r.key < c.key \/ (r.key = c.key /\ r.id > c.id)}
           after == {r \in rows : \A c \in cursor : After(c, r)}
           F == {r \in left : Rank(left, r) < limit + 1}
<1>1. left = after
  <2>1. ASSUME NEW r \in rows, NEW c \in cursor
        PROVE  After(c, r) <=> r.key < c.key \/ (r.key = c.key /\ r.id > c.id)
    BY DEF After, Row
  <2> QED
    BY <2>1
<1>2. left \subseteq rows
  OBVIOUS
<1>3. SqlPage(rows, cursor, limit) = TrimPage(F, limit)
  BY DEF SqlPage
<1>5. F = {r \in left : Rank(left, r) < limit + 1}
  OBVIOUS
<1> HIDE DEF left, after, F
<1>4. IsFiniteSet(left) /\ left \subseteq Row
  BY <1>2, FS_Subset
<1>6. IsPage(TrimPage(F, limit), left, limit)
  BY <1>4, <1>5, TrimmedIsPage
<1> QED
  BY <1>1, <1>3, <1>6 DEF after

-----------------------------------------------------------------------------
(* The rows of a list are finitely many and well formed.                   *)
ListRow == [id : Nat \ {0}, key : Nat]

TableOK(table, ids, rows) ==
  /\ DOMAIN table \subseteq ids
  /\ IsFiniteSet(DOMAIN table)
  /\ \A i \in DOMAIN table : table[i] \in rows

LikedOutfit == {row \in OutfitRow : IsFiniteSet(row.likes)}

CatalogOK(t) == TableOK(t.outfits, Outfit, LikedOutfit)

TablesOK(t) ==
  /\ DOMAIN t = {"outfits", "templates", "transactions", "entries", "redeems"}
  /\ TableOK(t.outfits, Outfit, LikedOutfit)
  /\ TableOK(t.templates, Template, TemplateRow)
  /\ TableOK(t.transactions, Transaction, LedgerRow)
  /\ TableOK(t.entries, Entry, LedgerRow)
  /\ TableOK(t.redeems, Redeem, RedeemRow)

LEMMA ListRowsAreRows == ListRow \subseteq Row
BY DEF ListRow, Row

LEMMA ImageIsFinite ==
  ASSUME NEW f, IsFiniteSet(DOMAIN f)
  PROVE  IsFiniteSet({f[x] : x \in DOMAIN f})
<1> DEFINE D == DOMAIN f
           T == {f[x] : x \in D}
           g == [x \in D |-> f[x]]
<1>1. g \in [D -> T] /\ \A y \in T : \E x \in D : g[x] = y
  OBVIOUS
<1> HIDE DEF T, g
<1>2. g \in Surjection(D, T)
  BY <1>1 DEF Surjection
<1>3. IsFiniteSet(T)
  BY <1>2, FS_Surjection
<1> QED
  BY <1>3 DEF T

(* A finite set of naturals has a largest element.                         *)
LEMMA MaxIsIn ==
  ASSUME NEW S, S \subseteq Nat, S # {}, IsFiniteSet(S)
  PROVE  Max(S) \in S
<1> DEFINE f == [n \in S |-> [id |-> 1, key |-> n]]
           R == {f[n] : n \in S}
<1>1. DOMAIN f = S /\ \A n \in S : f[n] = [id |-> 1, key |-> n]
  OBVIOUS
<1>2. IsFiniteSet(R)
  BY <1>1, ImageIsFinite
<1>3. \A n \in S : [id |-> 1, key |-> n] \in R
  BY <1>1
<1>4. \A r \in R : \E n \in S : r = [id |-> 1, key |-> n]
  BY <1>1
<1> HIDE DEF f, R
<1>5. R \subseteq Row
  BY <1>4 DEF Row
<1>6. R # {}
  BY <1>3
<1>7. Cardinality(R) \in Nat /\ Cardinality(R) # 0
  BY <1>2, <1>6, FS_CardinalityType, FS_EmptySet
<1>8. 0 \in 0 .. Cardinality(R) - 1
  BY <1>7
<1>9. PICK r \in R : Rank(R, r) = 0
  BY <1>2, <1>5, <1>8, RanksAreTaken
<1>10. {q \in R : Before(q, r)} = {}
  <2> DEFINE T == {q \in R : Before(q, r)}
  <2>1. T \subseteq R /\ Cardinality(T) = 0
    BY <1>9 DEF Rank
  <2> HIDE DEF T
  <2>2. T = {}
    BY <1>2, <2>1, FS_Subset, FS_EmptySet
  <2> QED
    BY <2>2 DEF T
<1>11. PICK n \in S : r = [id |-> 1, key |-> n]
  BY <1>4
<1>12. \A m \in S : n >= m
  <2> SUFFICES ASSUME NEW m \in S, m > n PROVE FALSE
    OBVIOUS
  <2>1. [id |-> 1, key |-> m] \in R /\ Before([id |-> 1, key |-> m], r)
    BY <1>3, <1>11 DEF Before
  <2> QED
    BY <1>10, <2>1
<1> QED
  BY <1>11, <1>12 DEF Max

LEMMA NewestRows ==
  ASSUME NEW table, NEW ids, ids \subseteq DOMAIN table, IsFiniteSet(DOMAIN table),
         DOMAIN table \subseteq Nat \ {0}, \A i \in DOMAIN table : table[i].at \in Nat
  PROVE  IsFiniteSet(Newest(table, ids)) /\ Newest(table, ids) \subseteq ListRow
<1> DEFINE f == [i \in ids |-> [id |-> i, key |-> table[i].at]]
<1>1. IsFiniteSet(ids)
  BY FS_Subset
<1>2. DOMAIN f = ids /\ Newest(table, ids) = {f[i] : i \in ids}
  BY DEF Newest
<1>3. \A i \in ids : f[i] \in ListRow
  BY DEF ListRow
<1> HIDE DEF f
<1>4. IsFiniteSet({f[i] : i \in ids})
  BY <1>1, <1>2, ImageIsFinite
<1> QED
  BY <1>2, <1>3, <1>4

LEMMA ClockIsNat == Clock \subseteq Nat /\ IsFiniteSet(Clock)
<1>1. MaxClock \in Int /\ MaxClock \in Nat
  BY ListConstants
<1>2. IsFiniteSet(0 .. MaxClock)
  BY <1>1, FS_Interval
<1> QED
  BY <1>1, <1>2 DEF Clock

LEMMA IdsArePositive ==
  /\ Outfit \subseteq Nat \ {0} /\ Template \subseteq Nat \ {0} /\ Transaction \subseteq Nat \ {0}
  /\ Entry \subseteq Nat \ {0} /\ Redeem \subseteq Nat \ {0} /\ Player \subseteq Nat \ {0}
BY ListConstants

LEMMA OutfitRowsOK ==
  ASSUME NEW t, CatalogOK(t), NEW q
  PROVE  IsFiniteSet(OutfitRows(t, q)) /\ OutfitRows(t, q) \subseteq ListRow
<1> DEFINE D == {o \in DOMAIN t.outfits : Alive(t, o) /\ (q.only => t.outfits[o].public)}
           f == [o \in D |-> [id |-> o, key |-> SortKey(t.outfits[o], q.sort)]]
<1>1. D \subseteq DOMAIN t.outfits /\ DOMAIN f = D
  OBVIOUS
<1>2. OutfitRows(t, q) = {f[o] : o \in D}
  BY DEF OutfitRows
<1>3. \A o \in D : f[o] = [id |-> o, key |-> SortKey(t.outfits[o], q.sort)]
  OBVIOUS
<1> HIDE DEF D, f
<1>4. IsFiniteSet(D)
  BY <1>1, FS_Subset DEF CatalogOK, TableOK
<1>5. ASSUME NEW o \in DOMAIN t.outfits PROVE SortKey(t.outfits[o], q.sort) \in Nat
  <2>1. t.outfits[o] \in OutfitRow /\ IsFiniteSet(t.outfits[o].likes)
    BY DEF CatalogOK, TableOK, LikedOutfit
  <2>2. Cardinality(t.outfits[o].likes) \in Nat
    BY <2>1, FS_CardinalityType
  <2>3. MaxWrites["catalog"] \in Nat
    BY ListConstants DEF Areas
  <2>4. t.outfits[o].at \in Nat /\ t.outfits[o].views \in Nat
    <3>1. t.outfits[o].at \in Clock /\ t.outfits[o].views \in 0 .. MaxWrites["catalog"]
      BY <2>1 DEF OutfitRow
    <3>2. PICK m \in Nat : m = MaxWrites["catalog"]
      BY <2>3
    <3>3. t.outfits[o].views \in 0 .. m
      BY <3>1, <3>2, Zenon
    <3>4. t.outfits[o].at \in Nat
      BY <3>1, ClockIsNat, Zenon
    <3>5. 0 .. m \subseteq Nat
      OBVIOUS
    <3>6. t.outfits[o].views \in Nat
      BY <3>3, <3>5, Zenon
    <3> QED
      BY <3>4, <3>6
  <2> QED
    BY <2>2, <2>4 DEF SortKey
<1>6. ASSUME NEW o \in D PROVE f[o] \in ListRow
  <2>1. o \in Nat \ {0}
    BY <1>1, IdsArePositive DEF CatalogOK, TableOK
  <2>2. PICK key \in Nat : key = SortKey(t.outfits[o], q.sort)
    BY <1>1, <1>5
  <2>3. f[o] = [id |-> o, key |-> key]
    BY <1>3, <2>2, Zenon
  <2> QED
    BY <2>1, <2>3 DEF ListRow
<1> QED
  BY <1>1, <1>2, <1>4, <1>6, ImageIsFinite

LEMMA BalanceRowsOK ==
  ASSUME NEW t, TablesOK(t)
  PROVE  IsFiniteSet(BalanceRows(t)) /\ BalanceRows(t) \subseteq ListRow
<1> DEFINE D == DOMAIN t.entries
           g == [e \in D |-> t.entries[e].user]
           U == {g[e] : e \in D}
           times(u) == {t.entries[e].at : e \in Theirs(t.entries, u)}
           f == [u \in U |-> [id |-> u, key |-> Max(times(u))]]
<1>1. /\ D \subseteq Entry /\ IsFiniteSet(D)
      /\ \A e \in D : t.entries[e].at \in Clock /\ t.entries[e].user \in Player
  BY DEF TablesOK, TableOK, LedgerRow
<1>2. IsFiniteSet(U) /\ U \subseteq Player /\ \A u \in U : \E e \in D : u = t.entries[e].user
  <2>1. DOMAIN g = D /\ \A e \in D : g[e] = t.entries[e].user
    OBVIOUS
  <2>2. IsFiniteSet(U)
    <3> HIDE DEF g, D
    <3> QED
      BY <1>1, <2>1, ImageIsFinite
  <2> QED
    BY <1>1, <2>1, <2>2
<1>3. BalanceRows(t) = {f[u] : u \in U} /\ DOMAIN f = U
  BY DEF BalanceRows
<1>4. ASSUME NEW u \in U PROVE Max(times(u)) \in Nat
  <2>1. times(u) \subseteq Clock
    BY <1>1 DEF Theirs
  <2>2. PICK e \in D : u = t.entries[e].user
    BY <1>2
  <2>3. e \in Theirs(t.entries, u)
    BY <2>2 DEF Theirs
  <2>4. times(u) # {}
    BY <2>3
  <2> HIDE DEF times
  <2>5. IsFiniteSet(times(u)) /\ times(u) \subseteq Nat
    BY <2>1, ClockIsNat, FS_Subset
  <2>6. Max(times(u)) \in times(u)
    BY <2>4, <2>5, MaxIsIn
  <2> QED
    BY <2>5, <2>6
<1>5. \A u \in U : f[u] = [id |-> u, key |-> Max(times(u))]
  OBVIOUS
<1> HIDE DEF times, U, f
<1>6. ASSUME NEW u \in U PROVE f[u] \in ListRow
  <2>1. u \in Nat \ {0}
    BY <1>2, IdsArePositive
  <2>2. PICK key \in Nat : key = Max(times(u))
    BY <1>4
  <2>3. f[u] = [id |-> u, key |-> key]
    BY <1>5, <2>2, Zenon
  <2> QED
    BY <2>1, <2>3 DEF ListRow
<1> QED
  BY <1>2, <1>3, <1>6, ImageIsFinite

LEMMA RowsOK ==
  ASSUME NEW t, TablesOK(t), NEW q \in Queries
  PROVE  IsFiniteSet(Rows(t, q)) /\ Rows(t, q) \subseteq ListRow
<1>1. /\ \A i \in DOMAIN t.templates : t.templates[i].at \in Nat
      /\ \A i \in DOMAIN t.transactions : t.transactions[i].at \in Nat
      /\ \A i \in DOMAIN t.entries : t.entries[i].at \in Nat
      /\ \A i \in DOMAIN t.redeems : t.redeems[i].at \in Nat
  BY ClockIsNat DEF TablesOK, TableOK, TemplateRow, LedgerRow, RedeemRow
<1>2. /\ DOMAIN t.templates \subseteq Nat \ {0} /\ IsFiniteSet(DOMAIN t.templates)
      /\ DOMAIN t.transactions \subseteq Nat \ {0} /\ IsFiniteSet(DOMAIN t.transactions)
      /\ DOMAIN t.entries \subseteq Nat \ {0} /\ IsFiniteSet(DOMAIN t.entries)
      /\ DOMAIN t.redeems \subseteq Nat \ {0} /\ IsFiniteSet(DOMAIN t.redeems)
  BY IdsArePositive DEF TablesOK, TableOK
<1> DEFINE OK(rows) == IsFiniteSet(rows) /\ rows \subseteq ListRow
<1>3. OK(OutfitRows(t, q)) /\ OK(BalanceRows(t))
  BY OutfitRowsOK, BalanceRowsOK DEF CatalogOK, TablesOK
<1>4. OK(TemplateRows(t))
  BY <1>1, <1>2, NewestRows DEF TemplateRows
<1>5. OK(TransactionRows(t, q))
  <2>1. Theirs(t.transactions, q.who) \subseteq DOMAIN t.transactions
    BY DEF Theirs
  <2> QED
    BY <1>1, <1>2, <2>1, NewestRows DEF TransactionRows
<1>6. OK(EntryRows(t, q))
  <2>1. Theirs(t.entries, q.who) \subseteq DOMAIN t.entries
    BY DEF Theirs
  <2> QED
    BY <1>1, <1>2, <2>1, NewestRows DEF EntryRows
<1>7. OK(RedeemRows(t, q))
  <2>1. {r \in Theirs(t.redeems, q.who) : q.only => t.redeems[r].pending} \subseteq DOMAIN t.redeems
    BY DEF Theirs
  <2> QED
    BY <1>1, <1>2, <2>1, NewestRows DEF RedeemRows
<1>8. q.list \in {"outfits", "templates", "transactions", "entries", "redeems", "balances"}
  BY DEF Queries
<1> HIDE DEF OK
<1>9. OK(Rows(t, q))
  BY <1>3, <1>4, <1>5, <1>6, <1>7, <1>8, Zenon DEF Rows
<1> QED
  BY <1>9 DEF OK

-----------------------------------------------------------------------------
(* A walk: the cursor is at the last row served, rows were served in       *)
(* order, and of the steady rows all that the cursor has passed.           *)
WalkRecord ==
  [kind : {"walk"}, query : Queries, limit : 1 .. MaxPageSize,
   cursor : SUBSET [sort : Sorts, id : Nat \ {0}, key : Nat], seen : Seq(ListRow),
   done : BOOLEAN, steady : SUBSET ListRow]

CursorAt(row, sort) == [sort |-> sort, id |-> row.id, key |-> row.key]

Placed(c) ==
  IF c.done \/ c.seen = <<>> THEN c.cursor = {}
                             ELSE c.cursor = {CursorAt(Last(c.seen), c.query.sort)}

Sorted(seen) == \A i, j \in 1 .. Len(seen) : i < j => Before(seen[i], seen[j])

In(seen, r) == \E i \in 1 .. Len(seen) : seen[i] = r

Passed(c, r) == c.done \/ \E k \in c.cursor : ~After(k, r)

WalkOK(c, t) ==
  /\ c \in WalkRecord
  /\ Placed(c)
  /\ Sorted(c.seen)
  /\ \A r \in c.steady : Passed(c, r) => In(c.seen, r)
  /\ c.steady \subseteq Rows(t, c.query)

LEMMA AfterIsBefore ==
  ASSUME NEW q \in Row, NEW r \in Row, NEW sort
  PROVE  After(CursorAt(q, sort), r) <=> Before(q, r)
BY DEF After, Before, CursorAt, Row

(* What a page says about the rows that follow the cursor.                 *)
LEMMA PageServes ==
  ASSUME NEW F, IsFiniteSet(F), F \subseteq Row, NEW limit \in Nat \ {0},
         NEW page, IsPage(page, F, limit)
  PROVE  /\ page.more => Len(page.rows) \in Nat \ {0}
         /\ ~page.more => \A r \in F : In(page.rows, r)
         /\ page.more => \A r \in F : In(page.rows, r) \/ Before(Last(page.rows), r)
<1> DEFINE rows == page.rows
<1>1. /\ rows \in Seq(F) /\ Len(rows) \in Nat
      /\ \A i \in 1 .. Len(rows) : rows[i] \in F /\ Rank(F, rows[i]) < limit
      /\ \A r \in F : Rank(F, r) < limit => In(rows, r)
      /\ page.more <=> Cardinality(F) > limit
      /\ page.more \in BOOLEAN
  BY LenProperties, ElementOfSeq DEF IsPage, In
<1> HIDE DEF rows
<1>2. Cardinality(F) \in Nat /\ \A r \in F : Rank(F, r) \in Nat /\ Rank(F, r) < Cardinality(F)
  BY FS_CardinalityType, RankIsLess
<1>3. ASSUME page.more PROVE Len(rows) \in Nat \ {0}
  <2>1. 0 \in 0 .. Cardinality(F) - 1
    BY <1>1, <1>2, <1>3
  <2>2. PICK r \in F : Rank(F, r) = 0
    BY <2>1, RanksAreTaken
  <2>3. In(rows, r)
    BY <1>1, <2>2
  <2> QED
    BY <1>1, <2>3 DEF In
<1>4. ASSUME ~page.more, NEW r \in F PROVE In(rows, r)
  <2>1. Rank(F, r) < limit
    BY <1>1, <1>2, <1>4
  <2> QED
    BY <1>1, <2>1
<1>5. ASSUME page.more, NEW r \in F, ~In(rows, r) PROVE Before(Last(rows), r)
  <2>1. PICK q : q = Last(rows)
    OBVIOUS
  <2>2. q \in F /\ Rank(F, q) < limit
    BY <1>1, <1>3, <1>5, <2>1 DEF Last
  <2>3. Rank(F, q) < Rank(F, r)
    BY <1>1, <1>2, <1>5, <2>2
  <2>4. Before(q, r)
    BY <2>2, <2>3, RanksDiffer
  <2> QED
    BY <2>1, <2>4
<1> QED
  BY <1>3, <1>4, <1>5 DEF rows

(* Sequences in order, the second after the first.                         *)
LEMMA SortedJoin ==
  ASSUME NEW s \in Seq(Row), NEW u \in Seq(Row), Sorted(s), Sorted(u),
         \A i \in 1 .. Len(s), j \in 1 .. Len(u) : Before(s[i], u[j])
  PROVE  Sorted(s \o u)
<1>1. PICK w : w = s \o u
  OBVIOUS
<1>2. /\ Len(w) = Len(s) + Len(u) /\ Len(s) \in Nat /\ Len(u) \in Nat
      /\ \A i \in 1 .. Len(s) + Len(u) : w[i] = IF i <= Len(s) THEN s[i] ELSE u[i - Len(s)]
  BY <1>1, ConcatProperties, LenProperties
<1>3. PICK m \in Nat, n \in Nat : m = Len(s) /\ n = Len(u)
  BY <1>2
<1> SUFFICES ASSUME NEW i \in 1 .. m + n, NEW j \in 1 .. m + n, i < j PROVE Before(w[i], w[j])
  BY <1>1, <1>2, <1>3 DEF Sorted
<1>4. CASE j <= m
  <2>1. i \in 1 .. m /\ j \in 1 .. m /\ w[i] = s[i] /\ w[j] = s[j]
    BY <1>2, <1>3, <1>4
  <2> QED
    BY <1>3, <2>1 DEF Sorted
<1>5. CASE ~(j <= m) /\ i <= m
  <2>1. i \in 1 .. m /\ j - m \in 1 .. n /\ w[i] = s[i] /\ w[j] = u[j - m]
    BY <1>2, <1>3, <1>5
  <2> QED
    BY <1>3, <2>1
<1>6. CASE ~(i <= m)
  <2>1. /\ i - m \in 1 .. n /\ j - m \in 1 .. n /\ i - m < j - m
        /\ w[i] = u[i - m] /\ w[j] = u[j - m]
    BY <1>2, <1>3, <1>6
  <2> QED
    BY <1>3, <2>1 DEF Sorted
<1> QED
  BY <1>4, <1>5, <1>6

LEMMA InJoin ==
  ASSUME NEW S, NEW s \in Seq(S), NEW u \in Seq(S), NEW r
  PROVE  In(s, r) \/ In(u, r) => In(s \o u, r)
<1>1. PICK w : w = s \o u
  OBVIOUS
<1>2. /\ Len(w) = Len(s) + Len(u) /\ Len(s) \in Nat /\ Len(u) \in Nat
      /\ \A i \in 1 .. Len(s) + Len(u) : w[i] = IF i <= Len(s) THEN s[i] ELSE u[i - Len(s)]
  BY <1>1, ConcatProperties, LenProperties
<1>3. ASSUME NEW i \in 1 .. Len(s), s[i] = r PROVE In(w, r)
  <2>1. i \in 1 .. Len(w) /\ w[i] = r
    BY <1>2, <1>3
  <2> QED
    BY <2>1 DEF In
<1>4. ASSUME NEW i \in 1 .. Len(u), u[i] = r PROVE In(w, r)
  <2>1. Len(s) + i \in 1 .. Len(w) /\ w[Len(s) + i] = r
    BY <1>2, <1>4
  <2> QED
    BY <2>1 DEF In
<1> QED
  BY <1>1, <1>3, <1>4 DEF In

(* One page more.                                                          *)
LEMMA PageKeepsWalk ==
  ASSUME NEW t, NEW c, WalkOK(c, t), ~c.done,
         NEW R, IsFiniteSet(R), R \subseteq ListRow, c.steady \subseteq R,
         NEW F, F = {r \in R : \A k \in c.cursor : After(k, r)},
         NEW page, IsPage(page, F, c.limit),
         NEW d, d = Turned(c, page, c.query.sort)
  PROVE  WalkOK(d, t) /\ d.kind = "walk" /\ d.query = c.query /\ d.steady = c.steady
<1>1. /\ c \in WalkRecord /\ Placed(c) /\ Sorted(c.seen)
      /\ \A r \in c.steady : Passed(c, r) => In(c.seen, r)
      /\ c.steady \subseteq Rows(t, c.query)
  BY DEF WalkOK
<1>2. /\ c.query \in Queries /\ c.limit \in 1 .. MaxPageSize /\ c.seen \in Seq(ListRow)
      /\ c.done = FALSE /\ c.steady \subseteq ListRow
  BY <1>1 DEF WalkRecord
<1>3. /\ IsFiniteSet(F) /\ F \subseteq ListRow /\ F \subseteq Row
      /\ \A r \in F : \A k \in c.cursor : After(k, r)
      /\ \A r \in c.steady : r \notin F => Passed(c, r)
  <2>1. F \subseteq R
    OBVIOUS
  <2>2. IsFiniteSet(F) /\ F \subseteq ListRow
    BY <2>1, FS_Subset
  <2>3. \A r \in c.steady : r \notin F => Passed(c, r)
    BY <1>1 DEF Passed
  <2> QED
    BY <2>2, <2>3, ListRowsAreRows
<1>4. PICK rows : rows = page.rows
  OBVIOUS
<1>5. /\ rows \in Seq(F) /\ Sorted(rows) /\ page.more \in BOOLEAN
  BY <1>4 DEF IsPage, Sorted
<1>6. rows \in Seq(ListRow) /\ rows \in Seq(Row) /\ c.seen \in Seq(Row)
  BY <1>2, <1>3, <1>5, ListRowsAreRows, SeqMonotonic
<1>7. c.limit \in Nat \ {0}
  BY <1>2, LimitsArePositive
<1>8. /\ page.more => Len(rows) \in Nat \ {0}
      /\ ~page.more => \A r \in F : In(rows, r)
      /\ page.more => \A r \in F : In(rows, r) \/ Before(Last(rows), r)
  BY <1>3, <1>4, <1>7, PageServes
<1>9. PICK joined : joined = c.seen \o rows
  OBVIOUS
<1>10. /\ joined \in Seq(ListRow)
       /\ \A r : In(c.seen, r) \/ In(rows, r) => In(joined, r)
       /\ page.more => joined # <<>> /\ Last(joined) = Last(rows) /\ Last(rows) \in ListRow
  <2>1. joined \in Seq(ListRow)
    BY <1>2, <1>6, <1>9, ConcatProperties
  <2>2. \A r : In(c.seen, r) \/ In(rows, r) => In(joined, r)
    BY <1>2, <1>6, <1>9, InJoin
  <2>3. ASSUME page.more
        PROVE  joined # <<>> /\ Last(joined) = Last(rows) /\ Last(rows) \in ListRow
    <3>1. PICK m \in Nat, n \in Nat \ {0} : m = Len(c.seen) /\ n = Len(rows)
      BY <1>2, <1>8, <2>3, LenProperties
    <3>2. /\ Len(joined) = m + n
          /\ \A i \in 1 .. m + n : joined[i] = IF i <= m THEN c.seen[i] ELSE rows[i - m]
      BY <1>2, <1>6, <1>9, <3>1, ConcatProperties
    <3>3. m + n \in 1 .. m + n /\ ~(m + n <= m) /\ m + n - m = n /\ m + n # 0 /\ n \in 1 .. n
      BY <3>1
    <3>4. joined[m + n] = rows[n]
      BY <3>2, <3>3
    <3>5. rows[n] \in ListRow
      BY <1>6, <3>1, <3>3, ElementOfSeq
    <3>6. joined # <<>>
      BY <3>2, <3>3
    <3> QED
      BY <3>1, <3>2, <3>4, <3>5, <3>6 DEF Last
  <2> QED
    BY <2>1, <2>2, <2>3
<1>11. Sorted(joined)
  <2>1. ASSUME NEW i \in 1 .. Len(c.seen), NEW j \in 1 .. Len(rows)
        PROVE  Before(c.seen[i], rows[j])
    <3>1. /\ c.seen[i] \in Row /\ rows[j] \in Row /\ rows[j] \in F
          /\ Len(c.seen) \in Nat /\ c.seen # <<>>
      BY <1>3, <1>5, <1>6, ElementOfSeq, LenProperties, EmptySeq
    <3>2. PICK l : l = Last(c.seen)
      OBVIOUS
    <3>3. c.cursor = {CursorAt(l, c.query.sort)}
      BY <1>1, <1>2, <3>1, <3>2 DEF Placed
    <3>4. l \in Row /\ (c.seen[i] = l \/ Before(c.seen[i], l))
      <4>1. Len(c.seen) \in 1 .. Len(c.seen) /\ (i = Len(c.seen) \/ i < Len(c.seen))
        BY <3>1
      <4>2. l = c.seen[Len(c.seen)]
        BY <3>2 DEF Last
      <4> QED
        BY <1>1, <1>6, <4>1, <4>2, ElementOfSeq DEF Sorted
    <3>5. Before(l, rows[j])
      BY <1>3, <3>1, <3>3, <3>4, AfterIsBefore
    <3> QED
      BY <3>1, <3>4, <3>5, BeforeIsTransitive
  <2> QED
    BY <1>1, <1>5, <1>6, <1>9, <2>1, SortedJoin
<1>12. PICK sort : sort = c.query.sort
  OBVIOUS
<1>13. sort \in Sorts
  BY <1>2, <1>12 DEF Queries, Sorts
<1>14. PICK next : next = NextCursor(page, sort)
  OBVIOUS
<1>15. /\ page.more => next = {CursorAt(Last(rows), sort)}
       /\ ~page.more => next = {}
  BY <1>4, <1>14 DEF NextCursor, CursorAt
<1>16. next \in SUBSET [sort : Sorts, id : Nat \ {0}, key : Nat]
  <2>1. CASE page.more
    <3>1. CursorAt(Last(rows), sort) \in [sort : Sorts, id : Nat \ {0}, key : Nat]
      BY <1>10, <1>13, <2>1 DEF CursorAt, ListRow
    <3> QED
      BY <1>15, <2>1, <3>1
  <2>2. CASE ~page.more
    BY <1>15, <2>2
  <2> QED
    BY <2>1, <2>2
<1>17. [c.query EXCEPT !.sort = sort] = c.query
  BY <1>2, <1>12 DEF Queries
<1>18. PICK last \in BOOLEAN : last <=> ~page.more
  BY <1>5
<1>19. d = [c EXCEPT !.query = c.query, !.seen = joined, !.cursor = next, !.done = last]
  <2>1. d = [c EXCEPT !.query = [@ EXCEPT !.sort = sort], !.seen = joined, !.cursor = next,
                      !.done = ~page.more]
    BY <1>4, <1>9, <1>12, <1>14 DEF Turned
  <2>2. (~page.more) = last
    BY <1>5, <1>18
  <2> QED
    BY <1>17, <2>1, <2>2
<1>20. /\ d \in WalkRecord
       /\ d.query = c.query /\ d.limit = c.limit /\ d.cursor = next /\ d.seen = joined
       /\ d.done = last /\ d.steady = c.steady
  BY <1>1, <1>10, <1>16, <1>19 DEF WalkRecord
<1>21. Placed(d)
  BY <1>10, <1>12, <1>15, <1>18, <1>20 DEF Placed
<1>22. ASSUME NEW r \in d.steady, Passed(d, r) PROVE In(d.seen, r)
  <2>1. r \in c.steady /\ r \in Row
    BY <1>2, <1>20, <1>22, ListRowsAreRows
  <2>2. CASE r \notin F
    BY <1>1, <1>3, <1>10, <1>20, <2>1, <2>2
  <2>3. CASE r \in F /\ ~page.more
    BY <1>8, <1>10, <1>20, <2>3
  <2>4. CASE r \in F /\ page.more
    <3>1. \E k \in next : ~After(k, r)
      BY <1>18, <1>20, <1>22, <2>4 DEF Passed
    <3>2. ~After(CursorAt(Last(rows), sort), r)
      BY <1>15, <2>4, <3>1
    <3>3. ~Before(Last(rows), r)
      <4>1. Last(rows) \in Row
        BY <1>10, <2>4, ListRowsAreRows
      <4> QED
        BY <2>1, <3>2, <4>1, AfterIsBefore
    <3> QED
      BY <1>8, <1>10, <1>20, <2>4, <3>3
  <2> QED
    BY <2>2, <2>3, <2>4
<1> QED
  BY <1>1, <1>11, <1>20, <1>21, <1>22 DEF WalkOK, WalkRecord

-----------------------------------------------------------------------------
(* Tables after a write.                                                   *)
LEMMA WithOK ==
  ASSUME NEW table, NEW ids, NEW rows, TableOK(table, ids, rows), NEW i \in ids, NEW row \in rows
  PROVE  TableOK(With(table, i, row), ids, rows)
<1>1. PICK new : new = With(table, i, row)
  OBVIOUS
<1>2. /\ DOMAIN new = DOMAIN table \cup {i}
      /\ \A x \in DOMAIN new : new[x] = row \/ (x \in DOMAIN table /\ new[x] = table[x])
  BY <1>1 DEF With
<1>3. IsFiniteSet(DOMAIN new)
  BY <1>2, FS_AddElement DEF TableOK
<1>4. TableOK(new, ids, rows)
  BY <1>2, <1>3 DEF TableOK
<1> QED
  BY <1>1, <1>4

LEMMA JoinedOK ==
  ASSUME NEW table, NEW more, NEW ids, NEW rows, TableOK(table, ids, rows),
         TableOK(more, ids, rows)
  PROVE  TableOK(Joined(table, more), ids, rows)
<1>1. PICK new : new = Joined(table, more)
  OBVIOUS
<1>2. /\ DOMAIN new = DOMAIN table \cup DOMAIN more
      /\ \A x \in DOMAIN new : \/ x \in DOMAIN table /\ new[x] = table[x]
                               \/ x \in DOMAIN more /\ new[x] = more[x]
  BY <1>1 DEF Joined
<1>3. IsFiniteSet(DOMAIN new)
  BY <1>2, FS_Union DEF TableOK
<1>4. TableOK(new, ids, rows)
  BY <1>2, <1>3 DEF TableOK
<1> QED
  BY <1>1, <1>4

LEMMA ChangedOK ==
  ASSUME NEW table, NEW ids, NEW rows, TableOK(table, ids, rows), NEW i, NEW row \in rows
  PROVE  TableOK([table EXCEPT ![i] = row], ids, rows)
<1>1. PICK new : new = [table EXCEPT ![i] = row]
  OBVIOUS
<1>2. /\ DOMAIN new = DOMAIN table
      /\ \A x \in DOMAIN table : new[x] = row \/ new[x] = table[x]
  BY <1>1
<1>4. TableOK(new, ids, rows)
  BY <1>2 DEF TableOK
<1> QED
  BY <1>1, <1>4

LEMMA EnsuredOK ==
  ASSUME NEW table, TableOK(table, Template, TemplateRow), NEW rig \in Template,
         NEW row \in TemplateRow
  PROVE  /\ TableOK(EnsureRig(table, rig, row), Template, TemplateRow)
         /\ DOMAIN table \subseteq DOMAIN EnsureRig(table, rig, row)
         /\ rig \in DOMAIN EnsureRig(table, rig, row)
<1>1. CASE rig \in DOMAIN table
  BY <1>1 DEF EnsureRig
<1>2. CASE rig \notin DOMAIN table
  <2>1. EnsureRig(table, rig, row) = With(table, rig, row)
    BY <1>2 DEF EnsureRig
  <2>2. DOMAIN With(table, rig, row) = DOMAIN table \cup {rig}
    BY DEF With
  <2> QED
    BY <2>1, <2>2, WithOK
<1> QED
  BY <1>1, <1>2

-----------------------------------------------------------------------------
(* The inductive invariant: tables and drafts are well formed, views are   *)
(* counted by writes, and a walk is as described.                          *)
CacheOK ==
  /\ Catalog(tables) \in shown /\ shown \subseteq past
  /\ \A t \in past : CatalogOK(t)

(* Every page that a reader with the version may get lists the steady rows.*)
InEveryPage(c, catalogs) ==
  c.query.list = "outfits" => \A t \in catalogs : c.steady \subseteq OutfitRows(t, c.query)

ListInv ==
  /\ TablesOK(tables)
  /\ CacheOK
  /\ now \in Clock
  /\ area \in Areas /\ writes \in 0 .. MaxWrites[area]
  /\ area = "catalog" => \A o \in DOMAIN tables.outfits : tables.outfits[o].views <= writes
  /\ TableOK(drafts, Outfit, LikedOutfit)
  /\ \A o \in DOMAIN drafts : drafts[o].views = 0 /\ o \notin DOMAIN tables.outfits
  /\ named \subseteq DOMAIN tables.templates
  /\ "kind" \in DOMAIN client
  /\ client.kind = "walk" => WalkOK(client, tables) /\ InEveryPage(client, shown)

LEMMA CatalogRows ==
  ASSUME NEW t, NEW q
  PROVE  OutfitRows(Catalog(t), q) = OutfitRows(t, q)
BY DEF Catalog, OutfitRows, Alive

LEMMA CatalogOf ==
  ASSUME NEW t, TablesOK(t)
  PROVE  CatalogOK(Catalog(t))
BY DEF Catalog, CatalogOK, TablesOK

LEMMA BoundsAreNat ==
  /\ \A a \in Areas : MaxWrites[a] \in Nat
  /\ "catalog" \in Areas /\ "transactions" \in Areas /\ "cashback" \in Areas
BY ListConstants DEF Areas

LEMMA EmptyTable == ASSUME NEW ids, NEW rows PROVE TableOK(<<>>, ids, rows)
BY FS_EmptySet DEF TableOK

LEMMA ListInit == Init => ListInv
<1> SUFFICES ASSUME Init PROVE ListInv
  OBVIOUS
<1> DEFINE row == [at |-> 0, public |-> TRUE, rig |-> FirstRig, likes |-> {}, views |-> 0,
                   deleted |-> FALSE]
           rig == [at |-> 0, named |-> FALSE]
           outfits == [o \in Existing |-> row]
           templates == [r \in {FirstRig} |-> rig]
<1>1. /\ tables = [outfits |-> outfits, templates |-> templates, transactions |-> <<>>,
                   entries |-> <<>>, redeems |-> <<>>]
      /\ drafts = <<>> /\ named = {} /\ now = 0 /\ writes = 0 /\ area \in Areas /\ client = Idle
  BY DEF Init
<1>2. 0 \in Clock /\ FirstRig \in Template /\ IsFiniteSet(Existing) /\ Existing \subseteq Outfit
  BY ListConstants DEF Clock
<1>3. row \in LikedOutfit /\ row.views = 0
  <2>1. 0 \in 0 .. MaxWrites["catalog"]
    BY BoundsAreNat
  <2> QED
    BY <1>2, <2>1, FS_EmptySet DEF LikedOutfit, OutfitRow
<1>4. rig \in TemplateRow
  BY <1>2 DEF TemplateRow
<1> HIDE DEF row, rig
<1>5. TableOK(outfits, Outfit, LikedOutfit) /\ \A o \in DOMAIN outfits : outfits[o].views = 0
  BY <1>2, <1>3 DEF TableOK
<1>6. TableOK(templates, Template, TemplateRow)
  BY <1>2, <1>4, FS_Singleton DEF TableOK
<1> HIDE DEF outfits, templates
<1>7. TablesOK(tables)
  BY <1>1, <1>5, <1>6, EmptyTable DEF TablesOK
<1>8. tables.outfits = outfits /\ DOMAIN drafts = {}
  BY <1>1
<1>13. CacheOK
  <2>1. past = {Catalog(tables)} /\ shown = past
    BY DEF Init
  <2> QED
    BY <1>7, <2>1, CatalogOf DEF CacheOK
<1>9. writes \in 0 .. MaxWrites[area]
  BY <1>1, BoundsAreNat
<1>10. "kind" \in DOMAIN client /\ client.kind # "walk"
  BY <1>1 DEF Idle
<1>11. TableOK(drafts, Outfit, LikedOutfit)
  BY <1>1, EmptyTable
<1>12. \A o \in DOMAIN tables.outfits : tables.outfits[o].views <= writes
  BY <1>1, <1>5, <1>8
<1> QED
  BY <1>1, <1>2, <1>7, <1>8, <1>9, <1>10, <1>11, <1>12, <1>13 DEF ListInv

(* A write: rows that moved or went are no longer steady.                  *)
LEMMA WriteKeepsWalk ==
  ASSUME NEW t, NEW c, c.kind = "walk", NEW u, WalkOK(c, t), TablesOK(u),
         NEW catalogs, InEveryPage(c, catalogs)
  PROVE  /\ WalkOK(Seen(c, u), u) /\ "kind" \in DOMAIN Seen(c, u)
         /\ InEveryPage(Seen(c, u), catalogs \cup {Catalog(u)})
<1>1. PICK steady : steady = c.steady \cap Rows(u, c.query)
  OBVIOUS
<1>2. PICK d : d = [c EXCEPT !.steady = steady]
  OBVIOUS
<1>3. Seen(c, u) = d
  BY <1>1, <1>2 DEF Seen
<1>4. c \in WalkRecord
  BY DEF WalkOK
<1>5. /\ d \in WalkRecord /\ "kind" \in DOMAIN d
      /\ d.query = c.query /\ d.cursor = c.cursor /\ d.seen = c.seen /\ d.done = c.done
      /\ d.steady = steady
  BY <1>1, <1>2, <1>4 DEF WalkRecord
<1>6. Placed(d) /\ Sorted(d.seen)
  BY <1>5 DEF WalkOK, Placed
<1>7. \A r \in d.steady : Passed(d, r) => In(d.seen, r)
  BY <1>1, <1>5 DEF WalkOK, Passed
<1>8. ASSUME c.query.list = "outfits", NEW s \in catalogs \cup {Catalog(u)}
      PROVE  steady \subseteq OutfitRows(s, c.query)
  <2>1. Rows(u, c.query) = OutfitRows(Catalog(u), c.query)
    BY <1>8, CatalogRows DEF Rows
  <2>2. CASE s = Catalog(u)
    BY <1>1, <2>1, <2>2
  <2>3. CASE s \in catalogs
    BY <1>1, <1>8, <2>3 DEF InEveryPage
  <2> QED
    BY <1>8, <2>2, <2>3
<1>9. InEveryPage(d, catalogs \cup {Catalog(u)})
  BY <1>5, <1>8 DEF InEveryPage
<1> QED
  BY <1>1, <1>3, <1>5, <1>6, <1>7, <1>9 DEF WalkOK

LEMMA WriteKeepsList ==
  ASSUME ListInv, NEW where \in Areas, NEW t, Write(where, t), TablesOK(t),
         where = "catalog" => \A o \in DOMAIN t.outfits : t.outfits[o].views <= writes + 1,
         TableOK(drafts', Outfit, LikedOutfit),
         \A o \in DOMAIN drafts' : drafts'[o].views = 0 /\ o \notin DOMAIN t.outfits,
         named' \subseteq DOMAIN t.templates
  PROVE  ListInv'
<1>1. /\ area = where /\ area' = where /\ writes < MaxWrites[where] /\ tables' = t
      /\ client' = Seen(client, t) /\ writes' = writes + 1 /\ now' = now
      /\ shown' = shown \cup {Catalog(t)} /\ past' = past \cup {Catalog(t)}
  BY DEF Write
<1>2. writes' \in 0 .. MaxWrites[where]
  <2>1. writes \in 0 .. MaxWrites[where] /\ MaxWrites[where] \in Nat
    BY <1>1, BoundsAreNat DEF ListInv
  <2> QED
    BY <1>1, <2>1
<1>3. /\ "kind" \in DOMAIN client'
      /\ client'.kind = "walk" => WalkOK(client', t) /\ InEveryPage(client', shown')
  <2>1. CASE client.kind = "walk"
    BY <1>1, <2>1, WriteKeepsWalk DEF ListInv
  <2>2. CASE client.kind = "resolve"
    <3>1. PICK a, g : client' = [client EXCEPT !.alive = a, !.gone = g]
      BY <1>1, <2>2 DEF Seen
    <3>2. "kind" \in DOMAIN client' /\ client'.kind = "resolve"
      BY <2>2, <3>1 DEF ListInv
    <3> QED
      BY <3>2
  <2>3. CASE client.kind \notin {"walk", "resolve"}
    <3>1. client' = client
      BY <1>1, <2>3 DEF Seen
    <3> QED
      BY <2>3, <3>1 DEF ListInv
  <2> QED
    BY <2>1, <2>2, <2>3
<1>4. CacheOK'
  <2>1. CatalogOK(Catalog(t)) /\ CacheOK
    BY CatalogOf DEF ListInv
  <2>2. Catalog(t) = Catalog(tables')
    BY <1>1
  <2>3. \A u \in past' : CatalogOK(u)
    BY <1>1, <2>1 DEF CacheOK
  <2>4. Catalog(t) \in shown' /\ shown' \subseteq past'
    BY <1>1, <2>1 DEF CacheOK
  <2> HIDE DEF Write
  <2> QED
    BY <2>2, <2>3, <2>4 DEF CacheOK
<1> QED
  BY <1>1, <1>2, <1>3, <1>4 DEF ListInv

(* One table is written; drafts and names stay.                            *)
LEMMA ChangeKeepsList ==
  ASSUME ListInv, NEW o \in DOMAIN tables.outfits, NEW row \in LikedOutfit,
         row.views <= writes + 1, Change(o, row)
  PROVE  ListInv'
<1> DEFINE new == [tables.outfits EXCEPT ![o] = row]
           t == [tables EXCEPT !.outfits = new]
<1>1. Write("catalog", t) /\ UNCHANGED <<drafts, named>>
  BY DEF Change
<1>2. /\ DOMAIN new = DOMAIN tables.outfits
      /\ \A x \in DOMAIN new : new[x] = row \/ new[x] = tables.outfits[x]
  OBVIOUS
<1>3. TableOK(new, Outfit, LikedOutfit)
  BY ChangedOK DEF ListInv, TablesOK
<1> HIDE DEF new
<1>4. TablesOK(t) /\ t.outfits = new /\ t.templates = tables.templates
  BY <1>3 DEF ListInv, TablesOK
<1> HIDE DEF t
<1>5. area = "catalog"
  BY <1>1 DEF Write
<1>6. ASSUME NEW x \in DOMAIN t.outfits PROVE t.outfits[x].views <= writes + 1
  <2>1. CASE t.outfits[x] = row
    BY <2>1
  <2>2. CASE t.outfits[x] = tables.outfits[x]
    <3>1. tables.outfits[x].views <= writes /\ tables.outfits[x] \in OutfitRow
      BY <1>2, <1>4, <1>5 DEF ListInv, TablesOK, TableOK, LikedOutfit
    <3>2. tables.outfits[x].views \in 0 .. MaxWrites["catalog"]
      BY <3>1 DEF OutfitRow
    <3>3. PICK v : v = tables.outfits[x].views
      OBVIOUS
    <3>4. v \in Int /\ writes \in Int
      BY <3>2, <3>3, BoundsAreNat DEF ListInv
    <3> QED
      BY <2>2, <3>1, <3>3, <3>4
  <2> QED
    BY <1>2, <1>4, <2>1, <2>2
<1>7. \A x \in DOMAIN drafts' : drafts'[x].views = 0 /\ x \notin DOMAIN t.outfits
  BY <1>1, <1>2, <1>4 DEF ListInv
<1>8. TableOK(drafts', Outfit, LikedOutfit) /\ named' \subseteq DOMAIN t.templates
  BY <1>1, <1>4 DEF ListInv
<1> QED
  BY <1>1, <1>4, <1>6, <1>7, <1>8, BoundsAreNat, WriteKeepsList

(* The rigs are written, or nothing of the catalog.                        *)
LEMMA OthersKeepList ==
  ASSUME ListInv, NEW where \in Areas, NEW t, Write(where, t), TablesOK(t),
         t.outfits = tables.outfits,
         TableOK(drafts', Outfit, LikedOutfit),
         \A o \in DOMAIN drafts' : drafts'[o].views = 0 /\ o \notin DOMAIN tables.outfits,
         named' \subseteq DOMAIN t.templates
  PROVE  ListInv'
<1>1. ASSUME where = "catalog", NEW o \in DOMAIN t.outfits
      PROVE  t.outfits[o].views <= writes + 1
  <2>1. area = "catalog"
    BY <1>1 DEF Write
  <2>2. tables.outfits[o].views <= writes /\ tables.outfits[o] \in OutfitRow
    BY <1>1, <2>1 DEF ListInv, TablesOK, TableOK, LikedOutfit
  <2>3. tables.outfits[o].views \in 0 .. MaxWrites["catalog"]
    BY <2>2 DEF OutfitRow
  <2>4. PICK v : v = tables.outfits[o].views
    OBVIOUS
  <2>5. v \in Int /\ writes \in Int
    BY <2>3, <2>4, BoundsAreNat DEF ListInv
  <2> QED
    BY <2>2, <2>4, <2>5
<1>2. \A o \in DOMAIN drafts' : drafts'[o].views = 0 /\ o \notin DOMAIN t.outfits
  OBVIOUS
<1> QED
  BY <1>1, <1>2, WriteKeepsList

LEMMA RigsKeepList ==
  ASSUME ListInv, NEW templates, TableOK(templates, Template, TemplateRow),
         Write("catalog", [tables EXCEPT !.templates = templates]),
         TableOK(drafts', Outfit, LikedOutfit),
         \A o \in DOMAIN drafts' : drafts'[o].views = 0 /\ o \notin DOMAIN tables.outfits,
         named' \subseteq DOMAIN templates
  PROVE  ListInv'
<1> DEFINE t == [tables EXCEPT !.templates = templates]
<1>1. TablesOK(t) /\ t.outfits = tables.outfits /\ t.templates = templates
  BY DEF ListInv, TablesOK
<1>2. Write("catalog", t)
  OBVIOUS
<1> HIDE DEF t
<1> QED
  BY <1>1, <1>2, BoundsAreNat, OthersKeepList

LEMMA CatalogKeepsList == ListInv /\ CatalogWrite => ListInv'
<1> SUFFICES ASSUME ListInv, CatalogWrite PROVE ListInv'
  OBVIOUS
<1>0. /\ TablesOK(tables) /\ TableOK(tables.templates, Template, TemplateRow)
      /\ TableOK(tables.outfits, Outfit, LikedOutfit) /\ TableOK(drafts, Outfit, LikedOutfit)
      /\ \A o \in DOMAIN drafts : drafts[o].views = 0 /\ o \notin DOMAIN tables.outfits
      /\ named \subseteq DOMAIN tables.templates /\ now \in Clock
  BY DEF ListInv, TablesOK
<1>1. ASSUME NEW rig \in Template, NameRig(rig) PROVE ListInv'
  <2>1. PICK row : row = [at |-> now, named |-> FALSE]
    OBVIOUS
  <2>2. row \in TemplateRow
    BY <1>0, <2>1 DEF TemplateRow
  <2>3. PICK new : new = EnsureRig(tables.templates, rig, row)
    OBVIOUS
  <2>4. Write("catalog", [tables EXCEPT !.templates = new]) /\ UNCHANGED <<drafts, named>>
    BY <1>1, <2>1, <2>3 DEF NameRig, UseRig
  <2>5. TableOK(new, Template, TemplateRow) /\ DOMAIN tables.templates \subseteq DOMAIN new
    BY <1>0, <2>2, <2>3, EnsuredOK
  <2> QED
    BY <1>0, <2>4, <2>5, RigsKeepList
<1>2. ASSUME NEW rig \in Template, NEW name \in BOOLEAN, PatchTemplate(rig, name) PROVE ListInv'
  <2>1. /\ rig \in DOMAIN tables.templates
        /\ Write("catalog", [tables EXCEPT !.templates[rig].named = name])
        /\ named' \subseteq named \cup {rig} /\ UNCHANGED drafts
    BY <1>2 DEF PatchTemplate
  <2>2. PICK row : row = [tables.templates[rig] EXCEPT !.named = name]
    OBVIOUS
  <2>3. row \in TemplateRow
    BY <1>0, <2>1, <2>2 DEF TableOK, TemplateRow
  <2>4. PICK new : new = [tables.templates EXCEPT ![rig] = row]
    OBVIOUS
  <2>5. [tables EXCEPT !.templates[rig].named = name] = [tables EXCEPT !.templates = new]
    BY <2>2, <2>4
  <2>6. TableOK(new, Template, TemplateRow) /\ DOMAIN new = DOMAIN tables.templates
    BY <1>0, <2>3, <2>4, ChangedOK
  <2>7. Write("catalog", [tables EXCEPT !.templates = new])
    BY <2>1, <2>5
  <2> QED
    BY <1>0, <2>1, <2>6, <2>7, RigsKeepList
<1>3. ASSUME NEW rig \in Template, NEW name \in BOOLEAN, NEW at \in Clock,
             RegisterTemplate(rig, at, name)
      PROVE  ListInv'
  <2>1. PICK row : row = [at |-> at, named |-> name]
    OBVIOUS
  <2>2. row \in TemplateRow
    BY <2>1 DEF TemplateRow
  <2>3. PICK new : new = EnsureRig(tables.templates, rig, row)
    OBVIOUS
  <2>4. /\ Write("catalog", [tables EXCEPT !.templates = new]) /\ UNCHANGED drafts
        /\ named' \subseteq named \cup {rig}
    BY <1>3, <2>1, <2>3 DEF RegisterTemplate
  <2>5. /\ TableOK(new, Template, TemplateRow) /\ DOMAIN tables.templates \subseteq DOMAIN new
        /\ rig \in DOMAIN new
    BY <1>0, <2>2, <2>3, EnsuredOK
  <2> QED
    BY <1>0, <2>4, <2>5, RigsKeepList
<1>4. ASSUME NEW rig \in Template, NEW o \in Outfit, NEW public \in BOOLEAN,
             BuildOutfit(o, rig, public)
      PROVE  ListInv'
  <2>1. PICK row : row = [at |-> now, named |-> FALSE]
    OBVIOUS
  <2>2. row \in TemplateRow
    BY <1>0, <2>1 DEF TemplateRow
  <2>3. PICK new : new = EnsureRig(tables.templates, rig, row)
    OBVIOUS
  <2>4. PICK draft : draft = [at |-> now, public |-> public, rig |-> rig, likes |-> {},
                              views |-> 0, deleted |-> FALSE]
    OBVIOUS
  <2>5. draft \in LikedOutfit /\ draft.views = 0
    <3>1. 0 \in 0 .. MaxWrites["catalog"]
      BY BoundsAreNat
    <3> QED
      BY <1>0, <2>4, <3>1, FS_EmptySet DEF LikedOutfit, OutfitRow
  <2>6. /\ Write("catalog", [tables EXCEPT !.templates = new]) /\ UNCHANGED named
        /\ drafts' = With(drafts, o, draft) /\ o \notin DOMAIN tables.outfits
    BY <1>4, <2>1, <2>3, <2>4 DEF BuildOutfit, UseRig
  <2>7. TableOK(drafts', Outfit, LikedOutfit)
    BY <1>0, <2>5, <2>6, WithOK
  <2>8. \A x \in DOMAIN drafts' : drafts'[x].views = 0 /\ x \notin DOMAIN tables.outfits
    BY <1>0, <2>5, <2>6 DEF With
  <2>9. TableOK(new, Template, TemplateRow) /\ DOMAIN tables.templates \subseteq DOMAIN new
    BY <1>0, <2>2, <2>3, EnsuredOK
  <2> QED
    BY <1>0, <2>6, <2>7, <2>8, <2>9, RigsKeepList
<1>5. ASSUME WriteBatch PROVE ListInv'
  <2>1. PICK new : new = Joined(tables.outfits, drafts)
    OBVIOUS
  <2>2. PICK t : t = [tables EXCEPT !.outfits = new]
    OBVIOUS
  <2>3. Write("catalog", t) /\ drafts' = <<>> /\ named' = named
    BY <1>5, <2>1, <2>2 DEF WriteBatch
  <2>4. TableOK(new, Outfit, LikedOutfit)
    BY <1>0, <2>1, JoinedOK
  <2>5. TablesOK(t) /\ t.outfits = new /\ t.templates = tables.templates
    BY <1>0, <2>2, <2>4 DEF TablesOK
  <2>6. area = "catalog"
    BY <2>3 DEF Write
  <2>7. ASSUME NEW x \in DOMAIN t.outfits PROVE t.outfits[x].views <= writes + 1
    <3>1. writes \in Nat
      BY BoundsAreNat DEF ListInv
    <3>2. \/ x \in DOMAIN tables.outfits /\ new[x] = tables.outfits[x]
          \/ x \in DOMAIN drafts /\ new[x] = drafts[x]
      BY <2>1, <2>5, <2>7 DEF Joined
    <3>3. PICK v : v = new[x].views
      OBVIOUS
    <3>4. v <= writes \/ v = 0
      BY <1>0, <2>6, <3>2, <3>3 DEF ListInv
    <3>5. new[x] \in OutfitRow
      BY <2>4, <2>5, <2>7 DEF TableOK, LikedOutfit
    <3>6. v \in 0 .. MaxWrites["catalog"]
      BY <3>3, <3>5 DEF OutfitRow
    <3>7. v \in Int
      BY <3>6, BoundsAreNat
    <3>8. v <= writes + 1
      BY <3>1, <3>4, <3>7
    <3> QED
      BY <2>5, <3>3, <3>8
  <2>8. DOMAIN drafts' = {} /\ TableOK(drafts', Outfit, LikedOutfit)
    BY <2>3, EmptyTable
  <2>9. named' \subseteq DOMAIN t.templates
    BY <1>0, <2>3, <2>5
  <2> QED
    BY <2>3, <2>5, <2>7, <2>8, <2>9, BoundsAreNat, WriteKeepsList
<1>6. ASSUME LoseBatch PROVE ListInv'
  <2>1. DOMAIN drafts' = {} /\ TableOK(drafts', Outfit, LikedOutfit)
    BY <1>6, EmptyTable DEF LoseBatch
  <2> QED
    BY <1>6, <2>1 DEF LoseBatch, ListInv, CacheOK, CatalogOK
<1>7. ASSUME NEW o \in DOMAIN tables.outfits,
             NEW row, Change(o, row), row \in LikedOutfit, row.views = tables.outfits[o].views
      PROVE  ListInv'
  <2>1. area = "catalog"
    BY <1>7 DEF Change, Write
  <2>2. PICK v : v = row.views
    OBVIOUS
  <2>3. v <= writes /\ v \in 0 .. MaxWrites["catalog"]
    BY <1>7, <2>1, <2>2 DEF ListInv, LikedOutfit, OutfitRow
  <2>4. writes \in Nat /\ v \in Int
    BY <2>3, BoundsAreNat DEF ListInv
  <2>5. v <= writes + 1
    BY <2>3, <2>4
  <2> QED
    BY <1>7, <2>2, <2>5, ChangeKeepsList
<1>8. ASSUME NEW o \in DOMAIN tables.outfits
      PROVE  /\ tables.outfits[o] \in OutfitRow /\ IsFiniteSet(tables.outfits[o].likes)
             /\ tables.outfits[o] \in LikedOutfit
  BY <1>0 DEF TableOK, LikedOutfit
<1>9. ASSUME NEW o \in DOMAIN tables.outfits, NEW at \in Clock, NEW public \in BOOLEAN,
              NEW rig \in Template, Update(o, at, public, rig)
       PROVE  ListInv'
  <2>1. PICK row : row = [tables.outfits[o] EXCEPT !.at = at, !.public = public, !.rig = rig]
    OBVIOUS
  <2>2. /\ row \in OutfitRow /\ row.likes = tables.outfits[o].likes
        /\ row.views = tables.outfits[o].views
    BY <1>8, <2>1 DEF OutfitRow
  <2>3. row \in LikedOutfit
    BY <1>8, <2>2 DEF LikedOutfit
  <2>4. Change(o, row)
    BY <1>9, <2>1 DEF Update
  <2> QED
    BY <1>7, <2>2, <2>3, <2>4
<1>10. ASSUME NEW o \in DOMAIN tables.outfits, NEW at \in Clock, SoftDelete(o, at)
       PROVE  ListInv'
  <2>1. PICK row : row = [tables.outfits[o] EXCEPT !.at = at, !.deleted = TRUE]
    OBVIOUS
  <2>2. /\ row \in OutfitRow /\ row.likes = tables.outfits[o].likes
        /\ row.views = tables.outfits[o].views
    BY <1>8, <2>1 DEF OutfitRow
  <2>3. row \in LikedOutfit
    BY <1>8, <2>2 DEF LikedOutfit
  <2>4. Change(o, row)
    BY <1>10, <2>1 DEF SoftDelete
  <2> QED
    BY <1>7, <2>2, <2>3, <2>4
<1>11. ASSUME NEW o \in DOMAIN tables.outfits, NEW u \in Player, Like(o, u) \/ Unlike(o, u)
       PROVE  ListInv'
  <2>1. PICK likes \in {tables.outfits[o].likes \cup {u}, tables.outfits[o].likes \ {u}} :
          Change(o, [tables.outfits[o] EXCEPT !.likes = likes])
    BY <1>11 DEF Like, Unlike
  <2>2. PICK row : row = [tables.outfits[o] EXCEPT !.likes = likes]
    OBVIOUS
  <2>3. likes \subseteq Player /\ IsFiniteSet(likes)
    <3>1. tables.outfits[o].likes \subseteq Player
      BY <1>8 DEF OutfitRow
    <3>2. PICK before : before = tables.outfits[o].likes
      OBVIOUS
    <3>3. IsFiniteSet(before) /\ before \subseteq Player
      BY <1>8, <3>1, <3>2
    <3>4. IsFiniteSet(before \cup {u}) /\ IsFiniteSet(before \ {u})
      BY <3>3, FS_AddElement, FS_RemoveElement
    <3>5. likes \in {before \cup {u}, before \ {u}}
      BY <2>1, <3>2
    <3> QED
      BY <3>3, <3>4, <3>5
  <2>4. row \in OutfitRow /\ row.likes = likes /\ row.views = tables.outfits[o].views
    BY <1>8, <2>2, <2>3 DEF OutfitRow
  <2>5. row \in LikedOutfit
    BY <2>3, <2>4 DEF LikedOutfit
  <2>6. Change(o, row)
    BY <2>1, <2>2
  <2> QED
    BY <1>7, <2>4, <2>5, <2>6
<1>12. ASSUME NEW o \in DOMAIN tables.outfits, RecordView(o) PROVE ListInv'
  <2>1. PICK v : v = tables.outfits[o].views
    OBVIOUS
  <2>2. PICK row : row = [tables.outfits[o] EXCEPT !.views = v + 1]
    OBVIOUS
  <2>3. Change(o, row)
    BY <1>12, <2>1, <2>2 DEF RecordView
  <2>4. PICK m \in Nat : m = MaxWrites["catalog"]
    BY BoundsAreNat
  <2>5. area = "catalog" /\ writes < m
    BY <2>3, <2>4 DEF Change, Write
  <2>6. v <= writes /\ writes \in 0 .. m /\ v \in 0 .. m
    BY <1>8, <2>1, <2>4, <2>5 DEF ListInv, OutfitRow
  <2>7. v + 1 \in 0 .. m /\ v + 1 <= writes + 1
    BY <2>5, <2>6
  <2>8. row \in OutfitRow /\ row.likes = tables.outfits[o].likes /\ row.views = v + 1
    <3>1. v + 1 \in 0 .. MaxWrites["catalog"]
      BY <2>4, <2>7
    <3> QED
      BY <1>8, <2>2, <3>1 DEF OutfitRow
  <2>9. row \in LikedOutfit
    BY <1>8, <2>8 DEF LikedOutfit
  <2> QED
    BY <2>3, <2>7, <2>8, <2>9, ChangeKeepsList
<1> QED
  BY <1>1, <1>2, <1>3, <1>4, <1>5, <1>6, <1>9, <1>10, <1>11, <1>12 DEF CatalogWrite

LEMMA LedgersKeepList == ListInv /\ (LedgerWrite \/ RedeemWrite) => ListInv'
<1> SUFFICES ASSUME ListInv, LedgerWrite \/ RedeemWrite PROVE ListInv'
  OBVIOUS
<1>0. /\ TablesOK(tables) /\ TableOK(drafts, Outfit, LikedOutfit)
      /\ TableOK(tables.transactions, Transaction, LedgerRow)
      /\ TableOK(tables.entries, Entry, LedgerRow)
      /\ TableOK(tables.redeems, Redeem, RedeemRow)
      /\ \A o \in DOMAIN drafts : drafts[o].views = 0 /\ o \notin DOMAIN tables.outfits
      /\ named \subseteq DOMAIN tables.templates
  BY DEF ListInv, TablesOK
<1>1. ASSUME NEW where \in Areas, NEW t, Write(where, t), TablesOK(t), UNCHANGED <<drafts, named>>,
             t.outfits = tables.outfits, t.templates = tables.templates
      PROVE  ListInv'
  <2>1. TableOK(drafts', Outfit, LikedOutfit) /\ named' \subseteq DOMAIN t.templates
    BY <1>0, <1>1
  <2>2. \A o \in DOMAIN drafts' : drafts'[o].views = 0 /\ o \notin DOMAIN tables.outfits
    BY <1>0, <1>1
  <2> QED
    BY <1>1, <2>1, <2>2, OthersKeepList
<1>2. ASSUME NEW at \in Clock, NEW u \in Player
      PROVE  /\ [at |-> at, user |-> u] \in LedgerRow
             /\ [at |-> at, user |-> u, pending |-> TRUE] \in RedeemRow
  BY DEF LedgerRow, RedeemRow
<1>3. ASSUME NEW x \in Transaction, NEW u \in Player, NEW at \in Clock, RecordTransaction(x, u, at)
      PROVE  ListInv'
  <2>1. PICK new : new = With(tables.transactions, x, [at |-> at, user |-> u])
    OBVIOUS
  <2>2. PICK t : t = [tables EXCEPT !.transactions = new]
    OBVIOUS
  <2>3. Write("transactions", t) /\ UNCHANGED <<drafts, named>>
    BY <1>3, <2>1, <2>2 DEF RecordTransaction
  <2>4. TableOK(new, Transaction, LedgerRow)
    BY <1>0, <1>2, <2>1, WithOK
  <2>5. TablesOK(t) /\ t.outfits = tables.outfits /\ t.templates = tables.templates
    BY <1>0, <2>2, <2>4 DEF TablesOK
  <2> QED
    BY <1>1, <2>3, <2>5, BoundsAreNat
<1>4. ASSUME NEW e \in Entry, NEW u \in Player, NEW at \in Clock, CreateEntry(e, u, at)
      PROVE  ListInv'
  <2>1. PICK new : new = With(tables.entries, e, [at |-> at, user |-> u])
    OBVIOUS
  <2>2. PICK t : t = [tables EXCEPT !.entries = new]
    OBVIOUS
  <2>3. Write("cashback", t) /\ UNCHANGED <<drafts, named>>
    BY <1>4, <2>1, <2>2 DEF CreateEntry
  <2>4. TableOK(new, Entry, LedgerRow)
    BY <1>0, <1>2, <2>1, WithOK
  <2>5. TablesOK(t) /\ t.outfits = tables.outfits /\ t.templates = tables.templates
    BY <1>0, <2>2, <2>4 DEF TablesOK
  <2> QED
    BY <1>1, <2>3, <2>5, BoundsAreNat
<1>5. ASSUME NEW r \in Redeem, NEW e \in Entry, NEW u \in Player, NEW at \in Clock,
             CreateRedeem(r, e, u, at)
      PROVE  ListInv'
  <2>1. PICK entries : entries = With(tables.entries, e, [at |-> at, user |-> u])
    OBVIOUS
  <2>2. PICK redeems :
          redeems = With(tables.redeems, r, [at |-> at, user |-> u, pending |-> TRUE])
    OBVIOUS
  <2>3. PICK t : t = [tables EXCEPT !.redeems = redeems, !.entries = entries]
    OBVIOUS
  <2>4. Write("cashback", t) /\ UNCHANGED <<drafts, named>>
    BY <1>5, <2>1, <2>2, <2>3 DEF CreateRedeem
  <2>5. TableOK(entries, Entry, LedgerRow) /\ TableOK(redeems, Redeem, RedeemRow)
    BY <1>0, <1>2, <2>1, <2>2, WithOK
  <2>6. TablesOK(t) /\ t.outfits = tables.outfits /\ t.templates = tables.templates
    BY <1>0, <2>3, <2>5 DEF TablesOK
  <2> QED
    BY <1>1, <2>4, <2>6, BoundsAreNat
<1>6. ASSUME NEW r \in Redeem, NEW back, NEW at \in Clock, back \subseteq Entry, IsFiniteSet(back),
             ResolveRedeem(r, back, at)
      PROVE  ListInv'
  <2>1. r \in DOMAIN tables.redeems /\ tables.redeems[r] \in RedeemRow
    BY <1>0, <1>6 DEF ResolveRedeem, TableOK
  <2>2. PICK u \in Player : u = tables.redeems[r].user
    BY <2>1 DEF RedeemRow
  <2>3. PICK given : given = [e \in back |-> [at |-> at, user |-> u]]
    OBVIOUS
  <2>4. PICK entries : entries = Joined(tables.entries, given)
    OBVIOUS
  <2>5. PICK row : row = [tables.redeems[r] EXCEPT !.pending = FALSE]
    OBVIOUS
  <2>6. PICK redeems : redeems = [tables.redeems EXCEPT ![r] = row]
    OBVIOUS
  <2>7. PICK t : t = [tables EXCEPT !.redeems = redeems, !.entries = entries]
    OBVIOUS
  <2>8. Write("cashback", t) /\ UNCHANGED <<drafts, named>>
    <3>1. t = [tables EXCEPT !.redeems[r].pending = FALSE, !.entries = entries]
      BY <2>5, <2>6, <2>7
    <3>2. [e \in back |-> [at |-> at, user |-> tables.redeems[r].user]] = given
      BY <2>2, <2>3
    <3> QED
      BY <1>6, <2>4, <3>1, <3>2 DEF ResolveRedeem
  <2>9. TableOK(entries, Entry, LedgerRow)
    <3>1. TableOK(given, Entry, LedgerRow)
      BY <1>2, <1>6, <2>3 DEF TableOK
    <3> QED
      BY <1>0, <2>4, <3>1, JoinedOK
  <2>10. TableOK(redeems, Redeem, RedeemRow)
    <3>1. row \in RedeemRow
      BY <2>1, <2>5 DEF RedeemRow
    <3> QED
      BY <1>0, <2>6, <3>1, ChangedOK
  <2>11. TablesOK(t) /\ t.outfits = tables.outfits /\ t.templates = tables.templates
    BY <1>0, <2>7, <2>9, <2>10 DEF TablesOK
  <2> QED
    BY <1>1, <2>8, <2>11, BoundsAreNat
<1>7. \A e \in Entry : {e} \subseteq Entry /\ IsFiniteSet({e})
  BY FS_Singleton
<1>8. {} \subseteq Entry /\ IsFiniteSet({})
  BY FS_EmptySet
<1> QED
  BY <1>3, <1>4, <1>5, <1>6, <1>7, <1>8 DEF LedgerWrite, RedeemWrite

-----------------------------------------------------------------------------
(* The client's steps.                                                     *)
LEMMA SameTables ==
  ASSUME ListInv, UNCHANGED <<area, now, tables, shown, past, drafts, named, writes>>,
         "kind" \in DOMAIN client',
         client'.kind = "walk" => WalkOK(client', tables) /\ InEveryPage(client', shown)
  PROVE  ListInv'
BY DEF ListInv, CacheOK, CatalogOK

LEMMA FirstPageOK ==
  ASSUME ListInv, NEW q \in Queries, NEW limit \in 1 .. MaxPageSize, Ask(FirstPage(q, limit))
  PROVE  ListInv'
<1>1. PICK c : c = FirstPage(q, limit)
  OBVIOUS
<1>2. PICK rows : rows = Listed(q)
  OBVIOUS
<1>3. /\ rows \subseteq ListRow /\ rows \subseteq Rows(tables, q)
      /\ q.list = "outfits" => \A t \in shown : rows \subseteq OutfitRows(t, q)
  <2>1. rows \subseteq Rows(tables, q)
    BY <1>2 DEF Listed
  <2>2. Rows(tables, q) \subseteq ListRow
    BY RowsOK DEF ListInv
  <2>3. q.list = "outfits" => \A t \in shown : rows \subseteq OutfitRows(t, q)
    BY <1>2 DEF Listed
  <2> QED
    BY <2>1, <2>2, <2>3
<1>4. c = [kind |-> "walk", query |-> q, limit |-> limit, cursor |-> {}, seen |-> <<>>,
           done |-> FALSE, steady |-> rows]
  BY <1>1, <1>2 DEF FirstPage
<1>5. <<>> \in Seq(ListRow) /\ Len(<<>>) = 0
  BY EmptySeq
<1>6. c \in WalkRecord /\ "kind" \in DOMAIN c
  BY <1>3, <1>4, <1>5 DEF WalkRecord
<1>7. WalkOK(c, tables)
  BY <1>3, <1>4, <1>5, <1>6 DEF WalkOK, Placed, Sorted, Passed
<1>8. InEveryPage(c, shown)
  BY <1>3, <1>4 DEF InEveryPage
<1> QED
  BY <1>1, <1>6, <1>7, <1>8, SameTables DEF Ask

(* A walk with fewer steady rows.                                          *)
LEMMA FewerSteady ==
  ASSUME NEW t, NEW c, WalkOK(c, t), NEW T, NEW catalogs, InEveryPage(c, catalogs),
         NEW d, d = [c EXCEPT !.steady = @ \cap T]
  PROVE  /\ WalkOK(d, t) /\ InEveryPage(d, catalogs) /\ d.steady \subseteq T
         /\ d.query = c.query /\ d.cursor = c.cursor /\ d.limit = c.limit /\ d.done = c.done
<1>1. c \in WalkRecord
  BY DEF WalkOK
<1>2. /\ d \in WalkRecord
      /\ d.query = c.query /\ d.cursor = c.cursor /\ d.limit = c.limit /\ d.done = c.done
      /\ d.seen = c.seen /\ d.steady = c.steady \cap T
  BY <1>1 DEF WalkRecord
<1>3. Placed(d) /\ Sorted(d.seen)
  BY <1>2 DEF WalkOK, Placed
<1>4. \A r \in d.steady : Passed(d, r) => In(d.seen, r)
  BY <1>2 DEF WalkOK, Passed
<1>5. InEveryPage(d, catalogs)
  BY <1>2 DEF InEveryPage
<1> QED
  BY <1>2, <1>3, <1>4, <1>5 DEF WalkOK

(* A page of rows that the steady ones are among.                          *)
LEMMA TurnOK ==
  ASSUME ListInv, NEW c, WalkOK(c, tables), InEveryPage(c, shown), ~c.done,
         NEW R, IsFiniteSet(R), R \subseteq ListRow, c.steady \subseteq R,
         NEW F, F = {r \in R : \A k \in c.cursor : After(k, r)},
         NEW page, IsPage(page, F, c.limit),
         NEW d, d = Turned(c, page, c.query.sort), client' = d,
         UNCHANGED <<area, now, tables, shown, past, drafts, named, writes>>
  PROVE  ListInv'
<1>1. WalkOK(d, tables) /\ d.kind = "walk" /\ d.query = c.query /\ d.steady = c.steady
  <2>1. PICK t : t = tables
    OBVIOUS
  <2>2. WalkOK(c, t)
    BY <2>1
  <2>3. WalkOK(d, t) /\ d.kind = "walk" /\ d.query = c.query /\ d.steady = c.steady
    BY <2>2, PageKeepsWalk
  <2> QED
    BY <2>1, <2>3
<1>2. "kind" \in DOMAIN d
  BY <1>1 DEF WalkOK, WalkRecord
<1>3. InEveryPage(d, shown)
  BY <1>1 DEF InEveryPage
<1> QED
  BY <1>1, <1>2, <1>3, SameTables

(* Both stores serve pages of the rows that follow the cursor.             *)
LEMMA StoresServePages ==
  ASSUME client \in WalkRecord, NEW rows, IsFiniteSet(rows), rows \subseteq ListRow
  PROVE  IsPage(Serve(SqlPage(rows, client.cursor, client.limit),
                      MemPage(Following(rows), client.limit)),
                {r \in rows : \A k \in client.cursor : After(k, r)}, client.limit)
<1>1. PICK F : F = {r \in rows : \A k \in client.cursor : After(k, r)}
  OBVIOUS
<1>2. PICK limit : limit = client.limit
  OBVIOUS
<1>3. limit \in Nat \ {0}
  BY <1>2, LimitsArePositive DEF WalkRecord
<1>4. IsFiniteSet(rows) /\ rows \subseteq Row
  BY ListRowsAreRows
<1>5. PICK cursor : cursor = client.cursor
  OBVIOUS
<1>6. \A c \in cursor : c.key \in Int /\ c.id \in Int
  BY <1>5 DEF WalkRecord
<1>7. IsPage(SqlPage(rows, cursor, limit), F, limit)
  BY <1>1, <1>3, <1>4, <1>5, <1>6, SqlPageIsPage
<1>8. IsPage(MemPage(F, limit), F, limit)
  <2>1. F \subseteq rows
    BY <1>1
  <2>2. IsFiniteSet(F) /\ F \subseteq Row
    BY <1>4, <2>1, FS_Subset
  <2> QED
    BY <1>3, <2>2, MemPageIsPage
<1>9. Following(rows) = F
  BY <1>1 DEF Following
<1>10. IsPage(Serve(SqlPage(rows, cursor, limit), MemPage(Following(rows), limit)), F, limit)
  BY <1>7, <1>8, <1>9 DEF Serve
<1> QED
  BY <1>1, <1>2, <1>5, <1>10

LEMMA ReadsKeepList == ListInv /\ Read => ListInv'
<1> SUFFICES ASSUME ListInv, Read PROVE ListInv'
  OBVIOUS
<1>1. ASSUME client.kind = "walk"
      PROVE  /\ client.query \in Queries /\ client.limit \in 1 .. MaxPageSize
             /\ WalkOK(client, tables) /\ InEveryPage(client, shown) /\ client \in WalkRecord
  BY <1>1 DEF ListInv, WalkOK, WalkRecord
<1> DEFINE page(R) == Serve(SqlPage(R, client.cursor, client.limit),
                            MemPage(Following(R), client.limit))
           rows == Rows(tables, client.query)
           served == page(rows)
<1>2. ASSUME client.kind = "walk", ~client.done, Turn(served, client.query.sort) PROVE ListInv'
  <2>1. client.query \in Queries /\ TablesOK(tables)
    BY <1>1, <1>2 DEF ListInv
  <2>2. IsFiniteSet(rows) /\ rows \subseteq ListRow
    BY <2>1, RowsOK
  <2>3. client.steady \subseteq rows
    BY <1>1, <1>2 DEF WalkOK
  <2>4. PICK R : R = rows
    OBVIOUS
  <2> HIDE DEF rows
  <2>5. IsFiniteSet(R) /\ R \subseteq ListRow /\ client.steady \subseteq R
    BY <2>2, <2>3, <2>4
  <2>6. PICK F : F = {r \in R : \A k \in client.cursor : After(k, r)}
    OBVIOUS
  <2>7. IsPage(page(R), F, client.limit)
    BY <1>1, <1>2, <2>5, <2>6, StoresServePages
  <2>8. PICK d : d = Turned(client, page(R), client.query.sort)
    OBVIOUS
  <2>9. client' = d /\ UNCHANGED <<area, now, tables, shown, past, drafts, named, writes>>
    BY <1>2, <2>4, <2>8 DEF Turn, Ask
  <2> HIDE DEF page
  <2> QED
    BY <1>1, <1>2, <2>5, <2>6, <2>7, <2>8, <2>9, TurnOK
<1>3. ASSUME client.kind = "walk", client.query.list # "outfits" PROVE client.query.sort = "recent"
  BY <1>1, <1>3 DEF Queries
<1>4. ASSUME NEW sort \in Sorts, ListOutfits(sort) PROVE ListInv'
  <2>1. /\ client.kind = "walk" /\ client.query.list = "outfits" /\ ~client.done
        /\ client.cursor = {} => sort = client.query.sort
        /\ \A c \in client.cursor : c.sort = sort
    BY <1>4 DEF ListOutfits, Walking, Accepts
  <2>2. sort = client.query.sort
    BY <1>1, <2>1 DEF WalkOK, Placed, CursorAt
  <2>3. PICK q : q = [client.query EXCEPT !.sort = sort]
    OBVIOUS
  <2>4. q = client.query
    BY <1>1, <2>1, <2>2, <2>3 DEF Queries
  <2>5. ASSUME NEW t
        PROVE  Serve(SqlOutfits(t, q), MemOutfits(t, q)) = page(OutfitRows(t, q))
    <3>1. PICK R : R = OutfitRows(t, q)
      OBVIOUS
    <3>2. {r \in R : AfterCursor(client.cursor, q.sort, r)} = Following(R)
      BY DEF AfterCursor, Following, After, CountAfter
    <3>3. SqlOutfits(t, q) = SqlPage(R, client.cursor, client.limit)
      BY <3>1, Zenon DEF SqlOutfits
    <3>4. MemOutfits(t, q) = MemPage(Following(R), client.limit)
      BY <3>1, <3>2, Zenon DEF MemOutfits
    <3> QED
      BY <3>1, <3>3, <3>4
  <2>6. PICK t, c :
          /\ t \in past
          /\ \/ t \in shown /\ c = client
             \/ c = [client EXCEPT !.steady = @ \cap OutfitRows(t, q)]
          /\ Ask(Turned(c, page(OutfitRows(t, q)), sort))
    <3>1. shown \subseteq past
      BY DEF ListInv, CacheOK
    <3>2. \/ \E t \in shown : Turn(Serve(SqlOutfits(t, q), MemOutfits(t, q)), sort)
          \/ \E t \in past : Ask(Turned([client EXCEPT !.steady = @ \cap OutfitRows(t, q)],
                                        Serve(SqlOutfits(t, q), MemOutfits(t, q)), sort))
      BY <1>4, <2>3 DEF ListOutfits
    <3> QED
      BY <2>5, <3>1, <3>2 DEF Turn
  <2>7. PICK R : R = OutfitRows(t, q)
    OBVIOUS
  <2>8. IsFiniteSet(R) /\ R \subseteq ListRow
    <3>1. CatalogOK(t)
      BY <2>6 DEF ListInv, CacheOK
    <3> QED
      BY <2>7, <3>1, OutfitRowsOK
  <2>9. /\ WalkOK(c, tables) /\ InEveryPage(c, shown) /\ c.steady \subseteq R
        /\ c.query = client.query /\ c.cursor = client.cursor /\ c.limit = client.limit
        /\ c.done = client.done
    <3>1. CASE t \in shown /\ c = client
      BY <1>1, <2>1, <2>4, <2>7, <3>1 DEF InEveryPage
    <3>2. CASE c = [client EXCEPT !.steady = @ \cap OutfitRows(t, q)]
      BY <1>1, <2>1, <2>7, <3>2, FewerSteady
    <3> QED
      BY <2>6, <3>1, <3>2
  <2>10. PICK F : F = {r \in R : \A k \in c.cursor : After(k, r)}
    OBVIOUS
  <2>11. IsPage(page(R), F, c.limit)
    BY <1>1, <2>1, <2>8, <2>9, <2>10, StoresServePages
  <2>12. PICK d : d = Turned(c, page(R), c.query.sort)
    OBVIOUS
  <2>13. /\ ~c.done /\ client' = d
         /\ UNCHANGED <<area, now, tables, shown, past, drafts, named, writes>>
    BY <2>1, <2>2, <2>6, <2>7, <2>9, <2>12 DEF Ask
  <2> HIDE DEF page
  <2> QED
    BY <2>8, <2>9, <2>10, <2>11, <2>12, <2>13, TurnOK
<1>5. ASSUME NEW sort \in Sorts, RefuseCursor(sort) PROVE ListInv'
  <2>1. PICK q : q = [client.query EXCEPT !.sort = sort]
    OBVIOUS
  <2>2. /\ client.kind = "walk" /\ client.query.list = "outfits"
        /\ Ask(FirstPage(q, client.limit))
    BY <1>5, <2>1 DEF RefuseCursor, Walking
  <2>3. q \in Queries
    BY <1>1, <2>1, <2>2 DEF Queries, Sorts
  <2> QED
    BY <1>1, <2>2, <2>3, FirstPageOK
<1>6. ASSUME NEW l \in {"templates", "transactions", "entries", "redeems", "balances"},
             Walking(l), Turn(served, "recent")
      PROVE  ListInv'
  <2>1. client.kind = "walk" /\ ~client.done /\ client.query.sort = "recent"
    BY <1>3, <1>6 DEF Walking
  <2> HIDE DEF served
  <2> QED
    BY <1>2, <1>6, <2>1
<1>7. ASSUME ListTemplates PROVE ListInv'
  <2>1. rows = TemplateRows(tables)
    BY <1>7 DEF ListTemplates, Walking, Rows
  <2>2. Walking("templates") /\ Turn(served, "recent")
    BY <1>7, <2>1 DEF ListTemplates, SqlTemplates, MemTemplates
  <2> QED
    BY <1>6, <2>2
<1>8. ASSUME ListTransactions PROVE ListInv'
  <2>1. rows = TransactionRows(tables, client.query)
    BY <1>8 DEF ListTransactions, Walking, Rows
  <2>2. Walking("transactions") /\ Turn(served, "recent")
    BY <1>8, <2>1 DEF ListTransactions, SqlTransactions, MemTransactions
  <2> QED
    BY <1>6, <2>2
<1>9. ASSUME ListEntries PROVE ListInv'
  <2>1. rows = EntryRows(tables, client.query)
    BY <1>9 DEF ListEntries, Walking, Rows
  <2>2. Walking("entries") /\ Turn(served, "recent")
    BY <1>9, <2>1 DEF ListEntries, SqlEntries, MemEntries
  <2> QED
    BY <1>6, <2>2
<1>10. ASSUME ListRedeems PROVE ListInv'
  <2>1. rows = RedeemRows(tables, client.query)
    BY <1>10 DEF ListRedeems, Walking, Rows
  <2>2. Walking("redeems") /\ Turn(served, "recent")
    BY <1>10, <2>1 DEF ListRedeems, SqlRedeems, MemRedeems
  <2> QED
    BY <1>6, <2>2
<1>11. ASSUME ListBalances PROVE ListInv'
  <2>1. rows = BalanceRows(tables)
    BY <1>11 DEF ListBalances, Walking, Rows
  <2>2. Walking("balances") /\ Turn(served, "recent")
    BY <1>11, <2>1 DEF ListBalances, SqlBalances, MemBalances
  <2> QED
    BY <1>6, <2>2
<1>12. ASSUME NEW q \in Queries, NEW asked \in Asked, StartWalk(q, asked) PROVE ListInv'
  <2>1. PICK limit : limit = ClampLimit(asked, DefaultPageSize, MaxPageSize)
    OBVIOUS
  <2>2. limit \in 1 .. MaxPageSize
    BY <2>1, LimitsAreClamped
  <2>3. Ask(FirstPage(q, limit))
    BY <1>12, <2>1 DEF StartWalk
  <2> QED
    BY <2>2, <2>3, FirstPageOK
<1>13. ASSUME \/ \E refs \in References, asked \in Asked : StartResolve(refs, asked)
              \/ Resolve \/ Leave
       PROVE  ListInv'
  <2>1. /\ "kind" \in DOMAIN client' /\ client'.kind # "walk"
        /\ UNCHANGED <<area, now, tables, shown, past, drafts, named, writes>>
    <3>1. ASSUME NEW refs, NEW asked, StartResolve(refs, asked) PROVE <2>1!:
      BY <3>1 DEF StartResolve, Ask
    <3>2. ASSUME Resolve PROVE <2>1!:
      BY <3>2 DEF Resolve, Resolving, Ask, ListInv
    <3>3. ASSUME Leave PROVE <2>1!:
      BY <3>3 DEF Leave, Ask, Idle
    <3> QED
      BY <1>13, <3>1, <3>2, <3>3
  <2> QED
    BY <2>1, SameTables
<1> HIDE DEF page, rows, served
<1> QED
  BY <1>4, <1>5, <1>7, <1>8, <1>9, <1>10, <1>11, <1>12, <1>13 DEF Read, Sorts

LEMMA ListStep == ListInv /\ [Next]_vars => ListInv'
<1> SUFFICES ASSUME ListInv, [Next]_vars PROVE ListInv'
  OBVIOUS
<1>1. CASE CatalogWrite
  BY <1>1, CatalogKeepsList
<1>2. CASE LedgerWrite \/ RedeemWrite
  BY <1>2, LedgersKeepList
<1>3. CASE Read
  BY <1>3, ReadsKeepList
<1>4. CASE Tick
  <2>1. now' \in Clock
    BY <1>4, ListConstants DEF Tick, ListInv, Clock
  <2> QED
    BY <1>4, <2>1 DEF Tick, ListInv, CacheOK, CatalogOK
<1>5. CASE Invalidate
  <2>1. shown' = {Catalog(tables)} /\ UNCHANGED <<store, area, now, tables, past, drafts, named,
                                                client, writes>>
    BY <1>5 DEF Invalidate
  <2>2. shown' \subseteq shown /\ Catalog(tables) \in shown' /\ Catalog(tables') = Catalog(tables)
    BY <2>1 DEF ListInv, CacheOK
  <2>3. CacheOK'
    BY <2>1, <2>2 DEF ListInv, CacheOK, CatalogOK
  <2>4. client.kind = "walk" => InEveryPage(client, shown')
    BY <2>2 DEF ListInv, InEveryPage
  <2> QED
    BY <2>1, <2>3, <2>4 DEF ListInv
<1>6. CASE UNCHANGED vars
  BY <1>6 DEF vars, ListInv, CacheOK, CatalogOK
<1> QED
  BY <1>1, <1>2, <1>3, <1>4, <1>5, <1>6 DEF Next

(* The invariant of the lists.                                             *)
THEOREM ListInvariant == Spec => []ListInv
BY ListInit, ListStep, PTL DEF Spec

(* The pages of a walk add up to the list, for any tables, ids, page sizes *)
(* and writes in between, on pages read from the store or out of the cache:*)
(* rows come in order, none is served twice while it stays, and none that  *)
(* stayed, for outfits since the last invalidation before, is missed.      *)
THEOREM PagesAreWhole == Spec => []PagesAddUp
<1>1. ListInv => PagesAddUp
  <2> SUFFICES ASSUME ListInv, client.kind = "walk" PROVE PagesAddUp
    BY DEF PagesAddUp
  <2>1. WalkOK(client, tables)
    BY DEF ListInv
  <2>2. \A i, j \in 1 .. Len(client.seen) : i < j => Before(client.seen[i], client.seen[j])
    BY <2>1 DEF WalkOK, Sorted
  <2>3. \A r \in client.steady :
          (client.done \/ \E c \in client.cursor : ~After(c, r))
            => \E i \in 1 .. Len(client.seen) : client.seen[i] = r
    BY <2>1 DEF WalkOK, Passed, In
  <2> QED
    BY <2>2, <2>3 DEF PagesAddUp
<1> QED
  BY <1>1, ListInvariant, PTL

(* The tables hold well-formed rows of known ids and a walk asks for pages *)
(* of at most MaxPageSize rows.                                            *)
THEOREM TypeCorrect == Spec => []TypeOK
<1>1. ListInv /\ ResolveInv => TypeOK
  <2> SUFFICES ASSUME ListInv, ResolveInv PROVE TypeOK
    OBVIOUS
  <2>1. /\ \A o \in DOMAIN tables.outfits : tables.outfits[o] \in OutfitRow
        /\ \A o \in DOMAIN drafts : drafts[o] \in OutfitRow
        /\ \A r \in DOMAIN tables.templates : tables.templates[r] \in TemplateRow
        /\ \A x \in DOMAIN tables.transactions : tables.transactions[x] \in LedgerRow
        /\ \A e \in DOMAIN tables.entries : tables.entries[e] \in LedgerRow
        /\ \A r \in DOMAIN tables.redeems : tables.redeems[r] \in RedeemRow
    BY DEF ListInv, TablesOK, TableOK, LikedOutfit
  <2>2. ASSUME client.kind = "walk" PROVE WalkTypeOK(client)
    <3>1. WalkOK(client, tables) /\ client \in WalkRecord
      BY <2>2 DEF ListInv, WalkOK
    <3>2. /\ client.query \in Queries /\ client.limit \in 1 .. MaxPageSize
          /\ \A k \in client.cursor : k \in [sort : Sorts, id : Nat \ {0}, key : Nat]
          /\ client.seen \in Seq(ListRow)
      BY <3>1 DEF WalkRecord
    <3>3. \A i \in 1 .. Len(client.seen) : client.seen[i] \in Row
      BY <3>2, ElementOfSeq, ListRowsAreRows
    <3>4. client.steady \subseteq Rows(tables, client.query)
      BY <3>1 DEF WalkOK
    <3>5. client.done => client.cursor = {}
      BY <3>1 DEF WalkOK, Placed
    <3> QED
      BY <3>2, <3>3, <3>4, <3>5 DEF WalkTypeOK
  <2>3. ASSUME client.kind = "resolve" PROVE ResolveTypeOK(client)
    BY <2>3 DEF ResolveInv, ResolveRecord, Counted, ResolveTypeOK
  <2>4. DOMAIN drafts \cap DOMAIN tables.outfits = {}
    BY DEF ListInv
  <2>5. /\ Catalog(tables) \in shown /\ shown \subseteq past
        /\ \A t \in past : \A o \in DOMAIN t.outfits : t.outfits[o] \in OutfitRow
    BY DEF ListInv, CacheOK, CatalogOK, TableOK, LikedOutfit
  <2> QED
    BY <2>1, <2>2, <2>3, <2>4, <2>5 DEF ListInv, TypeOK
<1>2. ResolveInv /\ [Next]_vars => ResolveInv'
  BY ResolveStep
<1>3. Init => ResolveInv
  BY ResolveInit
<1> QED
  BY <1>1, <1>2, <1>3, ListInvariant, PTL DEF Spec

=============================================================================
