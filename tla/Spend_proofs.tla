---------------------------- MODULE Spend_proofs -----------------------------
(***************************************************************************)
(* That the ledger of Commercial covers what the supplier may charge, for  *)
(* any grid, batch size, costs, estimate and number of workers.            *)
(*                                                                         *)
(* A reservation counts in full until it is settled or released, so each   *)
(* book says when it can be: released only while nothing was bought, and   *)
(* settled below its estimate only when what was bought is known.  The     *)
(* turns carry what a worker read about the purchase to the commit that    *)
(* settles it.                                                             *)
(***************************************************************************)
EXTENDS Commercial_proofs

Bought == {p \in Points : sold[p] > 0}
GridEntry == ledger["grid"]
ListingEntry == ledger["listing"]

\* A grid settles at its estimate, or at its results when no point is open; a
\* point failed without the supplier's word may be charged, at the estimate.
GridLedger ==
  /\ GridEntry.reserved \in {0, Estimate}
  /\ request # "none" /\ wanted = "grid" => GridEntry.reserved = Estimate
  /\ \/ GridEntry.settled \subseteq {Estimate}
     \/ /\ ~GridEntry.released /\ With("queued") = {} /\ With("pending") = {}
        /\ GridEntry.settled = {Cardinality(With("done"))}
  /\ GridEntry.released => /\ Bought \subseteq void
                           /\ With("queued") = Points \/ With("failed") = Points
  /\ \A p \in Bought \ void : point[p] = "failed" => GridEntry.settled = {Estimate}

\* A run nobody is submitting has all of its points queued or none, and totals
\* are written from points that have not changed since if they are final.
GridPoints ==
  /\ request = "saved" /\ wanted = "grid" => grid # "none"
  /\ grid = "none" \/ (grid # "submitting" /\ With("queued") # {}) => With("queued") = Points
  /\ \A p \in Points : view[p] \in {"done", "failed"} => point[p] = view[p]

GridTurnAt(s) ==
  /\ s \in {"fenced", "first"} => ~started
  /\ s \in {"next", "calling", "landed"} => started
  /\ s = "first" => With("queued") = Points
  /\ s = "ambiguous" /\ ~started => With("queued") = Points /\ Bought = {}
  /\ s = "denying" => /\ Bought \cap With("queued") = {}
                      /\ ~started => With("queued") = Points
  /\ s = "closing" => Bought \cap With("queued") = {} \/ GridEntry.settled = {Estimate}

GridTurns == wanted = "grid" => \A w \in Workers : GridTurnAt(at[w])

GridSpend == GridLedger /\ GridPoints /\ GridTurns

\* A listing check is released only before its search and settles at its cost.
ListingLedger ==
  /\ ListingEntry.reserved \in {0, 1}
  /\ request # "none" /\ wanted = "listing" => ListingEntry.reserved = 1
  /\ ListingEntry.released => charged = <<>>
  /\ \E c \in Nat \ {0} : ListingEntry.settled \subseteq {c}
  /\ listing = "completed" => charged # <<>> /\ ListingEntry.settled = {charged[1]}

ListingTurnAt(s) ==
  /\ s = "landed" => charged # <<>> /\ reported = charged[1]
  /\ s = "naming" => charged # <<>> /\ ListingEntry.settled = {charged[1]}

ListingSpend ==
  /\ ListingLedger
  /\ wanted = "listing" => \A w \in Workers : ListingTurnAt(at[w])

Unended == {"opened", "held", "cleared", "private", "unfenced", "managed", "recording", "settling"}

\* A brief's entry is ended once, by the thread that has its key: at the price of
\* the prompt's answer, at the estimate, or by its release when it has no price.
KeySpend(k) ==
  /\ ledger[k].reserved \in {0, BriefEstimate}
  /\ ledger[k].settled # {} =>
       /\ ~ledger[k].released
       /\ ledger[k].settled = {IF bills[k].priced > 0 THEN bills[k].priced ELSE BriefEstimate}
  /\ bills[k].priced > 0 => ~ledger[k].released
  /\ bills[k].sold > 0 \/ bills[k].priced > 0 => ledger[k].reserved = BriefEstimate
  /\ brief[k] = "none" => ~Terminal(k)
  /\ brief[k] = "validated" =>
       IF bills[k].priced > 0 THEN ledger[k].settled # {} ELSE ledger[k].settled = {} /\ ledger[k].released

\* The answer a request has heard is what the row of bills says.
TurnSpend(w) ==
  /\ at[w] \in Unended => ~Terminal(Key(w))
  /\ at[w] \in Unended \ {"opened"} => ledger[Key(w)].reserved = BriefEstimate
  /\ at[w] \in Unended \ {"recording", "settling"} => bills[Key(w)].priced = 0
  /\ at[w] \in {"recording", "settling"} => (turn[w].answer = "priced" <=> bills[Key(w)].priced > 0)
  /\ at[w] = "ending" =>
       /\ turn[w].answer = "priced" => bills[Key(w)].priced > 0 /\ ledger[Key(w)].settled # {}
       /\ turn[w].answer = "private" => /\ bills[Key(w)].priced = 0
                                        /\ ledger[Key(w)].settled = {} /\ ledger[Key(w)].released

BriefSpend == (\A k \in BriefKeys : KeySpend(k)) /\ (\A w \in Workers : TurnSpend(w))

SpendBook == GridSpend /\ ListingSpend /\ BriefSpend

-------------------------------------------------------------------------------
\* What the ledger counts, in the cases the books tell apart.
LEMMA Exposures ==
  ASSUME NEW k \in Kinds, ledger \in Ledgers
  PROVE  /\ ledger[k].settled = {} /\ ~ledger[k].released => Exposure(k) = ledger[k].reserved
         /\ ledger[k].settled = {} /\ ledger[k].released => Exposure(k) = 0
         /\ \A c \in Nat : ledger[k].settled = {c} /\ ~ledger[k].released => Exposure(k) = c
         /\ \A c \in Nat : ledger[k].settled = {c} /\ ledger[k].released =>
              Exposure(k) = c - ledger[k].reserved
<1>. PICK e \in [reserved : Nat, settled : SUBSET Nat, released : BOOLEAN] : e = ledger[k]
  BY DEF Ledgers
<1>1. e.reserved \in Nat /\ e.released \in BOOLEAN
  OBVIOUS
<1>2. CASE e.settled = {}
  BY <1>1, <1>2 DEF Exposure
<1>3. ASSUME NEW c \in Nat, e.settled = {c} PROVE (CHOOSE d \in e.settled : TRUE) = c
  BY <1>3
<1>4. ASSUME NEW c \in Nat, e.settled = {c}
      PROVE  Exposure(k) = e.reserved + (c - e.reserved) - (IF e.released THEN e.reserved ELSE 0)
  BY <1>3, <1>4 DEF Exposure
<1>5. \A c \in Nat : e.settled = {c} => e.settled # {}
  OBVIOUS
<1>. QED  BY <1>1, <1>2, <1>4, <1>5

LEMMA GridSizes ==
  ASSUME NEW S, S \subseteq Points
  PROVE  /\ IsFiniteSet(S) /\ Cardinality(S) \in Nat /\ Cardinality(S) <= Estimate
         /\ Cardinality(S) = Estimate => S = Points
         /\ \A T : T \subseteq S => Cardinality(T) <= Cardinality(S)
BY GridAssumption, FS_Subset, FS_CardinalityType DEF Estimate

LEMMA SpendInitially == Init => SpendBook
<1>. SUFFICES ASSUME Init PROVE SpendBook
  OBVIOUS
<1>. USE DEF Init, SpendInit, GridInit, ListingInit, BriefInit, NoEntries
<1>0. /\ "grid" \in Kinds /\ "listing" \in Kinds /\ \A k \in BriefKeys : k \in Kinds
      /\ \A k \in Kinds : ledger[k] = NoEntries
  BY Names
<1>1. With("queued") = Points /\ Bought = {}
  BY DEF With, Bought
<1>2. GridSpend
  BY <1>0, <1>1 DEF GridSpend, GridLedger, GridEntry, GridPoints, Unread, GridTurns, GridTurnAt
<1>3. ListingSpend
  BY <1>0 DEF ListingSpend, ListingLedger, ListingEntry, ListingTurnAt
<1>4. BriefSpend
  BY <1>0 DEF BriefSpend, KeySpend, TurnSpend, Terminal, Unended, NoBills
<1>. QED  BY <1>2, <1>3, <1>4 DEF SpendBook

-------------------------------------------------------------------------------
\* Steps that are not of a book.
LEMMA GridAside ==
  ASSUME IInv, GridSpend, UNCHANGED <<grid, point, view, sold, void, wanted>>,
         ledger'["grid"] = ledger["grid"], wanted = "grid" => request' \in {request, "none"},
         wanted = "grid" => \A v \in Workers :
           \/ at'[v] = at[v] /\ (at[v] \in Dispatching => started' = started)
           \/ at'[v] \notin Dispatching
           \/ at'[v] = "fenced" /\ ~started'
  PROVE  GridSpend'
<1>1. GridEntry' = GridEntry /\ Bought' = Bought /\ \A s : With(s)' = With(s)
  BY DEF GridEntry, Bought, With
<1>2. GridLedger'
  BY <1>1 DEF GridSpend, GridLedger, With
<1>3. GridPoints'
  BY <1>1 DEF GridSpend, GridPoints, With
<1>4. ASSUME NEW v \in Workers, wanted = "grid" PROVE GridTurnAt(at[v])'
  <2>1. CASE at'[v] = at[v] /\ (at[v] \in Dispatching => started' = started)
    BY <1>1, <1>4, <2>1 DEF GridSpend, GridTurns, GridTurnAt, Dispatching, With
  <2>2. CASE at'[v] \notin Dispatching \/ (at'[v] = "fenced" /\ ~started')
    BY <2>2 DEF GridTurnAt, Dispatching
  <2>. QED  BY <1>4, <2>1, <2>2
<1>. QED  BY <1>2, <1>3, <1>4 DEF GridSpend, GridTurns

LEMMA ListingAside ==
  ASSUME ListingSpend, UNCHANGED <<listing, reported, charged, wanted>>,
         ledger'["listing"] = ledger["listing"], wanted = "listing" => request' \in {request, "none"},
         wanted = "listing" => \A v \in Workers :
           at'[v] = at[v] \/ at'[v] \notin {"landed", "naming"}
  PROVE  ListingSpend'
BY DEF ListingSpend, ListingLedger, ListingEntry, ListingTurnAt

LEMMA BriefAside ==
  ASSUME IInv, BriefSpend, UNCHANGED <<brief, bills>>, \A k \in BriefKeys : ledger'[k] = ledger[k],
         \A v \in Workers : (at'[v] = at[v] /\ turn'[v] = turn[v]) \/ at'[v] \notin Serving
  PROVE  BriefSpend'
<1>1. \A v \in Workers : Key(v) \in BriefKeys
  BY DEF IInv, TypeOK, BriefTypes, Key
<1>2. ASSUME NEW k \in BriefKeys PROVE KeySpend(k)'
  BY DEF BriefSpend, KeySpend, Terminal
<1>3. ASSUME NEW v \in Workers PROVE TurnSpend(v)'
  BY <1>1 DEF BriefSpend, TurnSpend, Terminal, Key, Unended, Serving
<1>. QED  BY <1>2, <1>3 DEF BriefSpend

-------------------------------------------------------------------------------
\* The dispatch of a grid, its worker being alone in it.
LEMMA GridMoves ==
  ASSUME NEW w \in Workers, GridTurn(w), at[w] \in Dispatching, NEW s \in After, DispatchStep(w, s),
         GridLedger', GridPoints', GridTurnAt(s)'
  PROVE  GridSpend'
<1>1. at'[w] = s /\ \A v \in Workers : v # w => at'[v] \notin Dispatching
  BY Alone DEF GridTurn
<1>2. ASSUME NEW v \in Workers PROVE GridTurnAt(at[v])'
  BY <1>1 DEF GridTurnAt, Dispatching
<1>. QED  BY <1>2 DEF GridSpend, GridTurns

LEMMA GridRest ==
  ASSUME GridSpend, UNCHANGED <<point, sold, void, wanted, request>>, ledger'["grid"] = ledger["grid"]
  PROVE  /\ GridLedger' /\ GridEntry' = GridEntry /\ Bought' = Bought
         /\ With("queued")' = With("queued") /\ With("pending")' = With("pending")
BY DEF GridSpend, GridLedger, GridEntry, Bought, With

LEMMA GridEntryTyped ==
  ASSUME IInv
  PROVE  /\ ledger \in Ledgers /\ GridEntry.reserved \in Nat
         /\ GridEntry.released \in BOOLEAN /\ GridEntry.settled \subseteq Nat
         /\ Terminal("grid") <=> GridEntry.settled # {} \/ GridEntry.released
<1>1. ledger \in Ledgers
  BY DEF IInv, TypeOK, SpendTypes, Ledgers
<1>. QED  BY <1>1, Names DEF Ledgers, GridEntry, Terminal

\* A run with nothing queued before the first batch sold nothing.
LEMMA AllQueued ==
  ASSUME IInv, With("queued") = Points, \A p \in With("queued") : sold[p] = 0
  PROVE  Bought = {} /\ \A s : s # "queued" => With(s) = {}
BY DEF Bought, With

LEMMA EnterGridSpends ==
  ASSUME NEW w \in Workers, GridTurn(w), GridSpend, EnterGrid(w)
  PROVE  GridSpend'
<1>. USE DEF GridTurn
<1>1. /\ at[w] = "fenced" /\ at[w] \in Dispatching /\ UNCHANGED <<ledger, point, view, sold, void, request, wanted>>
      /\ ~started
  BY DEF EnterGrid, Dispatching, Spends, DrainRest, GridSpend, GridTurns, GridTurnAt
<1>2. GridLedger' /\ With("queued")' = With("queued")
  BY <1>1, GridRest
<1>3. CASE grid = "submitting" /\ Goes(w, "ambiguous") /\ UNCHANGED <<fence, grid, left>> /\ started' = TRUE
  <2>1. DispatchStep(w, "ambiguous") /\ "ambiguous" \in After
    BY <1>3 DEF EnterGrid, Goes, DispatchStep, After, Dispatching
  <2>2. GridPoints' /\ GridTurnAt("ambiguous")'
    BY <1>1, <1>2, <1>3 DEF GridSpend, GridPoints, GridTurnAt, With
  <2>. QED  BY <1>1, <1>2, <2>1, <2>2, GridMoves
<1>4. CASE grid # "submitting" /\ With("queued") = {} /\ Leave(w, "done") /\ UNCHANGED <<grid, left>>
  <2>1. DispatchStep(w, "done") /\ "done" \in After
    BY <1>4 DEF EnterGrid, Leave, DispatchStep, After, Dispatching
  <2>2. GridPoints' /\ GridTurnAt("done")'
    BY <1>1, <1>2, <1>4 DEF GridSpend, GridPoints, GridTurnAt, With
  <2>. QED  BY <1>1, <1>2, <2>1, <2>2, GridMoves
<1>5. CASE /\ grid # "submitting" /\ With("queued") # {}
           /\ grid' = "submitting" /\ left' = With("queued")
           /\ Goes(w, "first") /\ UNCHANGED <<fence, started>>
  <2>1. DispatchStep(w, "first") /\ "first" \in After
    BY <1>5 DEF EnterGrid, Goes, DispatchStep, After, Dispatching, IInv, TypeOK, SpendTypes
  <2>2. With("queued") = Points
    BY <1>5 DEF GridSpend, GridPoints
  <2>3. GridPoints' /\ GridTurnAt("first")'
    BY <1>1, <1>2, <1>5, <2>2 DEF GridSpend, GridPoints, GridTurnAt, With
  <2>. QED  BY <1>1, <1>2, <2>1, <2>3, GridMoves
<1>. QED  BY <1>3, <1>4, <1>5 DEF EnterGrid

\* Steps that change neither points nor tasks.
LEMMA GridQuiet ==
  ASSUME NEW w \in Workers, GridTurn(w), GridSpend, at[w] \in Dispatching, NEW s \in After, DispatchStep(w, s),
         UNCHANGED gridVars, GridLedger', GridTurnAt(s)'
  PROVE  GridSpend'
<1>1. GridPoints'
  BY DEF gridVars, GridSpend, GridPoints, With, DispatchStep, DrainRest, Spends
<1>. QED  BY <1>1, GridMoves

LEMMA GridLostSpends ==
  ASSUME NEW w \in Workers, GridTurn(w), GridSpend, GridJobLost(w)
  PROVE  GridSpend'
<1>. USE DEF GridTurn
<1>1. /\ at[w] \in {"first", "next"} /\ at[w] \in Dispatching /\ UNCHANGED <<ledger, gridVars, request, wanted>>
      /\ started \in BOOLEAN
  BY DEF GridJobLost, Dispatching, Spends, DrainRest, IInv, TypeOK, SpendTypes
<1>2. GridLedger'
  BY <1>1, GridRest DEF gridVars
<1>3. CASE at[w] = "first"
  <2>1. DispatchStep(w, "raised") /\ "raised" \in After
    BY <1>3 DEF GridJobLost, Leave, DispatchStep, After
  <2>. QED  BY <1>1, <1>2, <2>1, GridQuiet DEF GridTurnAt
<1>4. CASE at[w] = "next"
  <2>1. DispatchStep(w, "ambiguous") /\ "ambiguous" \in After /\ started' = started
    BY <1>1, <1>4 DEF GridJobLost, Goes, DispatchStep, After, Dispatching
  <2>2. started
    BY <1>4 DEF GridSpend, GridTurns, GridTurnAt
  <2>. QED  BY <1>1, <1>2, <2>1, <2>2, GridQuiet DEF GridTurnAt
<1>. QED  BY <1>1, <1>3, <1>4

LEMMA GridDeniedSpends ==
  ASSUME NEW w \in Workers, GridTurn(w), GridSpend, GridDenied(w)
  PROVE  GridSpend'
<1>. USE DEF GridTurn
<1>1. /\ at[w] \in {"first", "next"} /\ at[w] \in Dispatching /\ UNCHANGED <<gridVars, request, wanted, started>>
      /\ DispatchStep(w, "denying") /\ "denying" \in After
  BY DEF GridDenied, Goes, DispatchStep, After, Dispatching, Spends, DrainRest, IInv, TypeOK, SpendTypes
<1>2. \A p \in With("queued") : sold[p] = 0
  BY <1>1 DEF IInv, GridBook, Buying
<1>3. ~started => at[w] = "first" /\ With("queued") = Points
  BY <1>1 DEF GridSpend, GridTurns, GridTurnAt
<1>4. Bought' = Bought /\ \A s : With(s)' = With(s)
  BY <1>1 DEF gridVars, Bought, With
<1>5. GridTurnAt("denying")'
  BY <1>1, <1>2, <1>3, <1>4 DEF GridTurnAt, Bought, gridVars
<1>6. GridLedger'
  <2>1. CASE started \/ GridEntry.settled # {}
    <3>1. ledger' = ledger
      BY <2>1 DEF GridDenied, Released, GridEntry
    <3>. QED  BY <1>1, <3>1, GridRest DEF gridVars
  <2>2. CASE ~started /\ GridEntry.settled = {}
    <3>1. ledger' = [ledger EXCEPT !["grid"].released = TRUE]
      BY <2>2 DEF GridDenied, Released, GridEntry
    <3>2. /\ GridEntry'.released /\ GridEntry'.settled = {} /\ GridEntry'.reserved = GridEntry.reserved
      BY <2>2, <3>1, GridEntryTyped, Names DEF GridEntry, Ledgers
    <3>3. With("queued") = Points /\ Bought = {}
      BY <1>2, <1>3, <2>2, AllQueued
    <3>. QED  BY <1>1, <1>4, <2>2, <3>2, <3>3 DEF GridSpend, GridLedger, gridVars
  <2>. QED  BY <2>1, <2>2
<1>. QED  BY <1>1, <1>5, <1>6, GridQuiet

LEMMA GridUnavailableSpends ==
  ASSUME NEW w \in Workers, GridTurn(w), GridSpend, GridUnavailable(w)
  PROVE  GridSpend'
<1>. USE DEF GridTurn
<1>1. /\ at[w] = "first" /\ at[w] \in Dispatching /\ UNCHANGED <<ledger, gridVars, request, wanted, started>>
      /\ DispatchStep(w, "ambiguous") /\ "ambiguous" \in After
  BY DEF GridUnavailable, Goes, DispatchStep, After, Dispatching, Spends, DrainRest, IInv, TypeOK, SpendTypes
<1>2. GridLedger' /\ Bought' = Bought /\ With("queued")' = With("queued")
  BY <1>1, GridRest DEF gridVars
<1>3. With("queued") = Points /\ \A p \in With("queued") : sold[p] = 0
  BY <1>1 DEF GridSpend, GridTurns, GridTurnAt, IInv, GridBook, Buying
<1>4. GridTurnAt("ambiguous")'
  BY <1>2, <1>3, AllQueued DEF GridTurnAt
<1>. QED  BY <1>1, <1>2, <1>4, GridQuiet

LEMMA GridCallsSpends ==
  ASSUME NEW w \in Workers, GridTurn(w), GridSpend, GridCalls(w)
  PROVE  GridSpend'
<1>. USE DEF GridTurn
<1>1. /\ at[w] \in Dispatching /\ UNCHANGED <<ledger, gridVars, request, wanted>> /\ started' = TRUE
      /\ DispatchStep(w, "calling") /\ "calling" \in After
  BY DEF GridCalls, Goes, DispatchStep, After, Dispatching, Spends, DrainRest
<1>2. GridLedger' /\ GridTurnAt("calling")'
  BY <1>1, GridRest DEF gridVars, GridTurnAt
<1>. QED  BY <1>1, <1>2, GridQuiet

\* The estimate is settled once a call may have been made; only a run whose points
\* are all still queued and unsold is released.
LEMMA SettleAmbiguousSpends ==
  ASSUME NEW w \in Workers, GridTurn(w), GridSpend, SettleAmbiguous(w)
  PROVE  GridSpend'
<1>. USE DEF GridTurn
<1>1. /\ at[w] = "ambiguous" /\ at[w] \in Dispatching /\ UNCHANGED <<gridVars, request, wanted, started>>
      /\ DispatchStep(w, "closing") /\ "closing" \in After
  BY DEF SettleAmbiguous, Goes, DispatchStep, After, Dispatching, Spends, DrainRest, IInv, TypeOK, SpendTypes
<1>2. Bought' = Bought /\ \A s : With(s)' = With(s)
  BY <1>1 DEF gridVars, Bought, With
<1>3. CASE GridEntry.settled # {}
  <2>1. ledger' = ledger
    BY <1>3 DEF SettleAmbiguous, Released, Settled, GridEntry
  <2>2. GridLedger' /\ GridEntry' = GridEntry
    BY <1>1, <2>1, GridRest DEF gridVars
  <2>3. Bought \cap With("queued") = {} \/ GridEntry.settled = {Estimate}
    BY <1>3 DEF GridSpend, GridLedger
  <2>. QED  BY <1>1, <1>2, <2>2, <2>3, GridQuiet DEF GridTurnAt
<1>4. CASE GridEntry.settled = {} /\ started
  <2>1. ledger' = [ledger EXCEPT !["grid"].settled = {Estimate}]
    BY <1>4 DEF SettleAmbiguous, Settled, GridEntry
  <2>2. /\ GridEntry'.settled = {Estimate} /\ GridEntry'.reserved = GridEntry.reserved
        /\ GridEntry'.released = GridEntry.released
    BY <2>1, GridEntryTyped, Names DEF GridEntry, Ledgers
  <2>3. GridLedger'
    BY <1>1, <1>2, <2>2 DEF GridSpend, GridLedger, gridVars
  <2>. QED  BY <1>1, <2>2, <2>3, GridQuiet DEF GridTurnAt
<1>5. CASE GridEntry.settled = {} /\ ~started
  <2>1. ledger' = [ledger EXCEPT !["grid"].released = TRUE]
    BY <1>5 DEF SettleAmbiguous, Released, GridEntry
  <2>2. /\ GridEntry'.settled = {} /\ GridEntry'.reserved = GridEntry.reserved /\ GridEntry'.released
    BY <1>5, <2>1, GridEntryTyped, Names DEF GridEntry, Ledgers
  <2>3. With("queued") = Points /\ Bought = {}
    BY <1>1, <1>5 DEF GridSpend, GridTurns, GridTurnAt
  <2>4. GridLedger' /\ GridTurnAt("closing")'
    BY <1>1, <1>2, <1>5, <2>2, <2>3 DEF GridSpend, GridLedger, gridVars, GridTurnAt
  <2>. QED  BY <1>1, <2>4, GridQuiet
<1>. QED  BY <1>3, <1>4, <1>5

LEMMA GridSubmitsSpends ==
  ASSUME NEW w \in Workers, GridTurn(w), GridSpend, GridSubmits(w)
  PROVE  GridSpend'
<1>. USE DEF GridTurn
<1>1. /\ at[w] = "calling" /\ at[w] \in Dispatching
      /\ UNCHANGED <<ledger, grid, point, view, void, request, wanted, started>>
      /\ {"landed", "ambiguous"} \subseteq After
  BY DEF GridSubmits, After, Dispatching, Spends, DrainRest
<1>2. PICK s \in {"landed", "ambiguous"} : DispatchStep(w, s)
  BY DEF GridSubmits, Goes, DispatchStep, IInv, TypeOK, SpendTypes
<1>3. ~GridEntry.released /\ GridEntry.settled = {} /\ left = With("queued") /\ started
  BY <1>1, GridEntryTyped DEF IInv, Covered, GridBook, Buying, GridSpend, GridTurns, GridTurnAt
<1>4. PICK taken \in SUBSET Batch : sold' = [p \in Points |-> IF p \in taken THEN sold[p] + 1 ELSE sold[p]]
  BY DEF GridSubmits
<1>5. \A p \in Bought' : p \in Bought \/ point[p] = "queued"
  BY <1>3, <1>4 DEF Bought, Batch, With
<1>6. GridEntry' = GridEntry /\ With("queued")' = With("queued") /\ With("pending")' = With("pending")
      /\ With("done")' = With("done")
  BY <1>1 DEF GridEntry, With
<1>7. GridLedger'
  BY <1>1, <1>3, <1>5, <1>6 DEF GridSpend, GridLedger
<1>8. GridPoints' /\ GridTurnAt(s)'
  BY <1>1, <1>3, <1>6 DEF GridSpend, GridPoints, GridTurnAt
<1>. QED  BY <1>1, <1>2, <1>7, <1>8, GridMoves

LEMMA GridSavesSpends ==
  ASSUME NEW w \in Workers, GridTurn(w), GridSpend, GridSaves(w)
  PROVE  GridSpend'
<1>. USE DEF GridTurn
<1>1. /\ at[w] = "landed" /\ at[w] \in Dispatching
      /\ UNCHANGED <<ledger, grid, view, sold, void, request, wanted, started>>
      /\ {"totalling", "next"} \subseteq After
  BY DEF GridSaves, After, Dispatching, Spends, DrainRest
<1>2. PICK s \in {"totalling", "next"} : DispatchStep(w, s)
  BY DEF GridSaves, Goes, DispatchStep, IInv, TypeOK, SpendTypes
<1>3. /\ ~GridEntry.released /\ GridEntry.settled = {} /\ left = With("queued") /\ grid = "submitting" /\ started
  BY <1>1, GridEntryTyped DEF IInv, Covered, GridBook, Buying, GridSpend, GridTurns, GridTurnAt
<1>4. \A p \in Points : point'[p] = IF p \notin Batch THEN point[p]
                                    ELSE IF sold[p] > 0 THEN "pending" ELSE "failed"
  BY DEF GridSaves
<1>5. \A p \in Batch : point[p] = "queued"
  BY <1>3 DEF Batch, With
<1>6. GridEntry' = GridEntry /\ Bought' = Bought
  BY <1>1 DEF GridEntry, Bought
<1>7. \A p \in Bought \ void : point'[p] = "failed" => point[p] = "failed"
  BY <1>4 DEF Bought
<1>8. GridLedger'
  BY <1>1, <1>3, <1>6, <1>7 DEF GridSpend, GridLedger
<1>9. GridPoints' /\ GridTurnAt(s)'
  BY <1>1, <1>3, <1>4, <1>5 DEF GridSpend, GridPoints, GridTurnAt
<1>. QED  BY <1>1, <1>2, <1>8, <1>9, GridMoves

\* Totals settle or release only what is final in the points they are from.
LEMMA GridTotals ==
  ASSUME IInv, GridSpend, NEW pts \in [Points -> Statuses], ledger' = SettledTotals(pts),
         point' \in [Points -> Statuses], sold' = sold, void \subseteq void', UNCHANGED <<request, wanted>>,
         (\A p \in Points : pts[p] \notin {"queued", "pending"}) => \A p \in Points : point'[p] = pts[p],
         \A p \in Points : point[p] \in {"done", "failed"} => point'[p] = point[p],
         GridEntry.released => With("queued")' = Points \/ With("failed")' = Points,
         \A p \in Bought \ void' : point'[p] = "failed" => GridEntry.settled = {Estimate}
  PROVE  GridLedger'
<1>0. Bought' = Bought /\ point \in [Points -> Statuses]
  BY DEF Bought, IInv, TypeOK, GridTypes, Statuses
<1>1. ASSUME ledger' = ledger PROVE GridLedger'
  <2>1. GridEntry' = GridEntry
    BY <1>1 DEF GridEntry
  <2>2. CASE GridEntry.settled \subseteq {Estimate}
    BY <1>0, <2>1, <2>2 DEF GridSpend, GridLedger
  <2>3. CASE ~(GridEntry.settled \subseteq {Estimate})
    <3>1. With("queued") = {} /\ With("pending") = {}
      BY <2>3 DEF GridSpend, GridLedger
    <3>2. ASSUME NEW p \in Points PROVE point'[p] = point[p]
      BY <1>0, <3>1 DEF With, Statuses
    <3>3. \A s : With(s)' = With(s)
      BY <3>2 DEF With
    <3>. QED  BY <1>0, <2>1, <3>3 DEF GridSpend, GridLedger
  <2>. QED  BY <2>2, <2>3
<1>2. CASE \E p \in Points : pts[p] \in {"queued", "pending"}
  BY <1>1, <1>2, Totalled, GridEntryTyped
<1>3. CASE \A p \in Points : pts[p] \notin {"queued", "pending"}
  <2>1. ledger' = IF Count(pts, "failed") = Estimate THEN Released("grid")
                  ELSE Settled("grid", Count(pts, "done"))
    <3>1. Count(pts, "queued") = 0 /\ Count(pts, "pending") = 0
      BY <1>3, Counted
    <3>. QED  BY <3>1 DEF SettledTotals
  <2>2. /\ With("failed")' = {p \in Points : pts[p] = "failed"}
        /\ With("done")' = {p \in Points : pts[p] = "done"}
        /\ With("queued")' = {} /\ With("pending")' = {}
    BY <1>3 DEF With
  <2>3. CASE GridEntry.settled # {}
    BY <1>1, <2>1, <2>3 DEF Released, Settled, GridEntry
  <2>4. CASE GridEntry.settled = {} /\ Count(pts, "failed") = Estimate
    <3>1. ledger' = [ledger EXCEPT !["grid"].released = TRUE]
      BY <2>1, <2>4 DEF Released, GridEntry
    <3>2. GridEntry'.settled = {} /\ GridEntry'.reserved = GridEntry.reserved
      BY <2>4, <3>1, GridEntryTyped, Names DEF GridEntry, Ledgers
    <3>3. With("failed")' = Points
      BY <2>2, <2>4, GridSizes DEF Count
    <3>4. Bought \subseteq void'
      BY <2>4, <3>3 DEF Bought, With
    <3>. QED  BY <1>0, <3>2, <3>3, <3>4, <2>4 DEF GridSpend, GridLedger
  <2>5. CASE GridEntry.settled = {} /\ Count(pts, "failed") # Estimate
    <3>1. ledger' = [ledger EXCEPT !["grid"].settled = {Count(pts, "done")}]
      BY <2>1, <2>5 DEF Settled, GridEntry
    <3>2. /\ GridEntry'.settled = {Count(pts, "done")} /\ GridEntry'.reserved = GridEntry.reserved
          /\ GridEntry'.released = GridEntry.released
      BY <3>1, GridEntryTyped, Names DEF GridEntry, Ledgers
    <3>3. Count(pts, "done") = Cardinality(With("done")')
      BY <2>2 DEF Count
    <3>4. ~GridEntry.released
      <4>1. ASSUME GridEntry.released PROVE With("failed")' = Points
        BY <2>2, <4>1
      <4>. QED  BY <2>2, <2>5, <4>1 DEF Count, Estimate
    <3>5. \A p \in Bought \ void' : point'[p] # "failed"
      BY <2>5
    <3>6. With("done")' = {p \in Points : point'[p] = "done"}
      BY DEF With
    <3>7. GridEntry'.settled = {Cardinality(With("done"))'}
      BY <3>2, <3>3
    <3>. QED  BY <1>0, <2>2, <3>2, <3>4, <3>5, <3>7 DEF GridSpend, GridLedger
  <2>. QED  BY <2>3, <2>4, <2>5
<1>. QED  BY <1>2, <1>3

LEMMA ReadTotalsSpends ==
  ASSUME NEW w \in Workers, GridTurn(w), GridSpend, ReadTotals(w)
  PROVE  GridSpend'
<1>. USE DEF GridTurn
<1>1. /\ at[w] \in Dispatching /\ UNCHANGED <<ledger, grid, point, sold, void, request, wanted>>
      /\ view' = point /\ DispatchStep(w, "summing") /\ "summing" \in After
  BY DEF ReadTotals, Goes, DispatchStep, After, Dispatching, Spends, DrainRest, IInv, TypeOK, SpendTypes
<1>2. GridLedger' /\ GridTurnAt("summing")' /\ With("queued")' = With("queued")
  BY <1>1, GridRest DEF GridTurnAt
<1>3. GridPoints'
  BY <1>1, <1>2 DEF GridSpend, GridPoints
<1>. QED  BY <1>1, <1>2, <1>3, GridMoves

LEMMA WriteTotalsSpends ==
  ASSUME NEW w \in Workers, GridTurn(w), GridSpend, WriteTotals(w)
  PROVE  GridSpend'
<1>. USE DEF GridTurn
<1>1. /\ at[w] = "summing" /\ at[w] \in Dispatching /\ UNCHANGED <<point, sold, void, request, wanted>>
      /\ view' = Unread /\ DispatchStep(w, "done") /\ "done" \in After
      /\ ledger' = SettledTotals(view) /\ view \in [Points -> Statuses] /\ point \in [Points -> Statuses]
  BY DEF WriteTotals, Leave, DispatchStep, After, Dispatching, Spends, DrainRest, IInv, TypeOK, GridTypes,
     Statuses
<1>2. Bought' = Bought /\ \A s : With(s)' = With(s)
  BY <1>1 DEF Bought, With
<1>3. (\A p \in Points : view[p] \notin {"queued", "pending"}) => \A p \in Points : point'[p] = view[p]
  BY <1>1 DEF GridSpend, GridPoints, Statuses
<1>4. GridLedger'
  BY <1>1, <1>2, <1>3, GridTotals DEF GridSpend, GridLedger
<1>5. With("queued") = {}
  BY <1>1 DEF IInv, GridBook
<1>6. grid' # "none"
  BY <1>1, TotalsNamed DEF WriteTotals
<1>7. GridPoints' /\ GridTurnAt("done")'
  BY <1>1, <1>2, <1>5, <1>6 DEF GridPoints, Unread, GridTurnAt
<1>. QED  BY <1>1, <1>4, <1>7, GridMoves

\* What is left queued fails.
LEMMA QueuedFail ==
  ASSUME IInv, GridSpend, point' = QueuedFailed
  PROVE  /\ point' \in [Points -> Statuses]
         /\ With("queued")' = {} /\ With("pending")' = With("pending") /\ With("done")' = With("done")
         /\ \A p \in Points : point[p] # "queued" => point'[p] = point[p]
         /\ \A p \in Points : view[p] \in {"done", "failed"} => point'[p] = view[p]
         /\ With("queued") = Points \/ With("failed") = Points => With("failed")' = Points
<1>1. point \in [Points -> Statuses]
  BY DEF IInv, TypeOK, GridTypes, Statuses
<1>2. \A p \in Points : point'[p] = IF point[p] = "queued" THEN "failed" ELSE point[p]
  BY DEF QueuedFailed
<1>3. point' \in [Points -> Statuses]
  BY <1>1 DEF QueuedFailed, Statuses
<1>. QED  BY <1>1, <1>2, <1>3 DEF With, GridSpend, GridPoints

LEMMA CloseAmbiguousSpends ==
  ASSUME NEW w \in Workers, GridTurn(w), GridSpend, CloseAmbiguous(w)
  PROVE  GridSpend'
<1>. USE DEF GridTurn
<1>1. /\ at[w] = "closing" /\ at[w] \in Dispatching /\ UNCHANGED <<ledger, view, sold, void, request, wanted>>
      /\ DispatchStep(w, "done") /\ "done" \in After /\ point' = QueuedFailed /\ grid' \in {"partial", "failed"}
  BY DEF CloseAmbiguous, Leave, DispatchStep, After, Dispatching, Spends, DrainRest
<1>2. /\ With("queued")' = {} /\ With("pending")' = With("pending") /\ With("done")' = With("done")
      /\ \A p \in Points : point[p] # "queued" => point'[p] = point[p]
      /\ \A p \in Points : view[p] \in {"done", "failed"} => point'[p] = view[p]
      /\ With("queued") = Points \/ With("failed") = Points => With("failed")' = Points
  BY <1>1, QueuedFail
<1>3. Bought \cap With("queued") = {} \/ GridEntry.settled = {Estimate}
  BY <1>1 DEF GridSpend, GridTurns, GridTurnAt
<1>4. GridEntry' = GridEntry /\ Bought' = Bought
  BY <1>1 DEF GridEntry, Bought
<1>5. \A p \in Bought \ void : point'[p] = "failed" => GridEntry.settled = {Estimate}
  BY <1>2, <1>3 DEF GridSpend, GridLedger, Bought, With
<1>6. GridLedger'
  BY <1>1, <1>2, <1>4, <1>5 DEF GridSpend, GridLedger
<1>7. GridPoints' /\ GridTurnAt("done")'
  BY <1>1, <1>2 DEF GridPoints, GridTurnAt
<1>. QED  BY <1>1, <1>6, <1>7, GridMoves

LEMMA DenyGridSpends ==
  ASSUME NEW w \in Workers, GridTurn(w), GridSpend, DenyGrid(w)
  PROVE  GridSpend'
<1>. USE DEF GridTurn
<1>1. /\ at[w] = "denying" /\ at[w] \in Dispatching /\ UNCHANGED <<view, sold, void, request, wanted>>
      /\ {"done", "naming"} \subseteq After /\ point' = QueuedFailed /\ started \in BOOLEAN
  BY DEF DenyGrid, After, Dispatching, Spends, DrainRest, IInv, TypeOK, SpendTypes
<1>2. /\ With("queued")' = {} /\ With("pending")' = With("pending") /\ With("done")' = With("done")
      /\ point' \in [Points -> Statuses]
      /\ \A p \in Points : point[p] # "queued" => point'[p] = point[p]
      /\ \A p \in Points : view[p] \in {"done", "failed"} => point'[p] = view[p]
      /\ With("queued") = Points \/ With("failed") = Points => With("failed")' = Points
  BY <1>1, QueuedFail
<1>3. Bought \cap With("queued") = {} /\ grid # "none"
  <2>1. Bought \cap With("queued") = {}
    BY <1>1 DEF GridSpend, GridTurns, GridTurnAt
  <2>2. grid # "none"
    BY <1>1 DEF GridSpend, GridPoints, IInv, Wanted
  <2>. QED  BY <2>1, <2>2
<1>4. Bought' = Bought
  BY <1>1 DEF Bought
<1>5. \A p \in Bought \ void : point'[p] = "failed" => GridEntry.settled = {Estimate}
  BY <1>2, <1>3 DEF GridSpend, GridLedger, Bought, With
<1>6. GridEntry.released => With("failed")' = Points
  BY <1>2 DEF GridSpend, GridLedger
<1>7. CASE started /\ With("pending") = {}
  <2>1. DispatchStep(w, "naming") /\ grid' = grid /\ ledger' = SettledTotals(point')
    BY <1>1, <1>7 DEF DenyGrid, Goes, DispatchStep
  <2>2. GridLedger'
    BY <1>1, <1>2, <1>5, <1>6, <2>1, GridTotals
  <2>3. GridPoints' /\ GridTurnAt("naming")'
    BY <1>1, <1>2, <1>3, <2>1 DEF GridPoints, GridTurnAt
  <2>. QED  BY <1>1, <2>1, <2>2, <2>3, GridMoves
<1>8. CASE ~(started /\ With("pending") = {})
  <2>1. DispatchStep(w, "done") /\ grid' \in {"partial", "failed"} /\ ledger' = ledger
    BY <1>1, <1>8 DEF DenyGrid, Leave, DispatchStep
  <2>2. GridEntry' = GridEntry
    BY <2>1 DEF GridEntry
  <2>3. GridLedger'
    BY <1>1, <1>2, <1>4, <1>5, <1>6, <2>2 DEF GridSpend, GridLedger
  <2>4. GridPoints' /\ GridTurnAt("done")'
    BY <1>1, <1>2, <2>1 DEF GridPoints, GridTurnAt
  <2>. QED  BY <1>1, <2>1, <2>3, <2>4, GridMoves
<1>. QED  BY <1>7, <1>8

LEMMA NameDeniedSpends ==
  ASSUME NEW w \in Workers, GridTurn(w), GridSpend, NameDenied(w)
  PROVE  GridSpend'
<1>. USE DEF GridTurn
<1>1. /\ at[w] = "naming" /\ at[w] \in Dispatching
      /\ UNCHANGED <<ledger, point, view, sold, void, request, wanted>>
      /\ DispatchStep(w, "done") /\ "done" \in After /\ grid' \in {"failed", "partial", "completed"}
  BY DEF NameDenied, Leave, DispatchStep, After, Dispatching, Spends, DrainRest
<1>2. GridLedger' /\ With("queued")' = With("queued")
  BY <1>1, GridRest
<1>3. With("queued") = {}
  BY <1>1 DEF IInv, GridBook
<1>4. GridPoints' /\ GridTurnAt("done")'
  BY <1>1, <1>2, <1>3 DEF GridSpend, GridPoints, GridTurnAt
<1>. QED  BY <1>1, <1>2, <1>4, GridMoves

LEMMA DispatchGridSpends ==
  ASSUME NEW w \in Workers, GridTurn(w), GridSpend, DispatchGrid(w)
  PROVE  GridSpend'
BY EnterGridSpends, GridLostSpends, GridDeniedSpends, GridUnavailableSpends, GridCallsSpends,
   GridSubmitsSpends, GridSavesSpends, ReadTotalsSpends, WriteTotalsSpends, SettleAmbiguousSpends,
   CloseAmbiguousSpends, DenyGridSpends, NameDeniedSpends DEF DispatchGrid

LEMMA RefreshSpends == ASSUME IInv, GridSpend, Refresh PROVE GridSpend'
<1>1. /\ UNCHANGED <<request, at, started, view, sold, wanted>> /\ wanted = "grid" /\ grid # "none"
      /\ grid' = TotalsStatus(grid, point') /\ ledger' = SettledTotals(point')
  BY DEF Refresh, RefreshGrid, Spends, IInv, Wanted
<1>2. PICK ready \in SUBSET With("pending") : \E failed \in SUBSET (With("pending") \ ready) :
        /\ point' = [p \in Points |-> IF p \in ready THEN "done"
                                      ELSE IF p \in failed THEN "failed" ELSE point[p]]
        /\ void' = void \cup failed
  BY DEF Refresh, RefreshGrid
<1>3. PICK failed \in SUBSET (With("pending") \ ready) :
        /\ point' = [p \in Points |-> IF p \in ready THEN "done"
                                      ELSE IF p \in failed THEN "failed" ELSE point[p]]
        /\ void' = void \cup failed
  BY <1>2
<1>4. point \in [Points -> Statuses]
  BY DEF IInv, TypeOK, GridTypes, Statuses
<1>5. \A p \in Points : p \in ready \cup failed => point[p] = "pending"
  BY DEF With
<1>6. /\ point' \in [Points -> Statuses] /\ With("queued")' = With("queued")
      /\ \A p \in Points : point[p] # "pending" => point'[p] = point[p]
      /\ \A p \in Points : point'[p] = "failed" => point[p] = "failed" \/ p \in void'
  BY <1>3, <1>4, <1>5 DEF With, Statuses
<1>7. GridEntry.released => With("queued")' = Points \/ With("failed")' = Points
  BY <1>6 DEF GridSpend, GridLedger, With
<1>8. GridLedger'
  BY <1>1, <1>3, <1>6, <1>7, GridTotals DEF GridSpend, GridLedger, Bought
<1>9. /\ grid' # "none"
      /\ grid = "submitting" /\ With("queued") # {} => grid' = "submitting"
  BY <1>1, <1>6, TotalsNamed DEF With
<1>10. GridPoints'
  BY <1>1, <1>6, <1>9 DEF GridSpend, GridPoints
<1>11. Bought' = Bought /\ (GridEntry.settled = {Estimate} => GridEntry'.settled = {Estimate})
  BY <1>1 DEF Bought, SettledTotals, Released, Settled, GridEntry
<1>12. ASSUME NEW v \in Workers PROVE GridTurnAt(at[v])'
  BY <1>1, <1>6, <1>11 DEF GridSpend, GridTurns, GridTurnAt
<1>. QED  BY <1>8, <1>10, <1>12 DEF GridSpend, GridTurns

LEMMA ReserveGridSpends ==
  ASSUME IInv, GridSpend, wanted = "grid", Reserve("grid", Estimate, Site), UNCHANGED <<gridVars, wanted>>
  PROVE  GridSpend'
<1>1. /\ UNCHANGED <<grid, point, view, sold, void, at, started, wanted>>
      /\ request = "none" /\ request' = "reserved"
  BY DEF Reserve, gridVars
<1>2. Bought' = Bought /\ \A s : With(s)' = With(s)
  BY <1>1 DEF Bought, With
<1>3. /\ GridEntry'.reserved = Estimate /\ GridEntry'.settled = GridEntry.settled
      /\ GridEntry'.released = GridEntry.released
  <2>1. CASE ledger["grid"].reserved > 0 /\ UNCHANGED ledger
    <3>1. GridEntry.reserved = Estimate
      BY <2>1 DEF GridSpend, GridLedger, GridEntry
    <3>. QED  BY <2>1, <3>1 DEF GridEntry
  <2>2. CASE ledger' = [ledger EXCEPT !["grid"].reserved = Estimate]
    BY <2>2, GridEntryTyped, Names DEF GridEntry, Ledgers
  <2>. QED  BY <2>1, <2>2 DEF Reserve
<1>4. GridLedger' /\ GridPoints'
  BY <1>1, <1>2, <1>3 DEF GridSpend, GridLedger, GridPoints
<1>5. GridTurns'
  BY <1>1, <1>2, <1>3 DEF GridSpend, GridTurns, GridTurnAt
<1>. QED  BY <1>4, <1>5 DEF GridSpend

LEMMA SaveGridSpends ==
  ASSUME IInv, GridSpend, wanted = "grid", SaveGrid, UNCHANGED wanted
  PROVE  GridSpend'
<1>1. /\ UNCHANGED <<ledger, point, view, sold, void, at, started, wanted>>
      /\ request = "reserved" /\ request' = "saved" /\ grid = "none" /\ grid' = "queued"
  BY DEF SaveGrid, SaveRequest, IInv, Wanted
<1>2. Bought' = Bought /\ GridEntry' = GridEntry /\ \A s : With(s)' = With(s)
  BY <1>1 DEF Bought, With, GridEntry
<1>3. GridLedger' /\ GridPoints'
  BY <1>1, <1>2 DEF GridSpend, GridLedger, GridPoints
<1>4. GridTurns'
  BY <1>1, <1>2 DEF GridSpend, GridTurns, GridTurnAt
<1>. QED  BY <1>3, <1>4 DEF GridSpend
-------------------------------------------------------------------------------
\* The dispatch of a listing check, its worker being alone in it.
LEMMA ListingMoves ==
  ASSUME NEW w \in Workers, ListingTurn(w), at[w] \in Dispatching, NEW s \in After, DispatchStep(w, s),
         ListingLedger', ListingTurnAt(s)'
  PROVE  ListingSpend'
<1>1. at'[w] = s /\ \A v \in Workers : v # w => at'[v] \notin Dispatching
  BY Alone DEF ListingTurn
<1>2. ASSUME NEW v \in Workers PROVE ListingTurnAt(at[v])'
  BY <1>1 DEF ListingTurnAt, Dispatching
<1>. QED  BY <1>2 DEF ListingSpend

LEMMA ListingEntryTyped ==
  ASSUME IInv
  PROVE  /\ ledger \in Ledgers /\ ListingEntry.reserved \in Nat
         /\ ListingEntry.released \in BOOLEAN /\ ListingEntry.settled \subseteq Nat
         /\ Terminal("listing") <=> ListingEntry.settled # {} \/ ListingEntry.released
         /\ charged \in Seq(Costs) /\ reported \in Costs \cup {0} /\ Costs \subseteq Nat \ {0}
<1>1. ledger \in Ledgers
  BY DEF IInv, TypeOK, SpendTypes, Ledgers
<1>. QED
  BY <1>1, Names, ListingAssumption DEF Ledgers, ListingEntry, Terminal, IInv, TypeOK, ListingTypes

\* A step that searches nothing, and after which the check is not completed by it.
LEMMA ListingQuiet ==
  ASSUME IInv, ListingSpend, UNCHANGED <<charged, request, wanted>>,
         listing' = "completed" => listing = "completed" \/ ListingTurnAt("naming"),
         \/ ledger' = ledger
         \/ ledger' = Released("listing") /\ charged = <<>>
         \/ \E c \in Nat \ {0} : ledger' = Settled("listing", c)
  PROVE  /\ ListingLedger'
         /\ ListingEntry.settled # {} => ListingEntry'.settled = ListingEntry.settled
<1>1. CASE ledger' = ledger
  <2>1. ListingEntry' = ListingEntry
    BY <1>1 DEF ListingEntry
  <2>. QED  BY <2>1 DEF ListingSpend, ListingLedger, ListingTurnAt
<1>2. CASE ListingEntry.settled # {}
  <2>1. ledger' = ledger
    BY <1>2 DEF Released, Settled, ListingEntry
  <2>. QED  BY <1>1, <2>1
<1>3. CASE ledger' = Released("listing") /\ charged = <<>> /\ ListingEntry.settled = {}
  <2>1. ledger' = [ledger EXCEPT !["listing"].released = TRUE]
    BY <1>3 DEF Released, ListingEntry
  <2>2. /\ ListingEntry'.settled = {} /\ ListingEntry'.reserved = ListingEntry.reserved
    BY <1>3, <2>1, ListingEntryTyped, Names DEF ListingEntry, Ledgers
  <2>. QED  BY <1>3, <2>2 DEF ListingSpend, ListingLedger, ListingTurnAt
<1>4. ASSUME NEW c \in Nat \ {0}, ledger' = Settled("listing", c), ListingEntry.settled = {}
      PROVE  ListingLedger'
  <2>1. ledger' = [ledger EXCEPT !["listing"].settled = {c}]
    BY <1>4 DEF Settled, ListingEntry
  <2>2. /\ ListingEntry'.settled = {c} /\ ListingEntry'.reserved = ListingEntry.reserved
        /\ ListingEntry'.released = ListingEntry.released
    BY <2>1, ListingEntryTyped, Names DEF ListingEntry, Ledgers
  <2>3. listing' # "completed"
    BY <1>4 DEF ListingSpend, ListingLedger, ListingTurnAt
  <2>. QED  BY <2>2, <2>3 DEF ListingSpend, ListingLedger
<1>. QED  BY <1>1, <1>2, <1>3, <1>4

LEMMA EnterListingSpends ==
  ASSUME NEW w \in Workers, ListingTurn(w), ListingSpend, EnterListing(w)
  PROVE  ListingSpend'
<1>. USE DEF ListingTurn
<1>1. /\ at[w] \in Dispatching /\ UNCHANGED <<charged, request, wanted>> /\ listing' \in {listing, "running"}
  BY DEF EnterListing, Dispatching, Spends, DrainRest
<1>2. PICK s \in {"done", "ambiguous", "closing", "first"} : DispatchStep(w, s)
  BY DEF EnterListing, Leave, Goes, DispatchStep, IInv, TypeOK, SpendTypes
<1>3. ledger' = ledger \/ (ledger' = Released("listing") /\ charged = <<>>)
  BY DEF EnterListing, IInv, ListingBook
<1>4. ListingLedger'
  BY <1>1, <1>3, ListingQuiet
<1>. QED  BY <1>1, <1>2, <1>4, ListingMoves DEF ListingTurnAt, After, Dispatching

LEMMA ListingWaitSpends ==
  ASSUME NEW w \in Workers, ListingTurn(w), ListingSpend,
         ListingJobLost(w) \/ ListingDenied(w) \/ ListingCalls(w) \/ SettleListing(w) \/ FailListing(w)
  PROVE  ListingSpend'
<1>. USE DEF ListingTurn
<1>1. /\ at[w] \in Dispatching /\ UNCHANGED <<charged, request, wanted>> /\ listing' \in {listing, "failed"}
  BY DEF ListingJobLost, ListingDenied, ListingCalls, SettleListing, FailListing, Dispatching, Spends, DrainRest,
     listingVars
<1>2. PICK s \in {"raised", "closing", "calling", "done"} : DispatchStep(w, s)
  BY DEF ListingJobLost, ListingDenied, ListingCalls, SettleListing, FailListing, Leave, Goes, DispatchStep,
     IInv, TypeOK, SpendTypes
<1>3. \/ ledger' = ledger
      \/ ledger' = Released("listing") /\ charged = <<>>
      \/ \E c \in Nat \ {0} : ledger' = Settled("listing", c)
  <2>1. ListingDenied(w) => charged = <<>>
    BY DEF ListingDenied, IInv, ListingBook
  <2>2. SettleListing(w) => \E c \in Nat \ {0} : ledger' = Settled("listing", c)
    <3>1. (IF reported > 0 THEN reported ELSE 1) \in Nat \ {0}
      BY ListingEntryTyped
    <3>. QED  BY <3>1 DEF SettleListing
  <2>. QED  BY <2>1, <2>2 DEF ListingJobLost, ListingDenied, ListingCalls, FailListing
<1>4. ListingLedger'
  BY <1>1, <1>3, ListingQuiet
<1>. QED  BY <1>1, <1>2, <1>4, ListingMoves DEF ListingTurnAt, After, Dispatching

LEMMA ListingSearchesSpends ==
  ASSUME NEW w \in Workers, ListingTurn(w), ListingSpend, ListingSearches(w)
  PROVE  ListingSpend'
<1>. USE DEF ListingTurn
<1>1. /\ at[w] = "calling" /\ at[w] \in Dispatching /\ UNCHANGED <<ledger, listing, request, wanted>>
      /\ {"landed", "ambiguous"} \subseteq After
  BY DEF ListingSearches, Dispatching, After, Spends, DrainRest
<1>2. /\ charged = <<>> /\ listing = "running" /\ ~ListingEntry.released
  BY <1>1, ListingEntryTyped DEF IInv, ListingBook, Covered
<1>3. ListingEntry' = ListingEntry
  BY <1>1 DEF ListingEntry
<1>4. ListingLedger'
  BY <1>1, <1>2, <1>3 DEF ListingSpend, ListingLedger
<1>5. CASE Goes(w, "ambiguous")
  <2>1. DispatchStep(w, "ambiguous")
    BY <1>5 DEF ListingSearches, Goes, DispatchStep, IInv, TypeOK, SpendTypes
  <2>. QED  BY <1>1, <1>4, <2>1, ListingMoves DEF ListingTurnAt
<1>6. ASSUME NEW c \in Costs, charged' = Append(charged, c), Goes(w, "landed"), reported' = c
      PROVE  ListingSpend'
  <2>1. DispatchStep(w, "landed")
    BY <1>6 DEF ListingSearches, Goes, DispatchStep, IInv, TypeOK, SpendTypes
  <2>2. charged' # <<>> /\ charged'[1] = c
    BY <1>2, <1>6
  <2>. QED  BY <1>1, <1>4, <1>6, <2>1, <2>2, ListingMoves DEF ListingTurnAt
<1>. QED  BY <1>5, <1>6 DEF ListingSearches

LEMMA ListingSavesSpends ==
  ASSUME NEW w \in Workers, ListingTurn(w), ListingSpend, ListingSaves(w)
  PROVE  ListingSpend'
<1>. USE DEF ListingTurn
<1>1. /\ at[w] = "landed" /\ at[w] \in Dispatching /\ UNCHANGED <<charged, listing, request, wanted>>
      /\ {"naming", "ambiguous"} \subseteq After
  BY DEF ListingSaves, Dispatching, After, Spends, DrainRest, listingVars
<1>2. charged # <<>> /\ reported = charged[1] /\ ListingEntry.settled = {}
  BY <1>1, ListingEntryTyped DEF ListingSpend, ListingTurnAt, IInv, Covered
<1>3. reported \in Nat \ {0}
  <2>1. Len(charged) \in Nat /\ Len(charged) # 0 /\ charged \in Seq(Costs)
    BY <1>2, ListingEntryTyped
  <2>2. charged[1] \in Costs
    BY <2>1
  <2>. QED  BY <1>2, <2>2, ListingEntryTyped
<1>4. CASE ledger' = Settled("listing", reported) /\ Goes(w, "naming")
  <2>1. DispatchStep(w, "naming")
    BY <1>4 DEF ListingSaves, Goes, DispatchStep, IInv, TypeOK, SpendTypes
  <2>2. ListingLedger'
    BY <1>1, <1>3, <1>4, ListingQuiet
  <2>3. ledger' = [ledger EXCEPT !["listing"].settled = {reported}]
    BY <1>2, <1>4 DEF Settled, ListingEntry
  <2>4. ListingEntry'.settled = {reported}
    BY <2>3, ListingEntryTyped, Names DEF ListingEntry, Ledgers
  <2>. QED  BY <1>1, <1>2, <2>1, <2>2, <2>4, ListingMoves DEF ListingTurnAt
<1>5. CASE Goes(w, "ambiguous") /\ UNCHANGED ledger
  <2>1. DispatchStep(w, "ambiguous")
    BY <1>5 DEF ListingSaves, Goes, DispatchStep, IInv, TypeOK, SpendTypes
  <2>2. ListingLedger'
    BY <1>1, <1>5, ListingQuiet
  <2>. QED  BY <1>1, <2>1, <2>2, ListingMoves DEF ListingTurnAt
<1>. QED  BY <1>4, <1>5 DEF ListingSaves

LEMMA CompleteListingSpends ==
  ASSUME NEW w \in Workers, ListingTurn(w), ListingSpend, CompleteListing(w)
  PROVE  ListingSpend'
<1>. USE DEF ListingTurn
<1>1. /\ at[w] = "naming" /\ at[w] \in Dispatching /\ UNCHANGED <<ledger, charged, request, wanted>>
      /\ "done" \in After
  BY DEF CompleteListing, Dispatching, After, Spends, DrainRest
<1>2. DispatchStep(w, "done")
  BY DEF CompleteListing, Leave, DispatchStep
<1>3. ListingTurnAt("naming")
  BY <1>1 DEF ListingSpend
<1>4. ListingLedger'
  BY <1>1, <1>3, ListingQuiet
<1>. QED  BY <1>1, <1>2, <1>4, ListingMoves DEF ListingTurnAt

LEMMA DispatchListingSpends ==
  ASSUME NEW w \in Workers, ListingTurn(w), ListingSpend, DispatchListing(w)
  PROVE  ListingSpend'
BY EnterListingSpends, ListingWaitSpends, ListingSearchesSpends, ListingSavesSpends, CompleteListingSpends
   DEF DispatchListing

LEMMA ReserveListingSpends ==
  ASSUME IInv, ListingSpend, Reserve("listing", 1, Shop), UNCHANGED <<listingVars, wanted>>
  PROVE  ListingSpend'
<1>1. UNCHANGED <<listing, reported, charged, at, wanted>>
  BY DEF Reserve, listingVars
<1>2. /\ ListingEntry'.reserved = 1 /\ ListingEntry'.settled = ListingEntry.settled
      /\ ListingEntry'.released = ListingEntry.released
  <2>1. CASE ledger["listing"].reserved > 0 /\ UNCHANGED ledger
    BY <2>1 DEF ListingSpend, ListingLedger, ListingEntry
  <2>2. CASE ledger' = [ledger EXCEPT !["listing"].reserved = 1]
    BY <2>2, ListingEntryTyped, Names DEF ListingEntry, Ledgers
  <2>. QED  BY <2>1, <2>2 DEF Reserve
<1>. QED  BY <1>1, <1>2 DEF ListingSpend, ListingLedger, ListingTurnAt

LEMMA SaveListingSpends ==
  ASSUME IInv, ListingSpend, SaveListing, UNCHANGED wanted
  PROVE  ListingSpend'
<1>1. /\ UNCHANGED <<ledger, reported, charged, at, wanted>>
      /\ request = "reserved" /\ listing' = "queued"
  BY DEF SaveListing, SaveRequest
<1>2. ListingEntry' = ListingEntry
  BY <1>1 DEF ListingEntry
<1>. QED  BY <1>1, <1>2 DEF ListingSpend, ListingLedger, ListingTurnAt

-------------------------------------------------------------------------------
\* A request's step changes the rows of its own key, which is its own alone.
LEMMA BriefMoves ==
  ASSUME NEW w \in Workers, BriefTurn(w), BriefSpend, NEW s \in Serving \cup {"asking", "idle"}, Goes(w, s),
         NEW t \in Turns, turn' = [turn EXCEPT ![w] = t],
         NEW k \in BriefKeys, k = Key(w), KeySpend(k)', TurnSpend(w)',
         \A j \in BriefKeys : j # k => brief'[j] = brief[j] /\ bills'[j] = bills[j] /\ ledger'[j] = ledger[j],
         Sole(w) \/ UNCHANGED <<brief, bills, ledger>>
  PROVE  BriefSpend'
<1>1. \A v \in Workers : v # w => at'[v] = at[v] /\ turn'[v] = turn[v]
  BY BriefFacts DEF Goes, IInv, TypeOK, SpendTypes
<1>2. ASSUME NEW j \in BriefKeys PROVE KeySpend(j)'
  <2>1. CASE j # k
    BY <2>1 DEF BriefSpend, KeySpend, Terminal
  <2>. QED  BY <2>1
<1>3. ASSUME NEW v \in Workers, v # w PROVE TurnSpend(v)'
  <2>1. Key(v) \in BriefKeys /\ Key(v)' = Key(v)
    BY <1>1, <1>3, BriefFacts, Booked DEF Key
  <2>2. Sole(w) /\ at[v] \in Serving => Key(v) # k
    BY <1>3, BriefFacts, Booked
  <2>3. at[v] \in Serving => /\ brief'[Key(v)] = brief[Key(v)] /\ bills'[Key(v)] = bills[Key(v)]
                             /\ ledger'[Key(v)] = ledger[Key(v)]
    BY <2>1, <2>2
  <2>. QED  BY <1>1, <1>3, <2>1, <2>3 DEF BriefSpend, TurnSpend, Terminal, Unended, Serving
<1>. QED  BY <1>2, <1>3 DEF BriefSpend

\* What a request knows of its key's entry before its step.
LEMMA SpendFacts ==
  ASSUME NEW w \in Workers, BriefTurn(w), BriefSpend, NEW k \in BriefKeys, k = Key(w)
  PROVE  /\ KeySpend(k) /\ TurnSpend(w) /\ turn[w] \in Turns /\ turn = [turn EXCEPT ![w] = turn[w]]
         /\ ledger[k] \in [reserved : Nat, settled : SUBSET Nat, released : BOOLEAN]
         /\ at[w] \in Unsold => bills[k].sold = 0 /\ bills[k].priced = 0
         /\ bills[k].sold \in Nat /\ bills[k].priced \in Nat
         /\ at[w] \in Serving => brief[k] = "running"
         /\ \A s : Goes(w, s) => at'[w] = s
<1>1. ledger \in Ledgers /\ k \in Kinds
  BY BriefFacts
<1>. QED
  BY <1>1, BriefFacts DEF BriefSpend, TurnBook, Ledgers, Goes, IInv, TypeOK, SpendTypes, BillRows, NoBills

\* Steps between the reservation and the settlement that buy nothing.
LEMMA BriefHolds ==
  ASSUME NEW w \in Workers, BriefTurn(w), BriefSpend, at[w] \in Unended \ {"opened"},
         NEW s \in Unended, s # "opened", Goes(w, s), UNCHANGED <<ledger, brief, bills>>,
         NEW t \in Turns, turn' = [turn EXCEPT ![w] = t], t.key = Key(w),
         at[w] \in {"recording", "settling"} => s \in {"recording", "settling"},
         s \in {"recording", "settling"} =>
           \/ at[w] \in {"recording", "settling"} /\ t.answer = turn[w].answer
           \/ at[w] \in Unsold /\ t.answer = "private"
  PROVE  BriefSpend'
<1>. PICK k \in BriefKeys : k = Key(w)
  BY BriefFacts
<1>1. at'[w] = s /\ turn'[w] = t /\ Key(w)' = k
  BY SpendFacts, BriefFacts DEF Key
<1>2. KeySpend(k)'
  BY SpendFacts DEF KeySpend, Terminal
<1>3. TurnSpend(w)'
  BY <1>1, SpendFacts DEF TurnSpend, Terminal, Unended
<1>. QED  BY <1>2, <1>3, BriefMoves DEF Unended, Serving

LEMMA BriefWaitSpends ==
  ASSUME NEW w \in Workers, BriefTurn(w), BriefSpend,
         AskPrivately(w) \/ PrivateAnswers(w) \/ PrivateFails(w) \/ RecordFallback(w)
  PROVE  BriefSpend'
<1>. PICK k \in BriefKeys : k = Key(w)
  BY BriefFacts
<1>1. turn[w] \in Turns /\ turn[w].key = Key(w) /\ turn = [turn EXCEPT ![w] = turn[w]]
  BY SpendFacts DEF Key
<1>2. CASE AskPrivately(w)
  <2>1. PICK s \in {"private", "unfenced"} : Goes(w, s)
    BY <1>2 DEF AskPrivately, RollBack
  <2>2. PICK t \in Turns : t.key = Key(w) /\ turn' = [turn EXCEPT ![w] = t]
    <3>1. [turn[w] EXCEPT !.prompted = TRUE] \in Turns /\ [turn[w] EXCEPT !.prompted = TRUE].key = Key(w)
      BY <1>1 DEF Turns
    <3>2. [turn EXCEPT ![w].prompted = TRUE] = [turn EXCEPT ![w] = [turn[w] EXCEPT !.prompted = TRUE]]
      BY BriefFacts
    <3>. QED  BY <1>1, <1>2, <3>1, <3>2 DEF AskPrivately
  <2>. QED  BY <1>2, <2>1, <2>2, BriefHolds DEF AskPrivately, Unended
<1>3. CASE PrivateAnswers(w)
  <2>1. PICK t \in Turns : t.key = Key(w) /\ turn' = [turn EXCEPT ![w] = t] /\ t.answer = "private"
    BY <1>3, Heard DEF PrivateAnswers, Answers
  <2>. QED  BY <1>3, <2>1, BriefHolds DEF PrivateAnswers, Unended, Unsold
<1>4. CASE PrivateFails(w)
  BY <1>1, <1>4, BriefHolds DEF PrivateFails, RollBack, Unended
<1>5. CASE RecordFallback(w)
  BY <1>1, <1>5, BriefHolds DEF RecordFallback, Unended
<1>. QED  BY <1>2, <1>3, <1>4, <1>5

\* Steps after which the request is not past its first commit, or over.
LEMMA BriefOutside ==
  ASSUME NEW w \in Workers, BriefTurn(w), BriefSpend, NEW s \in {"asking", "idle", "denied"}, Goes(w, s),
         NEW t \in Turns, turn' = [turn EXCEPT ![w] = t],
         NEW k \in BriefKeys, k = Key(w), KeySpend(k)',
         \A j \in BriefKeys : j # k => brief'[j] = brief[j] /\ bills'[j] = bills[j] /\ ledger'[j] = ledger[j],
         Sole(w) \/ UNCHANGED <<brief, bills, ledger>>
  PROVE  BriefSpend'
<1>1. TurnSpend(w)'
  BY SpendFacts DEF TurnSpend, Unended
<1>. QED  BY <1>1, BriefMoves DEF Serving

LEMMA AskBriefSpends ==
  ASSUME NEW w \in Workers, BriefTurn(w), BriefSpend, NEW j \in BriefKeys, AskBrief(w, j)
  PROVE  BriefSpend'
<1>. PICK k \in BriefKeys : k = Key(w)
  BY BriefFacts
<1>1. UNCHANGED <<ledger, brief, bills>> /\ Goes(w, "asking")
  BY DEF AskBrief
<1>2. PICK event \in {0, canary.event} : turn' = [turn EXCEPT ![w] = [NoTurn EXCEPT !.key = j, !.event = event]]
  BY DEF AskBrief
<1>3. [NoTurn EXCEPT !.key = j, !.event = event] \in Turns
  BY BriefFacts DEF Turns, NoTurn, Answers
<1>4. KeySpend(k)'
  BY <1>1, SpendFacts DEF KeySpend, Terminal
<1>. QED  BY <1>1, <1>2, <1>3, <1>4, BriefOutside

LEMMA OpenBriefSpends ==
  ASSUME NEW w \in Workers, BriefTurn(w), BriefSpend, OpenBrief(w)
  PROVE  BriefSpend'
<1>. PICK k \in BriefKeys : k = Key(w)
  BY BriefFacts
<1>1. UNCHANGED <<ledger, bills>>
  BY DEF OpenBrief
<1>2. CASE brief[k] = "none"
  <2>1. /\ brief' = [brief EXCEPT ![k] = "running"] /\ Goes(w, "opened") /\ turn' = turn
    BY <1>2 DEF OpenBrief
  <2>2. at'[w] = "opened" /\ Key(w)' = k /\ brief'[k] = "running"
    BY <2>1, SpendFacts, BriefFacts DEF Key
  <2>3. KeySpend(k)'
    BY <1>1, <2>2, SpendFacts DEF KeySpend, Terminal
  <2>4. TurnSpend(w)'
    <3>1. bills[k].priced = 0 /\ ~Terminal(k)
      BY <1>2, SpendFacts, BriefFacts DEF KeyBook, KeySpend, NoBills
    <3>. QED  BY <1>1, <2>1, <2>2, <3>1 DEF TurnSpend, Terminal
  <2>5. Sole(w) /\ \A j \in BriefKeys : j # k => brief'[j] = brief[j] /\ bills'[j] = bills[j] /\ ledger'[j] = ledger[j]
    BY <1>1, <1>2, <2>1, BriefFacts DEF Sole
  <2>. QED  BY <2>1, <2>3, <2>4, <2>5, SpendFacts, BriefMoves DEF Serving
<1>3. CASE brief[k] # "none"
  <2>1. brief' = brief /\ Goes(w, "idle") /\ turn' = [turn EXCEPT ![w] = NoTurn]
    BY <1>3 DEF OpenBrief, Returns
  <2>2. KeySpend(k)'
    BY <1>1, <2>1, SpendFacts DEF KeySpend, Terminal
  <2>. QED  BY <1>1, <2>1, <2>2, BriefFacts, BriefOutside
<1>. QED  BY <1>2, <1>3

\* A brief is validated only when what was bought for it has been settled.
LEMMA BriefEndSpends ==
  ASSUME NEW w \in Workers, BriefTurn(w), BriefSpend, FallBack(w) \/ EndBrief(w)
  PROVE  BriefSpend'
<1>. PICK k \in BriefKeys : k = Key(w)
  BY BriefFacts
<1>1. UNCHANGED <<ledger, bills>> /\ Goes(w, "idle") /\ turn' = [turn EXCEPT ![w] = NoTurn] /\ at[w] \in Serving
  BY DEF FallBack, EndBrief, Returns, Serving
<1>2. PICK b \in {"validated", "fallback"} :
        /\ brief' = [brief EXCEPT ![k] = b]
        /\ b = "validated" => at[w] = "ending" /\ turn[w].answer \in {"private", "priced"}
  BY DEF FallBack, EndBrief
<1>3. brief'[k] = b /\ \A j \in BriefKeys : j # k => brief'[j] = brief[j]
  BY <1>2, BriefFacts
<1>4. KeySpend(k)'
  BY <1>1, <1>2, <1>3, SpendFacts DEF KeySpend, TurnSpend, Terminal
<1>. QED  BY <1>1, <1>3, <1>4, BriefFacts, BriefOutside DEF Sole

LEMMA ReserveBriefSpends ==
  ASSUME NEW w \in Workers, BriefTurn(w), BriefSpend, ReserveBrief(w)
  PROVE  BriefSpend'
<1>. PICK k \in BriefKeys : k = Key(w)
  BY BriefFacts
<1>1. /\ at[w] = "opened" /\ UNCHANGED <<brief, turn, bills>> /\ Goes(w, "held")
      /\ ledger' = [ledger EXCEPT ![k].reserved = BriefEstimate]
  BY DEF ReserveBrief, briefVars
<1>2. at'[w] = "held" /\ Key(w)' = k /\ bills[k].sold = 0 /\ bills[k].priced = 0
  BY <1>1, SpendFacts DEF Key, Unsold
<1>3. /\ ledger'[k].reserved = BriefEstimate /\ ledger'[k].settled = ledger[k].settled
      /\ ledger'[k].released = ledger[k].released
      /\ \A j \in BriefKeys : j # k => ledger'[j] = ledger[j]
  BY <1>1, BriefFacts DEF Ledgers
<1>4. KeySpend(k)'
  BY <1>1, <1>2, <1>3, SpendFacts DEF KeySpend, Terminal
<1>5. TurnSpend(w)'
  BY <1>1, <1>2, <1>3, SpendFacts DEF TurnSpend, Terminal, Unended
<1>. QED  BY <1>1, <1>3, <1>4, <1>5, SpendFacts, BriefMoves DEF Sole, Serving

LEMMA AuthorizeBriefSpends ==
  ASSUME NEW w \in Workers, BriefTurn(w), BriefSpend, AuthorizeBrief(w)
  PROVE  BriefSpend'
<1>. PICK k \in BriefKeys : k = Key(w)
  BY BriefFacts
<1>1. /\ at[w] = "held" /\ UNCHANGED <<brief, turn, bills>> /\ turn[w].key = Key(w)
  BY DEF AuthorizeBrief, briefVars, Key
<1>2. CASE Goes(w, "cleared") /\ UNCHANGED ledger
  BY <1>1, <1>2, SpendFacts, BriefHolds DEF Unended
<1>3. CASE ledger' = Released(k) /\ Goes(w, "denied")
  <2>1. bills[k].sold = 0 /\ bills[k].priced = 0 /\ ~Terminal(k)
    BY <1>1, SpendFacts DEF TurnSpend, Unended, Unsold
  <2>2. ledger' = [ledger EXCEPT ![k].released = TRUE]
    BY <1>3, <2>1 DEF Released, Terminal
  <2>3. /\ ledger'[k].reserved = ledger[k].reserved /\ ledger'[k].settled = {}
        /\ \A j \in BriefKeys : j # k => ledger'[j] = ledger[j]
    BY <2>1, <2>2, BriefFacts DEF Ledgers, Terminal
  <2>4. brief[k] = "running"
    BY <1>1, SpendFacts DEF Serving
  <2>5. KeySpend(k)'
    BY <1>1, <2>1, <2>3, <2>4, SpendFacts DEF KeySpend
  <2>. QED  BY <1>1, <1>3, <2>3, <2>5, SpendFacts, BriefOutside DEF Sole, Serving
<1>. QED  BY <1>2, <1>3 DEF AuthorizeBrief

\* The managed prompt is asked for and bought while the reservation stands in full.
LEMMA BriefPosts ==
  ASSUME NEW w \in Workers, BriefTurn(w), BriefSpend, at[w] \in {"cleared", "unfenced", "managed"},
         UNCHANGED <<ledger, brief>>, NEW s \in {"managed", "recording", "settling"}, Goes(w, s),
         NEW t \in Turns, turn' = [turn EXCEPT ![w] = t], t.key = Key(w),
         NEW b \in BillRows, bills' = [bills EXCEPT ![Key(w)] = b],
         s = "managed" => b.priced = 0, s # "managed" => (t.answer = "priced" <=> b.priced > 0)
  PROVE  BriefSpend'
<1>. PICK k \in BriefKeys : k = Key(w)
  BY BriefFacts
<1>1. /\ ~Terminal(k) /\ ledger[k].reserved = BriefEstimate /\ brief[k] = "running"
  BY SpendFacts DEF TurnSpend, Unended, Serving
<1>2. at'[w] = s /\ turn'[w] = t /\ Key(w)' = k /\ bills'[k] = b /\ b.priced \in Nat
  BY SpendFacts, BriefFacts DEF Key, BillRows
<1>3. \A j \in BriefKeys : j # k => bills'[j] = bills[j]
  BY BriefFacts
<1>4. KeySpend(k)'
  BY <1>1, <1>2 DEF KeySpend, Terminal
<1>5. TurnSpend(w)'
  BY <1>1, <1>2 DEF TurnSpend, Terminal
<1>. QED  BY <1>2, <1>3, <1>4, <1>5, BriefMoves DEF Sole, Serving

LEMMA ManagedSpends ==
  ASSUME NEW w \in Workers, BriefTurn(w), BriefSpend,
         AskManaged(w) \/ ManagedTryFails(w) \/ ManagedAnswers(w)
  PROVE  BriefSpend'
<1>. PICK k \in BriefKeys : k = Key(w)
  BY BriefFacts
<1>1. CASE AskManaged(w)
  <2>1. PICK t \in Turns, b \in BillRows :
          /\ turn' = [turn EXCEPT ![w] = t] /\ t.key = Key(w)
          /\ bills' = [bills EXCEPT ![Key(w)] = b] /\ b.priced = 0
    BY <1>1, Asks
  <2>2. at[w] \in {"cleared", "unfenced"} /\ UNCHANGED <<ledger, brief>> /\ Goes(w, "managed")
    BY <1>1 DEF AskManaged
  <2>. QED  BY <2>1, <2>2, BriefPosts
<1>. SUFFICES ASSUME at[w] = "managed", ManagedTryFails(w) \/ ManagedAnswers(w) PROVE BriefSpend'
  BY <1>1 DEF ManagedTryFails, ManagedAnswers
<1>2. bills[k].priced = 0 /\ UNCHANGED <<ledger, brief>>
  BY SpendFacts DEF TurnSpend, Unended, ManagedTryFails, ManagedAnswers
<1>3. ASSUME bills' = bills \/ Sold(Key(w)), NEW a \in {"unsure", "refused"}, Hears(w, a), HandsOver(w)
      PROVE  BriefSpend'
  <2>1. PICK t \in Turns : turn' = [turn EXCEPT ![w] = t] /\ t.key = Key(w) /\ t.answer = a
    BY <1>3, Heard DEF Answers
  <2>2. PICK s \in {"recording", "settling"} : Goes(w, s)
    BY <1>3 DEF HandsOver
  <2>3. PICK b \in BillRows : bills' = [bills EXCEPT ![Key(w)] = b] /\ b.priced = 0
    BY <1>2, <1>3, Posts
  <2>4. s # "managed" /\ ~(t.answer = "priced") /\ ~(b.priced > 0)
    BY <2>1, <2>2, <2>3
  <2>. QED  BY <1>2, <2>1, <2>2, <2>3, <2>4, BriefPosts
<1>4. CASE ManagedTryFails(w) /\ turn[w].tries + 1 < MaxTries
  <2> DEFINE t == [turn[w] EXCEPT !.tries = @ + 1]
  <2>1. t \in Turns /\ t.key = Key(w)
    BY SpendFacts DEF Turns, Key
  <2>2. turn' = [turn EXCEPT ![w] = t] /\ Goes(w, "managed")
    BY <1>4, BriefFacts DEF ManagedTryFails, Goes, IInv, TypeOK, SpendTypes
  <2> HIDE DEF t
  <2>3. PICK b \in BillRows : bills' = [bills EXCEPT ![Key(w)] = b] /\ b.priced = 0
    BY <1>2, <1>4, Posts DEF ManagedTryFails
  <2>. QED  BY <1>2, <2>1, <2>2, <2>3, BriefPosts
<1>5. CASE ManagedTryFails(w) /\ ~(turn[w].tries + 1 < MaxTries)
  BY <1>3, <1>5 DEF ManagedTryFails
<1>6. CASE ManagedAnswers(w) /\ Hears(w, "priced")
           /\ \E c \in BriefCosts : SoldAt(Key(w), c)
  <2>1. PICK c \in BriefCosts : SoldAt(Key(w), c)
    BY <1>6
  <2>2. c \in Nat /\ c > 0
    BY BriefAssumption
  <2>3. PICK b \in BillRows : bills' = [bills EXCEPT ![Key(w)] = b] /\ b.priced = c
    BY <2>1, <2>2, PostPriced
  <2>4. PICK t \in Turns : turn' = [turn EXCEPT ![w] = t] /\ t.key = Key(w) /\ t.answer = "priced"
    BY <1>6, Heard DEF Answers
  <2>5. PICK s \in {"recording", "settling"} : Goes(w, s)
    BY <1>6 DEF HandsOver, ManagedAnswers
  <2>. QED  BY <1>2, <2>2, <2>3, <2>4, <2>5, BriefPosts
<1>7. CASE ManagedAnswers(w) /\ \E a \in {"unsure", "refused"} : Hears(w, a) /\ (bills' = bills \/ Sold(Key(w)))
  BY <1>3, <1>7 DEF ManagedAnswers
<1>. QED  BY <1>4, <1>5, <1>6, <1>7 DEF ManagedAnswers

LEMMA SettleBriefSpends ==
  ASSUME NEW w \in Workers, BriefTurn(w), BriefSpend, SettleBrief(w)
  PROVE  BriefSpend'
<1>. PICK k \in BriefKeys : k = Key(w)
  BY BriefFacts
<1>1. at[w] = "settling" /\ UNCHANGED <<brief, turn, bills>> /\ Goes(w, "ending")
  BY DEF SettleBrief, briefVars
<1>2. /\ ~Terminal(k) /\ ledger[k].reserved = BriefEstimate /\ brief[k] = "running"
      /\ turn[w].answer = "priced" <=> bills[k].priced > 0
      /\ bills[k].priced \in Nat
  BY <1>1, SpendFacts DEF TurnSpend, Unended, Serving
<1>3. at'[w] = "ending" /\ Key(w)' = k
  BY <1>1, SpendFacts DEF Key
<1> DEFINE cost == IF bills[k].priced > 0 THEN bills[k].priced ELSE BriefEstimate
<1>4. \/ ledger' = [ledger EXCEPT ![k].settled = {cost}] /\ turn[w].answer \in {"priced", "unsure"}
      \/ /\ ledger' = [ledger EXCEPT ![k].released = TRUE]
         /\ bills[k].priced = 0 /\ turn[w].answer \notin {"priced", "unsure"}
  <2>1. CASE turn[w].answer = "priced"
    BY <1>2, <2>1 DEF SettleBrief, Settled, Terminal
  <2>2. CASE turn[w].answer = "unsure"
    BY <1>2, <2>2 DEF SettleBrief, Settled, Terminal
  <2>3. CASE turn[w].answer \notin {"priced", "unsure"}
    BY <1>2, <2>3 DEF SettleBrief, Released, Terminal
  <2>. QED  BY <2>1, <2>2, <2>3
<1> HIDE DEF cost
<1>5. /\ ledger'[k].reserved = ledger[k].reserved
      /\ \A j \in BriefKeys : j # k => ledger'[j] = ledger[j]
      /\ \/ /\ ledger'[k].settled = {cost} /\ ledger'[k].released = ledger[k].released
            /\ turn[w].answer \in {"priced", "unsure"}
         \/ /\ ledger'[k].settled = ledger[k].settled /\ ledger'[k].released = TRUE
            /\ bills[k].priced = 0 /\ turn[w].answer \notin {"priced", "unsure"}
  <2>1. k \in Kinds /\ ledger \in Ledgers
    BY BriefFacts
  <2>2. CASE ledger' = [ledger EXCEPT ![k].settled = {cost}] /\ turn[w].answer \in {"priced", "unsure"}
    BY <2>1, <2>2, BriefFacts DEF Ledgers
  <2>3. CASE /\ ledger' = [ledger EXCEPT ![k].released = TRUE]
             /\ bills[k].priced = 0 /\ turn[w].answer \notin {"priced", "unsure"}
    <3>1. ledger'[k] = [ledger[k] EXCEPT !.released = TRUE] /\ \A j \in BriefKeys : j # k => ledger'[j] = ledger[j]
      BY <2>1, <2>3, BriefFacts DEF Ledgers
    <3>2. /\ ledger'[k].reserved = ledger[k].reserved /\ ledger'[k].settled = ledger[k].settled
          /\ ledger'[k].released = TRUE
      BY <3>1, SpendFacts
    <3>. QED  BY <2>3, <3>1, <3>2
  <2>. QED  BY <1>4, <2>2, <2>3
<1>6. KeySpend(k)'
  BY <1>1, <1>2, <1>5, SpendFacts DEF KeySpend, Terminal, cost
<1>7. TurnSpend(w)'
  BY <1>1, <1>2, <1>3, <1>5 DEF TurnSpend, Unended, Terminal
<1>. QED  BY <1>1, <1>5, <1>6, <1>7, SpendFacts, BriefMoves DEF Sole, Serving

LEMMA ServeSpends == ASSUME IInv, BriefSpend, NEW w \in Workers, Serve(w) PROVE BriefSpend'
<1>1. BriefTurn(w)
  BY DEF Serve, ServeBrief, BriefTurn, AskBrief, OpenBrief, FallBack, ReserveBrief, AuthorizeBrief,
     AskPrivately, PrivateAnswers, PrivateFails, AskManaged, ManagedTryFails, ManagedAnswers, RecordFallback,
     SettleBrief, EndBrief
<1>. QED
  BY <1>1, AskBriefSpends, OpenBriefSpends, BriefEndSpends, ReserveBriefSpends, AuthorizeBriefSpends,
     BriefWaitSpends, ManagedSpends, SettleBriefSpends DEF Serve, ServeBrief

-------------------------------------------------------------------------------
\* Every step keeps the three books.
LEMMA RunAside ==
  ASSUME IInv, SpendBook, UNCHANGED <<spendVars, gridVars, listingVars, brief, turn, bills, wanted>>
  PROVE  SpendBook'
<1>1. UNCHANGED <<ledger, request, at, started, grid, point, view, sold, void, listing, reported, charged,
                  brief, turn, bills, wanted>>
  BY DEF spendVars, gridVars, listingVars
<1>. QED  BY <1>1, GridAside, ListingAside, BriefAside DEF SpendBook

\* Steps of one worker outside its dispatch.
LEMMA OutsideSpends ==
  ASSUME IInv, SpendBook, UNCHANGED <<ledger, request, brief, bills, wanted, gridVars, listingVars>>,
         NEW w \in Workers, NEW s \in Outside \cup {"fenced"}, at' = [at EXCEPT ![w] = s],
         \A v \in Workers : v # w => turn'[v] = turn[v],
         \A v \in Workers : v # w /\ at[v] \in Dispatching => started' = started,
         s = "fenced" => ~started'
  PROVE  SpendBook'
<1>1. UNCHANGED <<grid, point, view, sold, void, listing, reported, charged>>
  BY DEF gridVars, listingVars
<1>2. at'[w] = s /\ \A v \in Workers : v # w => at'[v] = at[v]
  BY DEF IInv, TypeOK, SpendTypes
<1>3. s \notin Serving /\ s \notin {"landed", "naming"} /\ (s # "fenced" => s \notin Dispatching)
  BY DEF Outside, Serving, Dispatching
<1>4. GridSpend'
  BY <1>1, <1>2, <1>3, GridAside DEF SpendBook
<1>5. ListingSpend'
  BY <1>1, <1>2, <1>3, ListingAside DEF SpendBook
<1>6. BriefSpend'
  BY <1>2, <1>3, BriefAside DEF SpendBook
<1>. QED  BY <1>4, <1>5, <1>6 DEF SpendBook

\* What a step does to one entry it does to no other.
LEMMA OneEntry ==
  ASSUME IInv, NEW k \in Kinds,
         \/ ledger' = ledger
         \/ \E c : ledger' = [ledger EXCEPT ![k].reserved = c]
         \/ \E c : ledger' = Settled(k, c)
         \/ ledger' = Released(k)
  PROVE  \A j \in Kinds : j # k => ledger'[j] = ledger[j]
BY DEF Settled, Released, IInv, TypeOK, SpendTypes

LEMMA RequestSpends == ASSUME IInv, SpendBook, RequestStep PROVE SpendBook'
<1>. USE DEF SpendBook
<1>1. UNCHANGED <<at, started, brief, turn, bills, wanted>>
  BY DEF RequestStep, Reserve, SaveGrid, SaveListing, SaveRequest, LoseRequest, briefVars
<1>2. CASE wanted = "grid" /\ Reserve("grid", Estimate, Site) /\ UNCHANGED <<gridVars, listingVars>>
  <2>1. \A j \in Kinds : j # "grid" => ledger'[j] = ledger[j]
    BY <1>2, OneEntry, Names DEF Reserve
  <2>2. GridSpend'
    BY <1>1, <1>2, ReserveGridSpends
  <2>. QED  BY <1>1, <1>2, <2>1, <2>2, Names, ListingAside, BriefAside DEF listingVars
<1>3. CASE wanted = "listing" /\ Reserve("listing", 1, Shop) /\ UNCHANGED <<gridVars, listingVars>>
  <2>1. \A j \in Kinds : j # "listing" => ledger'[j] = ledger[j]
    BY <1>3, OneEntry, Names DEF Reserve
  <2>2. ListingSpend'
    BY <1>1, <1>3, ReserveListingSpends
  <2>. QED  BY <1>1, <1>3, <2>1, <2>2, Names, GridAside, BriefAside DEF gridVars
<1>4. CASE wanted = "grid" /\ SaveGrid /\ UNCHANGED listingVars
  BY <1>1, <1>4, SaveGridSpends, ListingAside, BriefAside DEF listingVars, SaveGrid, SaveRequest
<1>5. CASE wanted = "listing" /\ SaveListing /\ UNCHANGED gridVars
  BY <1>1, <1>5, SaveListingSpends, GridAside, BriefAside DEF gridVars, SaveListing, SaveRequest
<1>6. CASE LoseRequest /\ UNCHANGED <<gridVars, listingVars>>
  BY <1>1, <1>6, GridAside, ListingAside, BriefAside DEF gridVars, listingVars, LoseRequest
<1>. QED  BY <1>2, <1>3, <1>4, <1>5, <1>6 DEF RequestStep

LEMMA WorkerSpends ==
  ASSUME IInv, SpendBook, NEW w \in Workers,
         \/ Claim(w) \/ Kill(w)
         \/ /\ TakeFence(w) \/ FenceBusy(w) \/ Report(w)
            /\ DrainRest /\ UNCHANGED <<gridVars, listingVars>>
  PROVE  SpendBook'
<1>1. UNCHANGED <<ledger, request, brief, bills, wanted, gridVars, listingVars>>
  BY DEF Claim, ClaimJob, Kill, KillDrain, TakeFence, FenceBusy, Report, DrainRest, briefVars
<1>2. \A v \in Workers : v # w => turn'[v] = turn[v]
  BY DEF Claim, Kill, TakeFence, FenceBusy, Report, DrainRest, briefVars, IInv, TypeOK, BriefTypes
<1>3. ASSUME NEW v \in Workers, v # w, at[v] \in Dispatching PROVE started' = started
  <2>1. fence = v /\ fence # Nobody
    BY <1>3, Names DEF IInv, Fenced
  <2>. QED  BY <1>3, <2>1 DEF Claim, ClaimJob, Kill, KillDrain, TakeFence, FenceBusy, Report
<1>4. PICK s \in Outside \cup {"fenced"} : at' = [at EXCEPT ![w] = s] /\ (s = "fenced" => ~started')
  BY DEF Claim, ClaimJob, Kill, KillDrain, TakeFence, FenceBusy, Report, Outside
<1>. QED  BY <1>1, <1>2, <1>3, <1>4, OutsideSpends

\* A dispatch touches the entry of its own run alone.
LEMMA DispatchAside ==
  ASSUME IInv, SpendBook, NEW w \in Workers, at[w] \in Dispatching, NEW s \in After, at' = [at EXCEPT ![w] = s],
         DrainRest, Spends, NEW k \in {"grid", "listing"}, wanted = k,
         \A j \in Kinds : j # k => ledger'[j] = ledger[j]
  PROVE  /\ BriefSpend'
         /\ k = "grid" /\ UNCHANGED listingVars => ListingSpend'
         /\ k = "listing" /\ UNCHANGED gridVars => GridSpend'
<1>1. at'[w] \notin Serving /\ \A v \in Workers : v # w => at'[v] = at[v]
  BY DEF After, Dispatching, Serving, IInv, TypeOK, SpendTypes
<1>2. UNCHANGED <<brief, bills, turn, request, wanted>>
  BY DEF DrainRest, briefVars, Spends
<1>3. BriefSpend'
  BY <1>1, <1>2, Names, BriefAside DEF SpendBook
<1>4. k = "grid" /\ UNCHANGED listingVars => ListingSpend'
  BY <1>2, Names, ListingAside DEF SpendBook, listingVars
<1>5. k = "listing" /\ UNCHANGED gridVars => GridSpend'
  BY <1>2, Names, GridAside DEF SpendBook, gridVars
<1>. QED  BY <1>3, <1>4, <1>5

LEMMA GridDispatchSpends ==
  ASSUME SpendBook, NEW w \in Workers, GridTurn(w), DispatchGrid(w)
  PROVE  SpendBook'
<1>. USE DEF GridTurn
<1>1. \A j \in Kinds : j # "grid" => ledger'[j] = ledger[j]
  <2>1. \/ ledger' = ledger
        \/ \E c : ledger' = Settled("grid", c)
        \/ ledger' = Released("grid")
    BY DEF DispatchGrid, EnterGrid, GridJobLost, GridDenied, GridUnavailable, GridCalls, GridSubmits, GridSaves,
       ReadTotals, WriteTotals, SettleAmbiguous, CloseAmbiguous, DenyGrid, NameDenied, SettledTotals
  <2>. QED  BY <2>1, OneEntry, Names
<1>2. at[w] \in Dispatching /\ Spends /\ \E s \in After : at' = [at EXCEPT ![w] = s]
  BY DEF DispatchGrid, EnterGrid, GridJobLost, GridDenied, GridUnavailable, GridCalls, GridSubmits, GridSaves,
     ReadTotals, WriteTotals, SettleAmbiguous, CloseAmbiguous, DenyGrid, NameDenied, Goes, Leave, Dispatching, After
<1>. QED  BY <1>1, <1>2, DispatchAside, DispatchGridSpends DEF SpendBook

LEMMA ListingDispatchSpends ==
  ASSUME SpendBook, NEW w \in Workers, ListingTurn(w), DispatchListing(w)
  PROVE  SpendBook'
<1>. USE DEF ListingTurn
<1>1. \A j \in Kinds : j # "listing" => ledger'[j] = ledger[j]
  <2>1. \/ ledger' = ledger
        \/ \E c : ledger' = Settled("listing", c)
        \/ ledger' = Released("listing")
    BY DEF DispatchListing, EnterListing, ListingJobLost, ListingDenied, ListingCalls, ListingSearches,
       ListingSaves, CompleteListing, SettleListing, FailListing
  <2>. QED  BY <2>1, OneEntry, Names
<1>2. at[w] \in Dispatching /\ Spends /\ \E s \in After : at' = [at EXCEPT ![w] = s]
  BY DEF DispatchListing, EnterListing, ListingJobLost, ListingDenied, ListingCalls, ListingSearches,
     ListingSaves, CompleteListing, SettleListing, FailListing, Goes, Leave, Dispatching, After
<1>. QED  BY <1>1, <1>2, DispatchAside, DispatchListingSpends DEF SpendBook

LEMMA BriefRequestSpends == ASSUME IInv, SpendBook, NEW w \in Workers, Serve(w) PROVE SpendBook'
<1>1. UNCHANGED <<gridVars, listingVars, request, started, wanted>> /\ wanted = "brief" /\ Key(w) \in BriefKeys
  BY Booked DEF Serve, ServeBrief, AskBrief, OpenBrief, FallBack, ReserveBrief, AuthorizeBrief, AskPrivately,
     PrivateAnswers, PrivateFails, AskManaged, ManagedTryFails, ManagedAnswers, RecordFallback, SettleBrief, EndBrief,
     BriefSpends, Spends
<1>2. \A j \in Kinds : j # Key(w) => ledger'[j] = ledger[j]
  <2>1. \/ ledger' = ledger
        \/ \E c : ledger' = [ledger EXCEPT ![Key(w)].reserved = c]
        \/ \E c : ledger' = Settled(Key(w), c)
        \/ ledger' = Released(Key(w))
    BY DEF Serve, ServeBrief, AskBrief, OpenBrief, FallBack, ReserveBrief, AuthorizeBrief, AskPrivately,
     PrivateAnswers, PrivateFails, AskManaged, ManagedTryFails, ManagedAnswers, RecordFallback, SettleBrief, EndBrief
  <2>. QED  BY <1>1, <2>1, OneEntry, Names
<1>3. ledger'["grid"] = ledger["grid"] /\ ledger'["listing"] = ledger["listing"]
  BY <1>1, <1>2, Names
<1>. QED
  BY <1>1, <1>3, ServeSpends, GridAside, ListingAside DEF SpendBook, gridVars, listingVars

LEMMA RefreshKeepsSpend == ASSUME IInv, SpendBook, Refresh PROVE SpendBook'
<1>1. UNCHANGED <<request, at, listing, reported, charged, brief, bills, turn, wanted>>
  BY DEF Refresh, RefreshGrid, Spends, listingVars, briefVars
<1>2. \A j \in Kinds : j # "grid" => ledger'[j] = ledger[j]
  BY OneEntry, Names DEF Refresh, RefreshGrid, SettledTotals
<1>. QED  BY <1>1, <1>2, Names, RefreshSpends, ListingAside, BriefAside DEF SpendBook

LEMMA SpendKept == ASSUME IInv, SpendBook, [Next]_vars PROVE SpendBook'
<1>1. CASE AllowanceStep \/ BillingStep \/ Own \/ UNCHANGED vars
  BY <1>1, RunAside DEF AllowanceStep, BillingStep, Own, SetCanary, vars, runVars, briefVars
<1>2. CASE RequestStep
  BY <1>2, RequestSpends
<1>3. ASSUME NEW w \in Workers, Claim(w) \/ Drain(w) \/ Kill(w) \/ Serve(w) PROVE SpendBook'
  <2>1. CASE Claim(w) \/ Kill(w)
    BY <2>1, WorkerSpends
  <2>2. CASE Serve(w)
    BY <2>2, BriefRequestSpends
  <2>3. CASE Drain(w)
    <3>1. DrainRest
      BY <2>3 DEF Drain, DrainRest
    <3>2. CASE wanted = "grid" /\ DispatchGrid(w) /\ UNCHANGED listingVars
      BY <3>1, <3>2, GridDispatchSpends DEF GridTurn
    <3>3. CASE wanted = "listing" /\ DispatchListing(w) /\ UNCHANGED gridVars
      BY <3>1, <3>3, ListingDispatchSpends DEF ListingTurn
    <3>. QED  BY <2>3, <3>1, <3>2, <3>3, WorkerSpends DEF Drain
  <2>. QED  BY <1>3, <2>1, <2>2, <2>3
<1>4. CASE Refresh
  BY <1>4, RefreshKeepsSpend
<1>. QED  BY <1>1, <1>2, <1>3, <1>4 DEF Next

LEMMA SpendAlways == Spec => [](IInv /\ SpendBook)
<1>1. Init => IInv /\ SpendBook
  BY Initially, SpendInitially
<1>2. IInv /\ SpendBook /\ [Next]_vars => (IInv /\ SpendBook)'
  BY NextKeeps, SpendKept
<1>. QED  BY <1>1, <1>2, PTL DEF Spec

-------------------------------------------------------------------------------
\* A grid that reserved nothing, or released it, bought nothing that counts.
LEMMA GridCovered ==
  ASSUME IInv, GridSpend PROVE Exposure("grid") >= Cardinality(Bought \ void)
<1>1. Bought \ void \subseteq Points /\ "grid" \in Kinds
  BY Names DEF Bought
<1>2. /\ ledger \in Ledgers /\ GridEntry.released \in BOOLEAN /\ GridEntry.reserved \in {0, Estimate}
  BY GridEntryTyped DEF GridSpend, GridLedger
<1>3. Estimate \in Nat /\ Cardinality(Bought \ void) \in Nat /\ Cardinality(Bought \ void) <= Estimate
  BY <1>1, EstimateNat, GridSizes
<1>4. Bought \ void = {} => Cardinality(Bought \ void) = 0
  BY FS_EmptySet
<1>5. CASE GridEntry.settled = {}
  <2>1. CASE GridEntry.released
    <3>1. Bought \ void = {}
      BY <2>1 DEF GridSpend, GridLedger
    <3>2. Exposure("grid") = 0
      BY <1>1, <1>2, <1>5, <2>1, Exposures DEF GridEntry
    <3>. QED  BY <1>4, <3>1, <3>2
  <2>2. CASE ~GridEntry.released /\ GridEntry.reserved = Estimate
    <3>1. Exposure("grid") = Estimate
      BY <1>1, <1>2, <1>5, <2>2, Exposures DEF GridEntry
    <3>. QED  BY <1>3, <3>1
  <2>3. CASE ~GridEntry.released /\ GridEntry.reserved # Estimate
    <3>1. grid = "none"
      BY <2>3 DEF GridSpend, GridLedger, IInv, Wanted
    <3>2. With("queued") = Points
      BY <3>1 DEF GridSpend, GridPoints
    <3>3. \A p \in Points : sold[p] = 0
      BY <3>1, <3>2 DEF IInv, GridBook
    <3>4. Bought \ void = {}
      BY <3>3 DEF Bought
    <3>5. Exposure("grid") = 0
      BY <1>1, <1>2, <1>5, <2>3, Exposures DEF GridEntry
    <3>. QED  BY <1>4, <3>4, <3>5
  <2>. QED  BY <2>1, <2>2, <2>3
<1>6. CASE GridEntry.settled = {Estimate}
  <2>1. CASE GridEntry.released
    <3>1. Bought \ void = {}
      BY <2>1 DEF GridSpend, GridLedger
    <3>2. Exposure("grid") = Estimate - GridEntry.reserved
      BY <1>1, <1>2, <1>3, <1>6, <2>1, Exposures DEF GridEntry
    <3>. QED  BY <1>2, <1>3, <1>4, <3>1, <3>2
  <2>2. CASE ~GridEntry.released
    <3>1. Exposure("grid") = Estimate
      BY <1>1, <1>2, <1>3, <1>6, <2>2, Exposures DEF GridEntry
    <3>. QED  BY <1>3, <3>1
  <2>. QED  BY <1>2, <2>1, <2>2
<1>7. CASE ~(GridEntry.settled \subseteq {Estimate})
  <2>1. /\ ~GridEntry.released /\ With("queued") = {} /\ With("pending") = {}
        /\ GridEntry.settled = {Cardinality(With("done"))}
    BY <1>7 DEF GridSpend, GridLedger
  <2>2. \A p \in Bought \ void : point[p] # "failed"
    BY <1>7 DEF GridSpend, GridLedger
  <2>3. Bought \ void \subseteq With("done") /\ With("done") \subseteq Points
    BY <2>1, <2>2 DEF With, Bought, IInv, TypeOK, GridTypes
  <2>4. Cardinality(With("done")) \in Nat /\ Cardinality(Bought \ void) <= Cardinality(With("done"))
    BY <2>3, GridSizes
  <2>5. Exposure("grid") = Cardinality(With("done"))
    BY <1>1, <1>2, <2>1, <2>4, Exposures DEF GridEntry
  <2>. QED  BY <1>3, <2>4, <2>5
<1>. QED  BY <1>5, <1>6, <1>7

LEMMA ListingCovered ==
  ASSUME IInv, ListingSpend, charged # <<>> PROVE Exposure("listing") >= 1
<1>1. ListingEntry.released = FALSE /\ "listing" \in Kinds /\ ledger \in Ledgers
  BY Names, ListingEntryTyped DEF ListingSpend, ListingLedger
<1>2. PICK c \in Nat \ {0} : ListingEntry.settled \subseteq {c}
  BY DEF ListingSpend, ListingLedger
<1>3. CASE ListingEntry.settled = {}
  <2>1. listing \notin {"none", "queued"}
    BY DEF IInv, ListingBook
  <2>2. request # "none" /\ wanted = "listing"
    BY <2>1 DEF IInv, Wanted, TypeOK, ListingTypes
  <2>3. ListingEntry.reserved = 1
    BY <2>2 DEF ListingSpend, ListingLedger
  <2>4. Exposure("listing") = 1
    BY <1>1, <1>3, <2>3, Exposures DEF ListingEntry
  <2>. QED  BY <2>4
<1>4. CASE ListingEntry.settled = {c}
  <2>1. Exposure("listing") = c
    BY <1>1, <1>4, Exposures DEF ListingEntry
  <2>. QED  BY <2>1
<1>. QED  BY <1>2, <1>3, <1>4

LEMMA BriefCovered ==
  ASSUME IInv, BriefSpend, NEW k \in BriefKeys
  PROVE  /\ bills[k].priced > 0 =>
              Exposure(k) = IF Terminal(k) THEN bills[k].priced ELSE BriefEstimate
         /\ bills[k].sold > 0 /\ bills[k].priced = 0 =>
              Exposure(k) = BriefEstimate \/ ledger[k].released
         /\ brief[k] = "validated" => Exposure(k) = bills[k].priced
<1>1. /\ k \in Kinds /\ ledger \in Ledgers /\ ledger[k].released \in BOOLEAN /\ KeySpend(k)
      /\ bills[k].priced \in Nat /\ BriefEstimate \in Nat
  BY Names, BriefAssumption DEF IInv, TypeOK, SpendTypes, BriefTypes, Ledgers, BriefSpend
<1>2. CASE bills[k].priced > 0
  <2>1. CASE ledger[k].settled = {}
    BY <1>1, <1>2, <2>1, Exposures DEF KeySpend, Terminal
  <2>2. CASE ledger[k].settled # {}
    <3>1. ledger[k].settled = {bills[k].priced} /\ ~ledger[k].released
      BY <1>1, <1>2, <2>2 DEF KeySpend
    <3>2. Exposure(k) = bills[k].priced
      BY <1>1, <3>1, Exposures
    <3>. QED  BY <1>2, <2>2, <3>2 DEF Terminal
  <2>. QED  BY <2>1, <2>2
<1>3. CASE bills[k].priced = 0
  <2>1. ASSUME bills[k].sold > 0, ~ledger[k].released PROVE Exposure(k) = BriefEstimate
    <3>1. CASE ledger[k].settled = {}
      BY <1>1, <2>1, <3>1, Exposures DEF KeySpend
    <3>2. CASE ledger[k].settled # {}
      <4>1. ledger[k].settled = {BriefEstimate}
        BY <1>1, <1>3, <3>2 DEF KeySpend
      <4>. QED  BY <1>1, <2>1, <4>1, Exposures
    <3>. QED  BY <3>1, <3>2
  <2>2. ASSUME brief[k] = "validated" PROVE Exposure(k) = 0
    BY <1>1, <1>3, <2>2, Exposures DEF KeySpend
  <2>. QED  BY <1>3, <2>1, <2>2
<1>. QED  BY <1>1, <1>2, <1>3

\* The ledger counts what was or may have been bought for a grid's points, and for
\* a listing check its estimate until it is completed and then its cost, through
\* kills, lost answers, retries and refreshes.  A brief counts its estimate and then
\* the price of its prompt's answer; a post of it that was sold without an answer
\* counts at most as the estimate, and not at all once the entry is released.
THEOREM Charged == Spec => []SpendIsCharged
<1>1. ASSUME IInv, SpendBook PROVE SpendIsCharged
  <2>1. listing = "completed" => charged # <<>> /\ ledger["listing"].settled = {charged[1]}
    BY <1>1 DEF SpendBook, ListingSpend, ListingLedger, ListingEntry
  <2>. QED
    BY <1>1, <2>1, GridCovered, ListingCovered, BriefCovered DEF SpendIsCharged, SpendBook, Bought
<1>. QED  BY <1>1, SpendAlways, PTL
===============================================================================
