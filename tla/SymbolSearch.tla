----------------------------- MODULE SymbolSearch -----------------------------
(***************************************************************************)
(* What the omnibox answers (search.py): the table of symbols, the index of *)
(* it that is kept in memory (universe.py) with the threads that fill both  *)
(* (app.py), and the answer with its fused lists and its pins.              *)
(***************************************************************************)
EXTENDS Orders, FiniteSetsExt, SequencesExt, Functions

CONSTANTS
  SUPPLEMENT, AssetLists,     (* symbols that are built in; per sync          *)
  SyncThreads,                (* "refresh" after a sign-in, "post" on demand  *)
  Queries,                    (* what is typed: see Answer                    *)
  RRF_K, Scale, LIMIT,        (* Scale: a multiple of every RRF_K + rank      *)
  QUOTA, PER_PAGE, MaxPage,   (* of the results page; MaxPage is a bound      *)
  HINT_SLACK                  (* symbols more than those that are built in up *)
                              (* to which none count as synced                *)

(* Numbers, and room for a page and a ticker.                                *)
ASSUME RoomAssumption ==
  /\ {RRF_K, Scale, PER_PAGE, MaxPage, HINT_SLACK} \subseteq Nat /\ {LIMIT, QUOTA} \subseteq Nat \ {0, 1}
  /\ IsFiniteSet(SUPPLEMENT)

(* What a query finds comes in lists, an article once; a page is named or    *)
(* not, and built under that name or not.                                    *)
IsList(s) == s \in Seq(ToSet(s))
ASSUME QueriesAssumption ==
  \A q \in Queries :
    /\ IsList(q.prefix) /\ IsList(q.fuzzy) /\ IsList(q.sure) /\ IsList(q.news) /\ IsList(q.latest)
    /\ IsList(q.pages) /\ IsList(q.help) /\ IsList(q.web) /\ IsList(q.webnews)
    /\ \A i, j \in DOMAIN q.news : q.news[i] = q.news[j] => i = j
    /\ q.named = <<>> \/ (Len(q.named) = 2 /\ q.named[2] \in BOOLEAN)

VARIABLES
  assets,   (* the synced rows of the table of symbols                        *)
  universe, (* the symbols of the index in memory                             *)
  syncing,  (* [thread -> [at, got]]                                          *)
  found     (* the search that is under way, [query, page, at, hit, sure,     *)
            (* prefix, fuzzy, moved], or was answered last, [query, page, at, *)
            (* hit, rows, web, featured, moved]; page 0 is the list below the *)
            (* omnibox; moved: whether the index became another meanwhile     *)
symbolVars == <<assets, universe, syncing, found>>

Resting == [at |-> "idle", got |-> {}]

-----------------------------------------------------------------------------
(* kick_market_refresh and universe_sync.  The network is drained before the *)
(* transaction that replaces the table; load reads it and swaps afterwards.  *)
(* The refresh skips a sync that is fresh.                                   *)
Moves(t, at, got) == syncing' = [syncing EXCEPT ![t] = [at |-> at, got |-> got]]
Starts(t) ==
  /\ syncing[t].at = "idle"
  /\ \E at \in IF t = "refresh" /\ assets # {} THEN {"download", "load"} ELSE {"download"} : Moves(t, at, {})
  /\ UNCHANGED <<assets, universe, found>>
Downloads(t) ==
  /\ syncing[t].at = "download" /\ \E l \in AssetLists : Moves(t, "replace", l)
  /\ UNCHANGED <<assets, universe, found>>
(* Mutant: the table is emptied in a transaction of its own.                 *)
SwapsAssets_InTwo(t) ==
  /\ syncing[t].at = "replace"
  /\ IF assets # {} THEN assets' = {} /\ UNCHANGED syncing ELSE assets' = syncing[t].got /\ Moves(t, "load", {})
  /\ UNCHANGED <<universe, found>>

SwapsAssets(t) ==
  /\ syncing[t].at = "replace" /\ assets' = syncing[t].got /\ Moves(t, "load", {})
  /\ UNCHANGED <<universe, found>>
Reads(t) ==
  /\ syncing[t].at = "load" /\ Moves(t, "swap", assets \cup SUPPLEMENT)
  /\ UNCHANGED <<assets, universe, found>>
Swaps(t) ==
  /\ syncing[t].at = "swap" /\ universe' = syncing[t].got
  /\ Moves(t, "idle", {})
  /\ found' = IF found.at = "done" THEN found ELSE [found EXCEPT !.moved = @ \/ universe' # universe]
  /\ UNCHANGED assets
BrokerFails(t) ==
  /\ syncing[t].at = "download" /\ Moves(t, "idle", {})
  /\ UNCHANGED <<assets, universe, found>>

-----------------------------------------------------------------------------
(* query: what is typed is [kind, token, prefix, fuzzy, sure, news, latest,  *)
(* pages, help, named, web, webnews]: the symbol it spells, the symbols that *)
(* match it by each of the rules and the one it surely means, the articles   *)
(* with its words and those about its symbol, pages, help sections, the page *)
(* it names with the strength of the claim, and what the open web returns.   *)
Row(kind, x) == [kind |-> kind, of |-> x]
RowsOf(kind, s) == [i \in DOMAIN s |-> Row(kind, s[i])]
ExactOf(q, hit) == IF hit THEN <<Row("symbol", q.token)>> ELSE <<>>
NamedBy(q) == IF q.named = <<>> THEN <<>> ELSE <<Row("page", q.named[1])>>

(* _rrf_weighted: every place in a list adds weight / (k + rank + 1); equals  *)
(* keep the order of their first appearance.                                 *)
RowAt(groups, p) == groups[p[1]].rows[p[2]]
PlacesIn(groups) == UNION {{g} \X DOMAIN groups[g].rows : g \in DOMAIN groups}
Earlier(p, q) == p[1] < q[1] \/ (p[1] = q[1] /\ p[2] < q[2])
Shares(groups, r) ==
  [p \in {q \in PlacesIn(groups) : RowAt(groups, q) = r} |-> groups[p[1]].weight * (Scale \div (RRF_K + p[2]))]
FirstsIn(groups) ==
  {p \in PlacesIn(groups) : \A q \in PlacesIn(groups) : Earlier(q, p) => RowAt(groups, q) # RowAt(groups, p)}
Scored(groups) ==
  {[at |-> p, score |-> FoldFunction(+, 0, Shares(groups, RowAt(groups, p)))] : p \in FirstsIn(groups)}
Fused(groups) ==
  LET scored == Scored(groups)
      order == SortedBy([x \in scored |->
                 {y \in scored : y.score > x.score \/ (y.score = x.score /\ Earlier(y.at, x.at))}])
  IN [n \in DOMAIN order |-> RowAt(groups, order[n].at)]
Equal(lists) == [i \in DOMAIN lists |-> [rows |-> lists[i], weight |-> 1]]

(* Mutant: the ticker leads, whatever the query names.                       *)
Pins_TickerFirst(q, hit) == ExactOf(q, hit) \o NamedBy(q)

(* A page whose name it is, then the ticker, then a page that is only meant; *)
(* a query of several words is no ticker.                                    *)
Pins(q, hit) ==
  IF q.named # <<>> /\ q.named[2] THEN NamedBy(q) \o ExactOf(q, hit) ELSE ExactOf(q, hit) \o NamedBy(q)
PinsOf(q, hit) == IF q.kind = "plain" THEN Pins(q, hit) ELSE NamedBy(q)
Pinned(rows, pins) == pins \o Only(rows, ToSet(rows) \ ToSet(pins))

(* A search looks into the index time and again, and the index may be        *)
(* swapped in between: for the symbol that is spelled, for the one that is   *)
(* surely meant (the page only), by prefix, by likeness.  Then it waits for  *)
(* the articles of a symbol or for the open web, and goes on with what it    *)
(* holds.  Searches share nothing but the index: one is followed.            *)
Seeks(q, n) ==
  /\ found.at = "done"
  /\ found' = [query |-> q, page |-> n, at |-> "sure", hit |-> q.token \in universe,
               sure |-> <<>>, prefix |-> <<>>, fuzzy |-> <<>>, moved |-> FALSE]
  /\ UNCHANGED <<assets, universe, syncing>>
SurestOf(s) == SubSeq(s, 1, Min({1, Len(s)}))
LooksUp ==
  /\ \/ found.at = "sure" /\ found' = [found EXCEPT !.at = "prefix", !.sure = SurestOf(Only(found.query.sure, universe))]
     \/ found.at = "prefix" /\ found' = [found EXCEPT !.at = "fuzzy", !.prefix = Only(found.query.prefix, universe)]
     \/ found.at = "fuzzy" /\ found' = [found EXCEPT !.at = "out", !.fuzzy = Only(found.query.fuzzy, universe)]
  /\ UNCHANGED <<assets, universe, syncing>>
Answered(f, rows, web, featured) ==
  [query |-> f.query, page |-> f.page, at |-> "done", hit |-> f.hit, rows |-> rows, web |-> web,
   featured |-> featured, moved |-> f.moved]

(* query: pins the symbol that it found at first; the omnibox asks at last   *)
(* whether anything was ever synced.                                         *)
RowsFor(f) ==
  LET q == f.query
      local == Fused(Equal(<<RowsOf("symbol", f.prefix), RowsOf("symbol", f.fuzzy),
                             RowsOf("news", q.news), RowsOf("page", q.pages), RowsOf("help", q.help)>>))
  IN CASE q.kind = "news" /\ f.hit -> <<Row("news of", q.token)>> \o ExactOf(q, TRUE) \o RowsOf("news", q.news)
       [] q.kind = "opt" /\ f.hit -> <<Row("opt", q.token)>> \o ExactOf(q, TRUE)
       [] OTHER -> Pinned(Fused(<<[rows |-> local, weight |-> 2], [rows |-> RowsOf("web", q.web), weight |-> 1]>>),
                          PinsOf(q, f.hit))
NoneSynced == Cardinality(universe) <= Cardinality(SUPPLEMENT) + HINT_SLACK
Answer(f) ==
  IF RowsFor(f) = <<>> /\ NoneSynced THEN <<Row("page", "accounts")>>
  ELSE SubSeq(RowsFor(f), 1, Min({LIMIT, Len(RowsFor(f))}))
Searches ==
  /\ found.at = "out" /\ found.page = 0
  /\ found' = Answered(found, Answer(found), <<>>, <<>>)
  /\ UNCHANGED <<assets, universe, syncing>>

(* page: the symbol of the chart above the results, the section of what is   *)
(* in the house, on the first page only, and the section of the web, which   *)
(* only the first page asks.  It pins the symbol that it finds after the     *)
(* web was asked (search.py:316).                                            *)
Featured(f) == IF f.hit THEN <<f.query.token>> ELSE f.sure
InHouse(f) ==
  LET q == f.query
      symbols == IF q.kind = "news" THEN <<>> ELSE f.prefix \o Only(f.fuzzy, ToSet(f.fuzzy) \ ToSet(f.prefix))
      news == IF q.kind = "news" /\ f.hit THEN q.latest
              ELSE q.news \o IF Featured(f) = <<>> THEN <<>>
                              ELSE Only(q.latest, ToSet(q.latest) \ ToSet(q.news))
  IN Pinned(Fused(Equal(<<RowsOf("symbol", symbols), RowsOf("news", news),
                          RowsOf("page", q.pages), RowsOf("help", q.help)>>)), PinsOf(q, q.token \in universe))
OpenWeb(f) ==
  Fused(Equal(<<RowsOf("web", f.query.web \o
                                IF f.query.kind = "news" \/ Featured(f) # <<>> THEN f.query.webnews ELSE <<>>)>>))
PageOf(rows, n, size) == SubSeq(rows, (n - 1) * size + 1, Min({n * size, Len(rows)}))
TurnsTo ==
  /\ found.at = "out" /\ found.page > 0
  /\ found' = Answered(found,
                 IF found.page = 1 THEN SubSeq(InHouse(found), 1, Min({QUOTA, Len(InHouse(found))})) ELSE <<>>,
                 IF found.page = 1 THEN PageOf(OpenWeb(found), 1, PER_PAGE) ELSE <<>>,
                 Featured(found))
  /\ UNCHANGED <<assets, universe, syncing>>

SymbolInit ==
  /\ assets = {} /\ universe = SUPPLEMENT /\ syncing = [t \in SyncThreads |-> Resting]
  /\ found = [at |-> "done"]
SymbolNext ==
  \/ \E t \in SyncThreads : Starts(t) \/ Downloads(t) \/ SwapsAssets(t) \/ Reads(t) \/ Swaps(t) \/ BrokerFails(t)
  \/ \E q \in Queries, n \in 0 .. MaxPage : Seeks(q, n)
  \/ LooksUp \/ Searches \/ TurnsTo

-----------------------------------------------------------------------------
(* Whatever order two syncs, their loads and their swaps come in, the index  *)
(* that is swapped in is the whole of one sync with the built-in symbols,    *)
(* and never the table in the middle of being replaced.                      *)
UniverseIsWhole == [][ universe' \in {l \cup SUPPLEMENT : l \in AssetLists} ]_universe

(* A name leads, in the list and on the page: of a page that is built, else  *)
(* of a ticker that is known, to the list when it began and to the page when *)
(* it ends; both are shown when both are meant, nothing is shown twice, and  *)
(* a list is only empty when something could be found.  On the page the web  *)
(* keeps to its own section.  A chart is of the ticker that was spelled, if  *)
(* it was known when the search began; and unless the index became another   *)
(* meanwhile, it is of a symbol that is known and of the ticker that leads.  *)
PageNamed(q) == IF q.named = <<>> THEN {} ELSE {Row("page", q.named[1])}
LeadWithNamed(q, known, rows) ==
  /\ q.named # <<>> /\ q.named[2] => Head(rows) \in PageNamed(q)
  /\ known =>
       /\ {Row("symbol", q.token)} \cup PageNamed(q) \subseteq {rows[i] : i \in 1 .. Min({2, Len(rows)})}
       /\ (q.named = <<>> \/ ~q.named[2]) => rows[1] = Row("symbol", q.token)
AnswerIsInOrder(f) ==
  LET plain == f.query.kind = "plain" /\ f.page <= 1
      known == IF f.page = 0 THEN f.hit ELSE f.query.token \in universe
  IN /\ \A i, j \in DOMAIN f.rows : f.rows[i] = f.rows[j] => i = j
     /\ plain => LeadWithNamed(f.query, known, f.rows)
     /\ (f.page = 0 /\ f.rows = <<>> => universe \ SUPPLEMENT # {})
     /\ f.page > 0 => (\A i \in DOMAIN f.rows : f.rows[i].kind # "web") /\ (f.hit => f.featured = <<f.query.token>>)
     /\ ~f.moved => (f.hit <=> f.query.token \in universe) /\ ToSet(f.featured) \subseteq universe
NamesLead == [][found' # found /\ found'.at = "done" => AnswerIsInOrder(found')]_found

(* What does not hold, and TLC refutes: that the ticker which leads a page   *)
(* is the one of its chart.  The index is read for the chart before the open *)
(* web is asked and for the pins afterwards (search.py:254, 316), and a sync *)
(* in between brings a ticker that leads without a chart, or a chart of one  *)
(* that is gone.                                                             *)
ChartLeads ==
  [][found' # found /\ found'.at = "done" /\ found'.page = 1 /\ found'.query.kind = "plain" =>
       (found'.query.token \in universe <=> found'.featured = <<found'.query.token>>)]_found
=============================================================================
