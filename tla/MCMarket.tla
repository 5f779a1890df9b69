------------------------------ MODULE MCMarket ------------------------------
(***************************************************************************)
(* What the backend has of the market and its providers: the live chain of *)
(* an underlying, a page of futures options, the pricing of puts, the news, *)
(* the symbols, a chart, the keyless feeds, the brokerage accounts and the  *)
(* system key.  They share no state: a behaviour is one of them.            *)
(***************************************************************************)
EXTENDS ChainCache, FuturesChain, Expectancy, NewsStore, SymbolSearch, ChartBars,
        KeylessFeeds, Brokerage, SystemKey

VARIABLE part
marketVars == <<part, chainVars, page, insureVars, newsVars, symbolVars, chartVars, feedVars, brokerVars, keyVars>>

(* A chain of three contracts, one of them listed later; a window of one     *)
(* right inside a window of both.                                            *)
MCContract(e, k, r) == [exp |-> e, strike |-> k, right |-> r]
MCContracts == {MCContract(0, 5, "P"), MCContract(1, 5, "P"), MCContract(1, 6, "C")}
MCNewListings == {MCContract(1, 6, "C")}
MCWindow(hi, r) == [from |-> 0, to |-> 1, lo |-> 5, hi |-> hi, right |-> r]
MCWindows == {MCWindow(5, "P"), MCWindow(6, Either)}

(* Listings of two dates under three futures, one of which the chain does    *)
(* not name; ladders in order, longer, with holes, and of one right.         *)
MCListing(e, u, ks) == [exp |-> e, under |-> u, strikes |-> ks]
MCListings == {MCListing(1, "U", 0 .. 6), MCListing(1, "Z", {0, 2}), MCListing(3, "Z", {3, 4, 5}),
               MCListing(6, "U", {2, 9}), MCListing(6, "N", {1, 3})}
MCFutureExps == [u \in {"U", "Z"} |-> IF u = "U" THEN 2 ELSE 6]
MCStep(c, p) == [call |-> c, put |-> p]
MCLong == <<MCStep(60, 12), MCStep(52, 14), MCStep(44, 16), MCStep(36, 18), MCStep(28, 20), MCStep(20, 22)>>
MCLadders ==
  {MCLong, SubSeq(MCLong, 1, 5),
   <<MCStep(0, 12), MCStep(52, 14), MCStep(0, 16), MCStep(36, 18), MCStep(28, 20), MCStep(20, 0)>>,
   <<MCStep(0, 12), MCStep(0, 14), MCStep(0, 16), MCStep(0, 18)>>}

(* Puts of three days, with and without a bid, a delta and a session on the  *)
(* day they expire; a close that halves, which is no market's move.          *)
MCPut(d, e, k, delta, bid, ask, last) ==
  [date |-> d, exp |-> e, strike |-> k, right |-> "P", bid |-> bid, ask |-> ask, last |-> last, delta |-> delta]
MCChainOf ==
  [d \in {0, 3} |->
     CASE d = 0 -> {MCPut(0, 2, 95, 20, 2, 3, 0), MCPut(0, 3, 96, 20, 3, 4, 0), MCPut(0, 4, 90, 0, 0, 1, 1),
                    MCPut(0, 2, 94, 0, 1, 1, 0), MCPut(0, 3, 95, 20, 1, 2, 0)}
       [] d = 3 -> {MCPut(3, 5, 91, 20, 1, 2, 0)}]
MCCloseOf == (0 :> 100) @@ (1 :> 98) @@ (3 :> 50)
MCFormingOf == [d \in DOMAIN MCCloseOf |-> IF d = 3 THEN {90} ELSE {}]
MCStretches == {<<3, 3>>}
MCDteBands == <<<<1, 2>>, <<3, 6>>>>
MCDeltaBands == <<<<5, 15>>, <<15, 25>>, <<25, 35>>>>
MCOtmBands == <<<<1, 6>>, <<6, 16>>>>
MCDeltaAnchors == <<10, 20, 30>>
MCOtmAnchors == <<2, 5>>
MCScanDte == <<1, 4>>
MCBuckets == <<<<0, 5>>, <<5, 15>>, <<15, 25>>, <<25, 101>>>>
MCShape(delta, k, n, dte, strike) ==
  [right |-> "P", delta |-> delta, strike |-> k, dte |-> n, dtePct |-> dte, strikePct |-> strike]
MCShapes == {MCShape(20, 95, 3, 10, 0), MCShape(10, 95, 4, 10, 0), MCShape(0, 95, 3, 60, 4), MCShape(0, 93, 3, 0, 4)}

(* The second article is about a symbol.                                     *)
MCSymbolsOf == [a \in 1 .. 4 |-> IF a = 2 THEN {"A"} ELSE {}]

(* Two listings; queries that name a ticker, a page whole, a page by its     *)
(* acronym, a news page, a future, and nothing.                              *)
MCAssetLists == {{"A"}, {"A", "B"}}
MCQuery(kind, t, hits) ==
  [kind |-> kind, token |-> t, prefix |-> hits.prefix, fuzzy |-> hits.fuzzy, sure |-> hits.sure,
   news |-> hits.news, latest |-> hits.latest, webnews |-> hits.webnews,
   pages |-> hits.pages, help |-> hits.help, named |-> hits.named, web |-> hits.web]
MCNoHits == [prefix |-> <<>>, fuzzy |-> <<>>, sure |-> <<>>, news |-> <<>>, latest |-> <<>>, pages |-> <<>>, help |-> <<>>,
             named |-> <<>>, web |-> <<>>, webnews |-> <<>>]
MCQueries ==
  {MCQuery("plain", "A", [MCNoHits EXCEPT !.prefix = <<"A", "AB">>, !.fuzzy = <<"B", "A">>,
                                          !.news = <<1, 2>>, !.latest = <<2, 3>>, !.web = <<"w1", "w2">>,
                                          !.webnews = <<"w2", "w3">>]),
   MCQuery("plain", "B", [MCNoHits EXCEPT !.prefix = <<"B">>, !.news = <<3>>, !.pages = <<"data">>,
                                          !.help = <<"data">>, !.named = <<"data", TRUE>>, !.web = <<"w1">>]),
   MCQuery("plain", "A", [MCNoHits EXCEPT !.prefix = <<"A">>, !.pages = <<"api", "ai">>, !.named = <<"ai", FALSE>>]),
   MCQuery("news", "A", [MCNoHits EXCEPT !.news = <<1>>, !.latest = <<1, 3>>, !.sure = <<"B">>, !.pages = <<"news">>]),
   MCQuery("opt", "/ES", MCNoHits), MCQuery("plain", "none", MCNoHits)}

MCKeys == {[name |-> "paper", hosts |-> {"paper"}], [name |-> "live", hosts |-> {"live"}],
           [name |-> "both", hosts |-> {"live", "paper"}]}

-----------------------------------------------------------------------------
MCPage == CHOOSE p \in [chain : {{}}, ladder : {MCLong}] : TRUE
MarketInit ==
  /\ part \in {"chain", "page", "insure", "news", "symbols", "chart", "feeds", "broker", "key"}
  /\ part = "page" \/ page = MCPage
  /\ part = "chart" \/ keeping = TRUE
  /\ ChainInit /\ PageInit /\ (page.chain = {} \/ page.ladder = MCLong)
  /\ InsureInit /\ NewsInit /\ SymbolInit /\ ChartInit /\ FeedInit /\ BrokerInit /\ KeyInit

MarketNext ==
  /\ part' = part
  /\ \/ part = "chain" /\ ChainNext
        /\ UNCHANGED <<page, insureVars, newsVars, symbolVars, chartVars, feedVars, brokerVars, keyVars>>
     \/ part = "page" /\ PageNext
        /\ UNCHANGED <<chainVars, insureVars, newsVars, symbolVars, chartVars, feedVars, brokerVars, keyVars>>
     \/ part = "insure" /\ InsureNext
        /\ UNCHANGED <<chainVars, page, newsVars, symbolVars, chartVars, feedVars, brokerVars, keyVars>>
     \/ part = "news" /\ NewsNext
        /\ UNCHANGED <<chainVars, page, insureVars, symbolVars, chartVars, feedVars, brokerVars, keyVars>>
     \/ part = "symbols" /\ SymbolNext
        /\ UNCHANGED <<chainVars, page, insureVars, newsVars, chartVars, feedVars, brokerVars, keyVars>>
     \/ part = "chart" /\ ChartNext
        /\ UNCHANGED <<chainVars, page, insureVars, newsVars, symbolVars, feedVars, brokerVars, keyVars>>
     \/ part = "feeds" /\ FeedNext
        /\ UNCHANGED <<chainVars, page, insureVars, newsVars, symbolVars, chartVars, brokerVars, keyVars>>
     \/ part = "broker" /\ BrokerNext
        /\ UNCHANGED <<chainVars, page, insureVars, newsVars, symbolVars, chartVars, feedVars, keyVars>>
     \/ part = "key" /\ KeyNext
        /\ UNCHANGED <<chainVars, page, insureVars, newsVars, symbolVars, chartVars, feedVars, brokerVars>>

MarketSpec == MarketInit /\ [][MarketNext]_marketVars
=============================================================================
