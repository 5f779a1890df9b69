----------------------------- MODULE NewsStore -----------------------------
(***************************************************************************)
(* The store of articles with its full-text index (newsstore.py) and those  *)
(* that write it: the backfill after a sign-in, the live look-up of the     *)
(* omnibox, the recorder, and the reader that keeps the text it extracted   *)
(* (app.py).  Articles are numbered in the order they were created.         *)
(***************************************************************************)
EXTENDS Integers, Sequences, FiniteSets, FiniteSetsExt

CONSTANTS
  MaxArticles, MaxRevision,   (* bounds                                       *)
  MaxFetched,                 (* answers out at a time; a bound               *)
  NewsSymbols,
  SymbolsOf,                  (* [article -> the symbols it is about]         *)
  PAGE, LIVE, PAGE_LIMIT      (* articles a request returns; pages walked     *)

VARIABLES
  feed,     (* the provider's articles: [rev, body]                           *)
  news,     (* [article -> [rev, body]]: the table                            *)
  fts,      (* [article -> rev]: its full-text index                          *)
  fetched,  (* answers read and not yet stored: [by, got, more], the articles *)
            (* as they were when they were read and the pages still to walk   *)
  cooling,  (* the symbols whose live news were fetched within the minute     *)
  reading   (* the article views whose page is being extracted: [of, had]     *)
newsVars == <<feed, news, fts, fetched, cooling, reading>>

Bodies == 0 .. 2   (* none, one too short to show, one in full *)
NewestOf(S, n) == {a \in S : Cardinality({b \in S : b > a}) < n}

-----------------------------------------------------------------------------
(* upsert: the words that were fetched replace those that are there, the     *)
(* body only if it is longer, and the full-text row goes with the article,   *)
(* in one transaction.                                                       *)

(* Mutant: the body of the feed replaces what is there.                      *)
LongerBody_Feed(old, new) == new

LongerBody(old, new) == Max({old, new})

Indexed(got) == [a \in DOMAIN fts \cup DOMAIN got |-> IF a \in DOMAIN got THEN got[a].rev ELSE fts[a]]
Upsert(got) ==
  /\ news' = [a \in DOMAIN news \cup DOMAIN got |->
                IF a \notin DOMAIN got THEN news[a]
                ELSE IF a \in DOMAIN news
                     THEN [rev |-> got[a].rev, body |-> LongerBody(news[a].body, got[a].body)]
                     ELSE got[a]]
  /\ fts' = Indexed(got)

(* AlpacaData.news: the newest n of the articles that are asked for, as they *)
(* read now.                                                                 *)
FeedPage(n, asked) == [a \in NewestOf(asked \cap DOMAIN feed, n) |-> feed[a]]
Together(p, q) == [a \in DOMAIN p \cup DOMAIN q |-> IF a \in DOMAIN p THEN p[a] ELSE q[a]]
About(s) == {a \in DOMAIN feed : s \in SymbolsOf[a]}

(* latest, and what the table knows of a symbol.                             *)
LatestOf(s, n) == NewestOf({a \in DOMAIN news : s \in SymbolsOf[a]}, n)

-----------------------------------------------------------------------------
Publishes ==
  /\ Cardinality(DOMAIN feed) < MaxArticles
  /\ \E b \in Bodies : feed' = Append(feed, [rev |-> 1, body |-> b])
  /\ UNCHANGED <<news, fts, fetched, cooling, reading>>
Revises(a) ==
  /\ feed[a].rev < MaxRevision
  /\ \E b \in Bodies : feed' = [feed EXCEPT ![a] = [rev |-> @.rev + 1, body |-> b]]
  /\ UNCHANGED <<news, fts, fetched, cooling, reading>>

(* A request is answered with a page of the feed; the answer is stored in a  *)
(* later step, among those of the other threads and of the recorder, or the  *)
(* request fails.                                                            *)
Fetch(by, got, more) ==
  /\ Cardinality(fetched) < MaxFetched
  /\ fetched' = fetched \cup {[by |-> by, got |-> got, more |-> more]}
StoresNews(x) == /\ x.more = 0 /\ Upsert(x.got) /\ fetched' = fetched \ {x}
                 /\ UNCHANGED <<feed, cooling, reading>>
FetchFails(x) == /\ fetched' = fetched \ {x}
                 /\ UNCHANGED <<feed, news, fts, cooling, reading>>
NotOut(by) == \A x \in fetched : x.by # by

(* kick_market_refresh: one at a time.  backfill: from the newest stored     *)
(* article on, one page; into an empty store PAGE_LIMIT more, each of what   *)
(* is older than the page before.                                            *)
AsksNews ==
  /\ NotOut("refresh")
  /\ IF news = <<>> THEN Fetch("refresh", FeedPage(PAGE, DOMAIN feed), PAGE_LIMIT)
     ELSE Fetch("refresh", FeedPage(PAGE, {a \in DOMAIN feed : a >= Max(DOMAIN news)}), 0)
  /\ UNCHANGED <<feed, news, fts, cooling, reading>>
WalksNews(x) ==
  /\ x.more > 0
  /\ LET page == FeedPage(PAGE, {a \in DOMAIN feed : \A b \in DOMAIN x.got : a < b})
     IN fetched' = (fetched \ {x}) \cup
          {[by |-> x.by, got |-> Together(page, x.got), more |-> IF page = <<>> THEN 0 ELSE x.more - 1]}
  /\ UNCHANGED <<feed, news, fts, cooling, reading>>

(* live_news: for a symbol without local news, once a minute; any number of  *)
(* look-ups may be out.                                                      *)
LiveNews(s) ==
  /\ LatestOf(s, LIVE) = {} /\ s \notin cooling
  /\ cooling' = cooling \cup {s}
  /\ Fetch("live", FeedPage(LIVE, About(s)), 0)
  /\ UNCHANGED <<feed, news, fts, reading>>
MinutePasses == cooling # {} /\ cooling' = {}
                /\ UNCHANGED <<feed, news, fts, fetched, reading>>

(* The recorder's news job, of a symbol or of all, one at a time; and its    *)
(* prune, of what is older than the longest retention of such a job, which   *)
(* jobs may change, so from any article on.                                  *)
RecorderNews(asked) ==
  /\ NotOut("recorder")
  /\ Fetch("recorder", FeedPage(PAGE, asked), 0)
  /\ UNCHANGED <<feed, news, fts, cooling, reading>>
Retained(f, cutoff) == [a \in {b \in DOMAIN f : b >= cutoff} |-> f[a]]
Prunes(cutoff) ==
  /\ NotOut("recorder")
  /\ news' = Retained(news, cutoff) /\ fts' = Retained(fts, cutoff)
  /\ UNCHANGED <<feed, fetched, cooling, reading>>

(* article: a short body is looked for on the page of the article, and what  *)
(* is longer than the body that was read is kept, if the article still is    *)
(* there.                                                                    *)
Opens(a) ==
  /\ a \in DOMAIN news /\ news[a].body < 2 /\ reading = {}
  /\ reading' = {[of |-> a, had |-> news[a].body]}
  /\ UNCHANGED <<feed, news, fts, fetched, cooling>>
SetContent(a, body) == IF a \in DOMAIN news THEN [news EXCEPT ![a].body = body] ELSE news
Extracted(r) ==
  /\ r \in reading /\ reading' = reading \ {r}
  /\ \E got \in Bodies : news' = IF got > r.had THEN SetContent(r.of, got) ELSE news
  /\ UNCHANGED <<feed, fts, fetched, cooling>>

NewsInit == feed = <<>> /\ news = <<>> /\ fts = <<>> /\ fetched = {} /\ cooling = {} /\ reading = {}
NewsNext ==
  \/ Publishes \/ MinutePasses \/ AsksNews
  \/ \E x \in fetched : StoresNews(x) \/ FetchFails(x) \/ WalksNews(x)
  \/ \E a \in DOMAIN feed : Revises(a) \/ Opens(a)
  \/ \E cutoff \in 1 .. Len(feed) + 1 : Prunes(cutoff)
  \/ \E s \in NewsSymbols : LiveNews(s) \/ RecorderNews(About(s))
  \/ RecorderNews(DOMAIN feed)
  \/ \E r \in reading : Extracted(r)

-----------------------------------------------------------------------------
(* Whichever of the writers comes when, an article leaves only when a prune  *)
(* takes what is older, no body is blanked, and the full-text rows are those *)
(* of the table: no article is found by words it no longer has, and none     *)
(* that was pruned is found at all.                                          *)
NewsStaysReadable ==
  [][ /\ \A a \in DOMAIN news \ DOMAIN news' : \A b \in DOMAIN news' : a < b
      /\ \A a \in DOMAIN news \cap DOMAIN news' : news[a].body > 0 => news'[a].body > 0
      /\ fts' = [a \in DOMAIN news' |-> news'[a].rev] ]_<<news, fts>>

(* What does not hold, and TLC refutes: an answer that was read before an    *)
(* article was rewritten and is stored after the newer one puts the older    *)
(* words back (newsstore.py:30), and a page extracted for a short body       *)
(* replaces a longer one that was stored meanwhile (app.py:1566-1571).       *)
WordsNeverAge ==
  [][\A a \in DOMAIN news \cap DOMAIN news' : news'[a].rev >= news[a].rev]_<<news, fts>>
BodiesNeverShrink ==
  [][\A a \in DOMAIN news \cap DOMAIN news' : news'[a].body >= news[a].body]_<<news, fts>>
=============================================================================
