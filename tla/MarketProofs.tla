---------------------------- MODULE MarketProofs ----------------------------
(***************************************************************************)
(* Proofs about what the backend has of the market and its providers: the  *)
(* sealed key of the recorder, the brokerage accounts and the quotes they  *)
(* pay for, the live chain of an underlying, the news, the symbols, the    *)
(* pricing of puts, the daily chart and the page of futures options.  For  *)
(* any keys, users, grants, accounts, contracts, windows, articles, lists  *)
(* and days, and any number of requests at a time.                         *)
(***************************************************************************)
EXTENDS SystemKey, Brokerage, ChainCache, NewsStore, SymbolSearch, Expectancy, ChartBars, FuturesChain,
        Orders, SequenceTheorems

(* A blob that names a key which the live host lets in says so, and that its *)
(* owner accepted it.                                                        *)
Proven(blob) ==
  \E key \in Keys :
    /\ key.name = blob.key
    /\ "live" \in key.hosts => blob.accepted /\ blob.verdict = "LIVE_CAPABLE"

(* A sealed key, and one whose verdict was earned.                           *)
Blob == [key : {key.name : key \in Keys}, verdict : {"LIVE_CAPABLE", "PAPER_ONLY", "UNDETERMINED"},
         owner : Users, accepted : BOOLEAN, profile : {1, 2}]
ProvenBlob == {b \in Blob : Proven(b)}

(* Every blob there is, on disk or in the hands of a request, is proven: a   *)
(* request that dies leaves its blob beside the file, and another one may    *)
(* put it in place.                                                          *)
KeyInv ==
  /\ profile \in {1, 2}
  /\ sealed \in ProvenBlob \cup {NoBlob} /\ temporary \in ProvenBlob \cup {NoBlob}
  /\ enrolment \in [Enrolments ->
       {NoRequest, [at |-> "forget"]}
         \cup [at : {"probe"}, key : Keys, user : Users, accepts : BOOLEAN]
         \cup [at : {"seal", "replace", "describe"}, blob : ProvenBlob]]

(* verdict_of: what is stored is a paper key, or one that was accepted.      *)
LEMMA StoredIsProven ==
  ASSUME NEW key \in Keys, NEW live \in Answers(key, "live"), NEW paper \in Answers(key, "paper"),
         NEW accepts \in BOOLEAN, StoredUnder(VerdictOf(live, paper), accepts)
  PROVE  "live" \in key.hosts => accepts /\ VerdictOf(live, paper) = "LIVE_CAPABLE"
<1>1. "live" \in key.hosts => live \in {"ok", "unclear"}
  BY DEF Answers
<1>2. live = "ok" => VerdictOf(live, paper) = "LIVE_CAPABLE"
  BY DEF VerdictOf
<1>3. live = "unclear" => VerdictOf(live, paper) = "UNDETERMINED"
  BY DEF VerdictOf
<1> QED BY <1>1, <1>2, <1>3 DEF StoredUnder

(* Every step keeps the strengthening.                                       *)
LEMMA KeyInvStep ==
  ASSUME KeyInv, [KeyNext]_keyVars
  PROVE  KeyInv'
<1> USE DEF KeyInv, Goes
<1>1. ASSUME NEW e \in Enrolments, Begins(e) PROVE KeyInv'
  BY <1>1 DEF Begins
<1>2. ASSUME NEW e \in Enrolments, Probes(e) PROVE KeyInv'
  <2> DEFINE r == enrolment[e]
  <2>1. r \in [at : {"probe"}, key : Keys, user : Users, accepts : BOOLEAN]
    BY <1>2 DEF Probes, NoRequest
  <2>2. PICK live \in Answers(r.key, "live"), paper \in Answers(r.key, "paper") :
          Goes(e, IF StoredUnder(VerdictOf(live, paper), r.accepts)
                  THEN [at |-> "seal", blob |-> [key |-> r.key.name, verdict |-> VerdictOf(live, paper), owner |-> r.user,
                                                 accepted |-> r.accepts, profile |-> profile]]
                  ELSE NoRequest)
    BY <1>2 DEF Probes
  <2> DEFINE b == [key |-> r.key.name, verdict |-> VerdictOf(live, paper), owner |-> r.user,
                   accepted |-> r.accepts, profile |-> profile]
  <2>3. b \in Blob
    BY <2>1 DEF Blob, VerdictOf
  <2>4. StoredUnder(VerdictOf(live, paper), r.accepts) => Proven(b)
    BY <2>1, StoredIsProven DEF Proven
  <2>5. UNCHANGED <<sealed, temporary, metadata, profile>>
    BY <1>2 DEF Probes
  <2> HIDE DEF r
  <2> QED BY <2>2, <2>3, <2>4, <2>5 DEF ProvenBlob
<1>3. ASSUME NEW e \in Enrolments, Writes(e) PROVE KeyInv'
  <2>1. enrolment[e] \in [at : {"seal", "replace", "describe"}, blob : ProvenBlob]
    BY <1>3 DEF Writes, NoRequest
  <2> QED BY <1>3, <2>1 DEF Writes
<1>4. ASSUME NEW e \in Enrolments, Replaces(e) PROVE KeyInv'
  <2>1. enrolment[e] \in [at : {"seal", "replace", "describe"}, blob : ProvenBlob]
    BY <1>4 DEF Replaces, NoRequest
  <2> QED BY <1>4, <2>1 DEF Replaces
<1>5. ASSUME NEW e \in Enrolments, Describes(e) PROVE KeyInv'
  BY <1>5 DEF Describes
<1>6. ASSUME NEW e \in Enrolments, Removes(e) PROVE KeyInv'
  BY <1>6 DEF Removes
<1>7. ASSUME NEW e \in Enrolments, Forgets(e) PROVE KeyInv'
  BY <1>7 DEF Forgets
<1>8. CASE Dies
  BY <1>8 DEF Dies
<1>9. CASE ProfileIsReset
  BY <1>9 DEF ProfileIsReset
<1>10. CASE UNCHANGED keyVars
  BY <1>10 DEF keyVars
<1> QED BY <1>1, <1>2, <1>3, <1>4, <1>5, <1>6, <1>7, <1>8, <1>9, <1>10 DEF KeyNext

(* syskey.store and load, keyprobe.verdict_of: a key that works while nobody *)
(* is there cannot move money, or its owner accepted that it can - whatever  *)
(* the hosts answered, whichever enrolments ran side by side or died.        *)
THEOREM StoredKeyIsProven == KeySpec => []StoredKeyWasProven
<1>1. KeyInit => KeyInv
  BY DEF KeyInit, KeyInv
<1>2. KeyInv /\ [KeyNext]_keyVars => KeyInv'
  BY KeyInvStep
<1>3. KeyInv => StoredKeyWasProven
  BY DEF KeyInv, StoredKeyWasProven, CredsOf, Loads, ProvenBlob, Proven
<1> QED BY <1>1, <1>2, <1>3, PTL DEF KeySpec

-----------------------------------------------------------------------------
(* The brokerage accounts *)

(* A quote between its requests.                                             *)
QuoteFields == {"at", "class", "grant", "purpose", "holds", "again", "refused", "error", "source", "price"}
Quoting(r) ==
  /\ DOMAIN r = QuoteFields
  /\ r.at \in {"token", "ask", "alpaca", "yahoo", "told"}
  /\ r.grant \in Grants \cup {NoGrant}
  /\ r.holds \in {"nothing", "good", "minted", "dead"}
  /\ r.again \in BOOLEAN /\ r.price \in BOOLEAN

(* What is true of a request on its way: the second attempt was minted for   *)
(* it and dies of a revocation only; a grant is to be entered again only     *)
(* after one or when it was refused; and where it is answered from fits it.  *)
HonestQuote(r, gone) ==
  /\ r.at = "ask" /\ r.again => r.holds \in {"minted", "dead"} /\ (r.holds = "dead" => r.grant \in gone)
  /\ r.error = "re-enter" => r.refused \/ r.grant \in gone
  /\ r.at \in {"token", "ask"} => r.class \notin {"us_equity", "crypto"} /\ r.grant # NoGrant
  /\ r.at = "alpaca" => r.class \in {"us_equity", "crypto"}
  /\ r.at # "told" => ~r.price
  /\ r.source = "alpaca (IEX)" => r.class \in {"us_equity", "crypto"}
  /\ r.source = "tastytrade" => r.class \notin {"us_equity", "crypto"} /\ r.grant # NoGrant
  /\ r.price => r.source # "none"

(* The sealed fields the accounts have.                                      *)
FieldsOf(all) == UNION {{<<id, f>> : f \in Fields(all[id].broker)} : id \in DOMAIN all}

(* An account has the fields of its broker and no other, and the field of a  *)
(* grant holds one.                                                          *)
AccountsInv ==
  /\ DOMAIN accounts \subseteq 1 .. MaxAccount
  /\ accounts \in [DOMAIN accounts -> [broker : {"alpaca", "tastytrade"}, kind : Kinds]]
  /\ DOMAIN secrets = FieldsOf(accounts)
  /\ secrets = [k \in DOMAIN secrets |-> secrets[k]]
  /\ \A k \in DOMAIN secrets : k[2] = "refresh_token" => secrets[k] \in Grants

(* What a quote holds is of a grant that was there when it was asked.        *)
QuotesInv ==
  /\ tokens \in [Grants -> {"none", "good", "dead"}]
  /\ DOMAIN quote = QuoteRequests
  /\ \A q \in QuoteRequests : quote[q] = NoQuote \/ (Quoting(quote[q]) /\ HonestQuote(quote[q], revoked))

(* The two together.                                                         *)
BrokerInv == AccountsInv /\ QuotesInv

(* accounts_create: the id is not in use.                                    *)
LEMMA FreshAccount ==
  ASSUME AccountsInv, DOMAIN accounts # {}
  PROVE  Max(DOMAIN accounts) + 1 \notin DOMAIN accounts /\ Max(DOMAIN accounts) + 1 \in Nat \ {0}
<1>1. \E x \in DOMAIN accounts : \A y \in DOMAIN accounts : y <= x
  <2>1. DOMAIN accounts \subseteq 0 .. MaxAccount /\ MaxAccount \in Nat
    BY BrokerAssumption DEF AccountsInv
  <2> QED BY <2>1, Greatest
<1>2. Max(DOMAIN accounts) \in DOMAIN accounts /\ \A y \in DOMAIN accounts : y <= Max(DOMAIN accounts)
  BY <1>1 DEF Max, AccountsInv
<1> QED BY <1>2 DEF AccountsInv

(* The account routes keep the fields of every account.                      *)
LEMMA AccountsInvStep ==
  ASSUME AccountsInv, [BrokerNext]_brokerVars
  PROVE  AccountsInv'
<1>1. ASSUME NEW broker \in {"alpaca", "tastytrade"}, NEW kind \in Kinds, NEW g \in Grants, Creates(broker, kind, g)
      PROVE  AccountsInv'
  <2> DEFINE id == IF DOMAIN accounts = {} THEN 1 ELSE Max(DOMAIN accounts) + 1
             mine == {<<id, f>> : f \in Fields(broker)}
  <2>1. id \in 1 .. MaxAccount /\ id \notin DOMAIN accounts
    BY <1>1, FreshAccount, BrokerAssumption DEF Creates
  <2>2. accounts' = Merged(accounts, [i \in {id} |-> [broker |-> broker, kind |-> kind]])
        /\ secrets' = Merged(secrets, OfFields(id, Fields(broker), g))
    BY <1>1 DEF Creates
  <2> HIDE DEF id
  <2>3. accounts' = [i \in DOMAIN accounts \cup {id} |-> IF i = id THEN [broker |-> broker, kind |-> kind] ELSE accounts[i]]
    BY <2>2, <2>1 DEF Merged
  <2>4. secrets' = [k \in DOMAIN secrets \cup mine |->
                      IF k \in mine THEN (IF k[2] = "refresh_token" THEN g ELSE Key) ELSE secrets[k]]
    BY <2>2 DEF Merged, OfFields
  <2>5. \A i \in DOMAIN accounts' : accounts'[i].broker = IF i = id THEN broker ELSE accounts[i].broker
    BY <2>3
  <2>6. FieldsOf(accounts') = FieldsOf(accounts) \cup mine
    BY <2>1, <2>3, <2>5 DEF FieldsOf
  <2>7. DOMAIN accounts' \subseteq 1 .. MaxAccount
        /\ accounts' \in [DOMAIN accounts' -> [broker : {"alpaca", "tastytrade"}, kind : Kinds]]
    BY <2>1, <2>3 DEF AccountsInv
  <2>8. \A k \in DOMAIN secrets' : k[2] = "refresh_token" => secrets'[k] \in Grants
    BY <2>4 DEF AccountsInv
  <2> QED BY <2>4, <2>6, <2>7, <2>8 DEF AccountsInv
<1>2. ASSUME NEW id \in DOMAIN accounts, NEW g \in Grants, Rekeys(id, g) PROVE AccountsInv'
  <2> DEFINE mine == {<<id, f>> : f \in {"refresh_token"}}
  <2>1. secrets' = [k \in DOMAIN secrets \cup mine |->
                      IF k \in mine THEN (IF k[2] = "refresh_token" THEN g ELSE Key) ELSE secrets[k]]
    BY <1>2 DEF Rekeys, Merged, OfFields
  <2>2. mine \subseteq FieldsOf(accounts)
    BY <1>2 DEF Rekeys, FieldsOf, Fields
  <2>3. DOMAIN secrets' = DOMAIN secrets /\ accounts' = accounts
    BY <1>2, <2>1, <2>2 DEF Rekeys, AccountsInv
  <2>4. \A k \in DOMAIN secrets' : k[2] = "refresh_token" => secrets'[k] \in Grants
    BY <2>1 DEF AccountsInv
  <2>5. FieldsOf(accounts') = FieldsOf(accounts)
    BY <2>3
  <2> QED BY <2>1, <2>3, <2>4, <2>5 DEF AccountsInv
<1>3. ASSUME NEW id \in DOMAIN accounts, Deletes(id) PROVE AccountsInv'
  <2>1. accounts' = [i \in DOMAIN accounts \ {id} |-> accounts[i]]
        /\ secrets' = [k \in {j \in DOMAIN secrets : j[1] # id} |-> secrets[k]]
    BY <1>3 DEF Deletes
  <2>2. \A i \in DOMAIN accounts' : accounts'[i] = accounts[i]
    BY <2>1
  <2>3. FieldsOf(accounts') = {j \in FieldsOf(accounts) : j[1] # id}
    BY <2>1, <2>2 DEF FieldsOf
  <2>4. DOMAIN secrets' = FieldsOf(accounts')
    BY <2>1, <2>3 DEF AccountsInv
  <2> QED BY <2>1, <2>4 DEF AccountsInv
<1>4. CASE UNCHANGED <<accounts, secrets>>
  BY <1>4 DEF AccountsInv, FieldsOf
<1> QED BY <1>1, <1>2, <1>3, <1>4 DEF BrokerNext, brokerVars, LocksOrUnlocks, HourPasses, Revokes, TokenDies,
           TokenAges, Asks, Tests, TakesToken, SendsRequest, AsksAlpaca, AsksYahoo

(* tasty_creds_for: a grant, or none.                                        *)
LEMMA TastyGrantIsOne == AccountsInv => TastyGrant \in Grants \cup {NoGrant}
<1> SUFFICES ASSUME AccountsInv, HasCreds("tastytrade") PROVE TastyGrant \in Grants
  BY DEF TastyGrant
<1> DEFINE i == CHOOSE j \in Best("tastytrade") : TRUE
<1>1. i \in Best("tastytrade")
  BY DEF HasCreds
<1>2. i \in DOMAIN accounts /\ accounts[i].broker = "tastytrade"
  BY <1>1 DEF Best
<1>3. <<i, "refresh_token">> \in DOMAIN secrets
  BY <1>2 DEF AccountsInv, FieldsOf, Fields
<1> QED BY <1>3 DEF TastyGrant, AccountsInv

(* accounts_test_saved: the grant of an account.                             *)
LEMMA GrantOfAccount ==
  ASSUME AccountsInv, NEW id \in DOMAIN accounts, accounts[id].broker = "tastytrade"
  PROVE  secrets[<<id, "refresh_token">>] \in Grants
<1>1. <<id, "refresh_token">> \in DOMAIN secrets
  BY DEF AccountsInv, FieldsOf, Fields
<1> QED BY <1>1 DEF AccountsInv

(* One request moves on.                                                     *)
LEMMA OneQuoteMoves ==
  ASSUME QuotesInv, NEW q \in QuoteRequests, NEW to, Step(q, to), Quoting(to), HonestQuote(to, revoked),
         revoked' = revoked, tokens' \in [Grants -> {"none", "good", "dead"}]
  PROVE  QuotesInv'
<1>1. DOMAIN quote' = QuoteRequests /\ \A p \in QuoteRequests : quote'[p] = IF p = q THEN to ELSE quote[p]
  BY DEF QuotesInv, Step
<1>2. \A p \in QuoteRequests : quote'[p] = NoQuote \/ (Quoting(quote'[p]) /\ HonestQuote(quote'[p], revoked'))
  BY <1>1 DEF QuotesInv
<1> QED BY <1>1, <1>2 DEF QuotesInv

(* What is left of a request when it ends, or falls back.                    *)
LEMMA OverIs ==
  ASSUME NEW r, DOMAIN r = QuoteFields
  PROVE  /\ DOMAIN Over(r) = QuoteFields
         /\ Over(r).at = r.at /\ Over(r).class = r.class /\ Over(r).grant = r.grant
         /\ Over(r).holds = "nothing" /\ Over(r).again = FALSE
         /\ Over(r).refused = r.refused /\ Over(r).error = r.error /\ Over(r).source = r.source /\ Over(r).price = r.price
BY DEF Over, QuoteFields

(* What a quote tells at its end is honest.                                  *)
LEMMA TellsHonestly ==
  ASSUME NEW r, Quoting(r), HonestQuote(r, revoked), NEW price \in BOOLEAN,
         NEW source \in {"none", "alpaca (IEX)", "tastytrade", "yahoo (delayed)"},
         source = "alpaca (IEX)" => r.class \in {"us_equity", "crypto"},
         source = "tastytrade" => r.class \notin {"us_equity", "crypto"} /\ r.grant # NoGrant,
         source = "none" => ~price
  PROVE  Quoting(Told(r, source, price)) /\ HonestQuote(Told(r, source, price), revoked)
<1> DEFINE o == Over(r)
           t == Told(r, source, price)
<1>1. /\ DOMAIN o = QuoteFields /\ o.class = r.class /\ o.grant = r.grant /\ o.holds = "nothing"
      /\ o.again = FALSE /\ o.refused = r.refused /\ o.error = r.error
  BY OverIs DEF Quoting
<1>2. t = [o EXCEPT !.at = "told", !.source = source, !.price = price]
  BY DEF Told
<1> HIDE DEF o, t
<1>3. /\ DOMAIN t = QuoteFields /\ t.at = "told" /\ t.class = r.class /\ t.grant = r.grant
      /\ t.holds = "nothing" /\ t.again = FALSE /\ t.refused = r.refused /\ t.error = r.error
      /\ t.source = source /\ t.price = price
  BY <1>1, <1>2 DEF QuoteFields
<1>4. Quoting(t)
  BY <1>3 DEF Quoting
<1>5. HonestQuote(t, revoked)
  BY <1>3 DEF HonestQuote
<1> QED BY <1>4, <1>5 DEF t

(* A request that fails is told, or falls back to Yahoo, with its reason.    *)
LEMMA FailsHonestly ==
  ASSUME NEW r, Quoting(r), HonestQuote(r, revoked), r.at \in {"token", "ask", "alpaca"},
         NEW why \in {"network", "alpaca", "re-enter"}, why = "re-enter" => r.refused \/ r.grant \in revoked
  PROVE  Quoting(Fails(r, why)) /\ HonestQuote(Fails(r, why), revoked)
<1> DEFINE o == Over(r)
           t == Told(r, "none", FALSE)
           f == Fails(r, why)
<1>1. /\ DOMAIN o = QuoteFields /\ o.class = r.class /\ o.grant = r.grant /\ o.holds = "nothing"
      /\ o.again = FALSE /\ o.refused = r.refused /\ o.source = r.source /\ o.price = r.price
  BY OverIs DEF Quoting
<1>2. t = [o EXCEPT !.at = "told", !.source = "none", !.price = FALSE]
  BY DEF Told
<1>3. f = IF r.class = "test" THEN [t EXCEPT !.error = why] ELSE [o EXCEPT !.at = "yahoo", !.error = why]
  BY DEF Fails
<1> HIDE DEF o, t, f
<1>4. CASE r.class = "test"
  <2>1. /\ DOMAIN t = QuoteFields /\ t.at = "told" /\ t.class = r.class /\ t.grant = r.grant
        /\ t.holds = "nothing" /\ t.again = FALSE /\ t.refused = r.refused /\ t.source = "none" /\ t.price = FALSE
    BY <1>1, <1>2 DEF QuoteFields
  <2>2. /\ DOMAIN f = QuoteFields /\ f.at = "told" /\ f.class = r.class /\ f.grant = r.grant
        /\ f.holds = "nothing" /\ f.again = FALSE /\ f.refused = r.refused /\ f.error = why
        /\ f.source = "none" /\ f.price = FALSE
    BY <1>3, <1>4, <2>1 DEF QuoteFields
  <2>3. Quoting(f)
    BY <2>2 DEF Quoting
  <2>4. HonestQuote(f, revoked)
    BY <2>2 DEF HonestQuote
  <2> QED BY <2>3, <2>4 DEF f
<1>5. CASE r.class # "test"
  <2>1. /\ DOMAIN f = QuoteFields /\ f.at = "yahoo" /\ f.class = r.class /\ f.grant = r.grant
        /\ f.holds = "nothing" /\ f.again = FALSE /\ f.refused = r.refused /\ f.error = why
        /\ f.source = r.source /\ f.price = r.price
    BY <1>1, <1>3, <1>5 DEF QuoteFields
  <2>2. Quoting(f)
    BY <2>1 DEF Quoting
  <2>3. HonestQuote(f, revoked)
    BY <2>1 DEF HonestQuote
  <2> QED BY <2>2, <2>3 DEF f
<1> QED BY <1>4, <1>5

(* A request the broker refuses outright ends as one that fails.             *)
LEMMA RefusedHonestly ==
  ASSUME NEW r, Quoting(r), HonestQuote(r, revoked), r.at \in {"token", "ask"}
  PROVE  Quoting(Refused(r)) /\ HonestQuote(Refused(r), revoked)
<1> DEFINE no == [r EXCEPT !.refused = TRUE]
<1>1. /\ DOMAIN no = QuoteFields /\ no.at = r.at /\ no.class = r.class /\ no.grant = r.grant
      /\ no.holds = r.holds /\ no.again = r.again /\ no.refused = TRUE /\ no.error = r.error
      /\ no.source = r.source /\ no.price = r.price
  BY DEF Quoting, QuoteFields
<1>2. Refused(r) = Fails(no, "re-enter")
  BY DEF Refused
<1> HIDE DEF no
<1>3. Quoting(no)
  BY <1>1 DEF Quoting
<1>4. HonestQuote(no, revoked)
  BY <1>1 DEF HonestQuote
<1> QED BY <1>1, <1>2, <1>3, <1>4, FailsHonestly

(* The broker revokes a grant, or a token of it dies: who holds it notices.  *)
LEMMA SpoilsHonestly ==
  ASSUME QuotesInv, NEW g \in Grants, NEW holds \in SUBSET {"good", "minted"}, Spoils(g, holds),
         revoked \subseteq revoked', "minted" \in holds => g \in revoked',
         tokens' \in [Grants -> {"none", "good", "dead"}]
  PROVE  QuotesInv'
<1>1. ASSUME NEW q \in QuoteRequests
      PROVE  quote'[q] = NoQuote \/ (Quoting(quote'[q]) /\ HonestQuote(quote'[q], revoked'))
  <2> DEFINE r == quote[q]
             hit == r.at = "ask" /\ r.grant = g /\ r.holds \in holds
             new == [r EXCEPT !.holds = "dead"]
  <2>1. quote'[q] = IF hit THEN new ELSE r
    BY DEF Spoils
  <2>2. CASE r = NoQuote
    <3>1. NoQuote.at # "ask"
      BY DEF NoQuote
    <3>2. ~hit
      BY <2>2, <3>1
    <3>3. quote'[q] = r
      BY <2>1, <3>2
    <3> QED BY <2>2, <3>3
  <2>3. CASE Quoting(r) /\ HonestQuote(r, revoked)
    <3>1. CASE ~hit
      <4>1. quote'[q] = r
        BY <2>1, <3>1
      <4> HIDE DEF r
      <4>2. HonestQuote(r, revoked')
        BY <2>3 DEF HonestQuote
      <4> QED BY <2>3, <4>1, <4>2
    <3>2. CASE hit
      <4>1. /\ DOMAIN new = QuoteFields /\ new.at = "ask" /\ new.class = r.class /\ new.grant = g
            /\ new.holds = "dead" /\ new.again = r.again /\ new.refused = r.refused /\ new.error = r.error
            /\ new.source = r.source /\ new.price = r.price
        BY <2>3, <3>2 DEF Quoting, QuoteFields
      <4>2. r.again => g \in revoked'
        BY <2>3, <3>2 DEF HonestQuote
      <4> HIDE DEF new
      <4>3. Quoting(new)
        BY <2>3, <4>1 DEF Quoting
      <4>4. HonestQuote(new, revoked')
        BY <2>3, <3>2, <4>1, <4>2 DEF HonestQuote
      <4> QED BY <2>1, <3>2, <4>3, <4>4
    <3> QED BY <3>1, <3>2
  <2> QED BY <2>2, <2>3 DEF QuotesInv
<1> QED BY <1>1 DEF QuotesInv, Spoils

(* The requests at work.                                                     *)
LEMMA AsksKeeps ==
  ASSUME AccountsInv, QuotesInv, NEW q \in QuoteRequests, NEW class \in {"us_equity", "crypto", "index", "future"},
         Asks(q, class)
  PROVE  QuotesInv'
<1> DEFINE new == [at |-> "yahoo", class |-> class, grant |-> TastyGrant, purpose |-> "quote",
                   holds |-> "nothing", again |-> FALSE, refused |-> FALSE,
                   error |-> "no account", source |-> "none", price |-> FALSE]
           tasty == [new EXCEPT !.at = "token",
                                !.purpose = IF class = "future" /\ ~activeKnown THEN "contract" ELSE "quote"]
           alpaca == [new EXCEPT !.at = "alpaca"]
<1>1. TastyGrant \in Grants \cup {NoGrant}
  BY TastyGrantIsOne
<1>2. /\ DOMAIN new = QuoteFields /\ new.at = "yahoo" /\ new.class = class /\ new.grant = TastyGrant
      /\ new.holds = "nothing" /\ new.again = FALSE /\ new.refused = FALSE /\ new.error = "no account"
      /\ new.source = "none" /\ new.price = FALSE
  BY DEF QuoteFields
<1>3. PICK to : /\ Step(q, to)
                /\ \/ to = tasty /\ class \notin {"us_equity", "crypto"} /\ TastyGrant # NoGrant
                   \/ to = alpaca /\ class \in {"us_equity", "crypto"}
                   \/ to = new
  BY DEF Asks
<1> HIDE DEF new
<1>4. /\ DOMAIN to = QuoteFields /\ to.at \in {"yahoo", "token", "alpaca"} /\ to.class = class
      /\ to.grant = TastyGrant /\ to.holds = "nothing" /\ to.again = FALSE /\ to.refused = FALSE /\ to.error = "no account"
      /\ to.source = "none" /\ to.price = FALSE
      /\ to.at = "token" => class \notin {"us_equity", "crypto"} /\ TastyGrant # NoGrant
      /\ to.at = "alpaca" => class \in {"us_equity", "crypto"}
  BY <1>2, <1>3 DEF QuoteFields
<1>5. Quoting(to)
  BY <1>1, <1>4 DEF Quoting
<1>6. HonestQuote(to, revoked)
  BY <1>4 DEF HonestQuote
<1> QED BY <1>3, <1>5, <1>6, OneQuoteMoves DEF Asks, QuotesInv

(* A test of an account keeps the quotes honest,                             *)
LEMMA TestsKeeps ==
  ASSUME AccountsInv, QuotesInv, NEW q \in QuoteRequests, NEW id \in DOMAIN accounts, Tests(q, id)
  PROVE  QuotesInv'
<1> DEFINE g == secrets[<<id, "refresh_token">>]
           to == [at |-> "token", class |-> "test", grant |-> g, purpose |-> "accounts", holds |-> "nothing",
                  again |-> FALSE, refused |-> FALSE, error |-> "none", source |-> "none", price |-> FALSE]
<1>1. g \in Grants /\ g # NoGrant
  BY GrantOfAccount, BrokerAssumption DEF Tests
<1>2. Step(q, to)
  BY DEF Tests
<1>3. Quoting(to)
  BY <1>1 DEF Quoting, QuoteFields
<1>4. HonestQuote(to, revoked)
  BY <1>1 DEF HonestQuote
<1> QED BY <1>2, <1>3, <1>4, OneQuoteMoves DEF Tests, QuotesInv

(* A request goes from one step of _get to the next.                         *)
LEMMA TurnsHonestly ==
  ASSUME NEW r, Quoting(r), HonestQuote(r, revoked), r.at \in {"token", "ask"}, NEW to, DOMAIN to = QuoteFields,
         to.class = r.class, to.grant = r.grant, to.refused = r.refused, to.error = r.error, to.source = r.source, to.price = r.price,
         to.at \in {"token", "ask"}, to.again \in BOOLEAN, to.holds \in {"nothing", "good", "minted", "dead"},
         to.at = "ask" /\ to.again => to.holds = "minted"
  PROVE  Quoting(to) /\ HonestQuote(to, revoked)
<1>1. Quoting(to)
  BY DEF Quoting
<1>2. HonestQuote(to, revoked)
  BY DEF HonestQuote, Quoting
<1> QED BY <1>1, <1>2

(* a token that is taken from the cache or renewed does,                     *)
LEMMA TakesTokenKeeps ==
  ASSUME QuotesInv, NEW q \in QuoteRequests, TakesToken(q)
  PROVE  QuotesInv'
<1> DEFINE r == quote[q]
<1>1. Quoting(r) /\ HonestQuote(r, revoked) /\ r.at = "token" /\ r.grant \in Grants
  <2>1. NoQuote.at # "token"
    BY DEF NoQuote
  <2>2. Quoting(r) /\ HonestQuote(r, revoked) /\ r.at = "token"
    BY <2>1 DEF QuotesInv, TakesToken
  <2>3. r.grant \in Grants
    BY <2>2 DEF HonestQuote, Quoting
  <2> QED BY <2>2, <2>3
<1>2. tokens \in [Grants -> {"none", "good", "dead"}] /\ revoked' = revoked
  BY DEF QuotesInv, TakesToken
<1>3. CASE FromCache(r) /\ Step(q, [r EXCEPT !.at = "ask", !.holds = tokens[r.grant]]) /\ UNCHANGED tokens
  <2> DEFINE to == [r EXCEPT !.at = "ask", !.holds = tokens[r.grant]]
  <2> HIDE DEF r
  <2>1. /\ DOMAIN to = QuoteFields /\ to.class = r.class /\ to.grant = r.grant /\ to.refused = r.refused /\ to.error = r.error
        /\ to.source = r.source /\ to.price = r.price /\ to.at = "ask" /\ to.again = r.again
        /\ to.holds = tokens[r.grant]
    BY <1>1 DEF Quoting, QuoteFields
  <2> HIDE DEF to
  <2>2. to.again = FALSE /\ to.holds \in {"good", "dead"}
    BY <1>1, <1>2, <1>3, <2>1 DEF FromCache, Quoting
  <2>3. Quoting(to) /\ HonestQuote(to, revoked)
    BY <1>1, <2>1, <2>2, TurnsHonestly
  <2> QED BY <1>2, <1>3, <2>3, OneQuoteMoves DEF to
<1>4. CASE /\ Step(q, [r EXCEPT !.at = "ask", !.holds = "minted"])
           /\ tokens' = [tokens EXCEPT ![r.grant] = "good"]
  <2> DEFINE to == [r EXCEPT !.at = "ask", !.holds = "minted"]
  <2>1. /\ DOMAIN to = QuoteFields /\ to.class = r.class /\ to.grant = r.grant /\ to.refused = r.refused /\ to.error = r.error
        /\ to.source = r.source /\ to.price = r.price /\ to.at = "ask" /\ to.again = r.again
        /\ to.holds = "minted"
    BY <1>1 DEF Quoting, QuoteFields
  <2> HIDE DEF to, r
  <2>2. Quoting(to) /\ HonestQuote(to, revoked)
    BY <1>1, <2>1, TurnsHonestly DEF Quoting
  <2>3. tokens' \in [Grants -> {"none", "good", "dead"}]
    BY <1>2, <1>4
  <2> QED BY <1>2, <1>4, <2>2, <2>3, OneQuoteMoves DEF to
<1>5. CASE Step(q, Fails(r, "network")) /\ UNCHANGED tokens
  <2> HIDE DEF r
  <2>1. Quoting(Fails(r, "network")) /\ HonestQuote(Fails(r, "network"), revoked)
    BY <1>1, FailsHonestly
  <2> QED BY <1>2, <1>5, <2>1, OneQuoteMoves
<1>6. CASE Step(q, Refused(r)) /\ UNCHANGED tokens
  <2> HIDE DEF r
  <2>1. Quoting(Refused(r)) /\ HonestQuote(Refused(r), revoked)
    BY <1>1, RefusedHonestly
  <2> QED BY <1>2, <1>6, <2>1, OneQuoteMoves
<1> QED BY <1>3, <1>4, <1>5, <1>6 DEF TakesToken

(* and a request that is sent with it.                                       *)
LEMMA SendsRequestKeeps ==
  ASSUME QuotesInv, NEW q \in QuoteRequests, SendsRequest(q)
  PROVE  QuotesInv'
<1> DEFINE r == quote[q]
<1>1. Quoting(r) /\ HonestQuote(r, revoked) /\ r.at = "ask"
  <2>1. NoQuote.at # "ask"
    BY DEF NoQuote
  <2> QED BY <2>1 DEF QuotesInv, SendsRequest
<1>2. tokens' \in [Grants -> {"none", "good", "dead"}] /\ revoked' = revoked
  BY DEF QuotesInv, SendsRequest
<1>3. ASSUME NEW why \in {"network", "re-enter"}, why = "re-enter" => r.again /\ r.holds = "dead",
             Step(q, Fails(r, why))
      PROVE  QuotesInv'
  <2>1. why = "re-enter" => r.refused \/ r.grant \in revoked
    BY <1>1, <1>3 DEF HonestQuote
  <2> HIDE DEF r
  <2>2. Quoting(Fails(r, why)) /\ HonestQuote(Fails(r, why), revoked)
    BY <1>1, <2>1, FailsHonestly
  <2> QED BY <1>2, <1>3, <2>2, OneQuoteMoves
<1>4. CASE Step(q, [r EXCEPT !.at = "token", !.again = TRUE])
  <2> DEFINE to == [r EXCEPT !.at = "token", !.again = TRUE]
  <2>1. /\ DOMAIN to = QuoteFields /\ to.class = r.class /\ to.grant = r.grant /\ to.refused = r.refused /\ to.error = r.error
        /\ to.source = r.source /\ to.price = r.price /\ to.at = "token" /\ to.again = TRUE
        /\ to.holds = r.holds
    BY <1>1 DEF Quoting, QuoteFields
  <2> HIDE DEF to, r
  <2>2. Quoting(to) /\ HonestQuote(to, revoked)
    BY <1>1, <2>1, TurnsHonestly DEF Quoting
  <2> QED BY <1>2, <1>4, <2>2, OneQuoteMoves DEF to
<1>5. CASE Step(q, [r EXCEPT !.at = "token", !.purpose = "quote", !.again = FALSE])
  <2> DEFINE to == [r EXCEPT !.at = "token", !.purpose = "quote", !.again = FALSE]
  <2>1. /\ DOMAIN to = QuoteFields /\ to.class = r.class /\ to.grant = r.grant /\ to.refused = r.refused /\ to.error = r.error
        /\ to.source = r.source /\ to.price = r.price /\ to.at = "token" /\ to.again = FALSE
        /\ to.holds = r.holds
    BY <1>1 DEF Quoting, QuoteFields
  <2> HIDE DEF to, r
  <2>2. Quoting(to) /\ HonestQuote(to, revoked)
    BY <1>1, <2>1, TurnsHonestly DEF Quoting
  <2> QED BY <1>2, <1>5, <2>2, OneQuoteMoves DEF to
<1>6. ASSUME NEW price \in BOOLEAN, Step(q, Told(r, "tastytrade", price)) PROVE QuotesInv'
  <2>1. r.class \notin {"us_equity", "crypto"} /\ r.grant # NoGrant
    BY <1>1 DEF HonestQuote
  <2> HIDE DEF r
  <2>2. Quoting(Told(r, "tastytrade", price)) /\ HonestQuote(Told(r, "tastytrade", price), revoked)
    BY <1>1, <2>1, TellsHonestly
  <2> QED BY <1>2, <1>6, <2>2, OneQuoteMoves
<1>7. CASE Step(q, Refused(r))
  <2> HIDE DEF r
  <2>1. Quoting(Refused(r)) /\ HonestQuote(Refused(r), revoked)
    BY <1>1, RefusedHonestly
  <2> QED BY <1>2, <1>7, <2>1, OneQuoteMoves
<1> QED BY <1>3, <1>4, <1>5, <1>6, <1>7 DEF SendsRequest

(* The answers that need no token of TastyTrade's.                           *)
LEMMA OthersAnswerKeeps ==
  ASSUME QuotesInv, NEW q \in QuoteRequests, AsksAlpaca(q) \/ AsksYahoo(q)
  PROVE  QuotesInv'
<1> DEFINE r == quote[q]
<1>1. Quoting(r) /\ HonestQuote(r, revoked) /\ r.at \in {"alpaca", "yahoo"}
  <2>1. NoQuote.at \notin {"alpaca", "yahoo"}
    BY DEF NoQuote
  <2>2. r.at \in {"alpaca", "yahoo"}
    BY DEF AsksAlpaca, AsksYahoo
  <2> QED BY <2>1, <2>2 DEF QuotesInv
<1>2. tokens' \in [Grants -> {"none", "good", "dead"}] /\ revoked' = revoked
  BY DEF QuotesInv, AsksAlpaca, AsksYahoo
<1>3. ASSUME NEW source \in {"none", "alpaca (IEX)", "yahoo (delayed)"}, NEW price \in BOOLEAN,
             Step(q, Told(r, source, price)), source = "alpaca (IEX)" => r.at = "alpaca", source = "none" => ~price
      PROVE  QuotesInv'
  <2>1. source = "alpaca (IEX)" => r.class \in {"us_equity", "crypto"}
    BY <1>1, <1>3 DEF HonestQuote
  <2> HIDE DEF r
  <2>2. Quoting(Told(r, source, price)) /\ HonestQuote(Told(r, source, price), revoked)
    BY <1>1, <1>3, <2>1, TellsHonestly
  <2> QED BY <1>2, <1>3, <2>2, OneQuoteMoves
<1>4. CASE r.at = "alpaca" /\ Step(q, Fails(r, "alpaca"))
  <2> HIDE DEF r
  <2>1. Quoting(Fails(r, "alpaca")) /\ HonestQuote(Fails(r, "alpaca"), revoked)
    BY <1>1, <1>4, FailsHonestly
  <2> QED BY <1>2, <1>4, <2>1, OneQuoteMoves
<1> QED BY <1>3, <1>4 DEF AsksAlpaca, AsksYahoo

(* Every step keeps the invariant.                                           *)
LEMMA BrokerInvStep ==
  ASSUME BrokerInv, [BrokerNext]_brokerVars
  PROVE  BrokerInv'
<1> USE DEF BrokerInv
<1>1. ASSUME NEW g \in Grants, Revokes(g) PROVE QuotesInv'
  BY <1>1, SpoilsHonestly DEF Revokes, QuotesInv
<1>2. ASSUME NEW g \in Grants, TokenDies(g) PROVE QuotesInv'
  BY <1>2, SpoilsHonestly DEF TokenDies, QuotesInv
<1>3. ASSUME NEW g \in Grants, TokenAges(g) PROVE QuotesInv'
  BY <1>3 DEF TokenAges, QuotesInv
<1>4. ASSUME UNCHANGED <<tokens, quote, revoked>> PROVE QuotesInv'
  <2>1. tokens' = tokens /\ quote' = quote /\ revoked' = revoked
    BY <1>4
  <2>2. \A p \in QuoteRequests : quote'[p] = NoQuote \/ (Quoting(quote'[p]) /\ HonestQuote(quote'[p], revoked'))
    BY <2>1 DEF QuotesInv
  <2>3. DOMAIN quote' = QuoteRequests /\ tokens' \in [Grants -> {"none", "good", "dead"}]
    BY <2>1 DEF QuotesInv
  <2> QED BY <2>2, <2>3 DEF QuotesInv
<1>5. QuotesInv'
  BY <1>1, <1>2, <1>3, <1>4, AsksKeeps, TestsKeeps, TakesTokenKeeps, SendsRequestKeeps, OthersAnswerKeeps
     DEF BrokerNext, brokerVars, Creates, Rekeys, Deletes, LocksOrUnlocks, HourPasses
<1> QED BY <1>5, AccountsInvStep

(* However accounts come and go, grants are revoked, requests are refused    *)
(* and tokens die under the requests, a quote says where it is from, and a   *)
(* token's early end alone never has the user enter a grant again.           *)
THEOREM QuotesAreHonest == BrokerSpec => []QuoteIsHonest
<1>1. BrokerInit => BrokerInv
  <2> SUFFICES ASSUME BrokerInit PROVE AccountsInv /\ QuotesInv
    BY DEF BrokerInv
  <2>1. accounts = <<>> /\ secrets = <<>> /\ DOMAIN accounts = {} /\ DOMAIN secrets = {}
    BY DEF BrokerInit
  <2>2. FieldsOf(accounts) = {}
    BY <2>1 DEF FieldsOf
  <2>3. accounts \in [DOMAIN accounts -> [broker : {"alpaca", "tastytrade"}, kind : Kinds]]
    BY <2>1
  <2>4. secrets = [k \in DOMAIN secrets |-> secrets[k]]
    BY <2>1
  <2>5. QuotesInv
    BY DEF BrokerInit, QuotesInv
  <2> QED BY <2>1, <2>2, <2>3, <2>4, <2>5 DEF AccountsInv
<1>2. BrokerInv /\ [BrokerNext]_brokerVars => BrokerInv'
  BY BrokerInvStep
<1>3. BrokerInv => QuoteIsHonest
  <2>1. NoQuote.at # "told"
    BY DEF NoQuote
  <2> QED BY <2>1 DEF BrokerInv, AccountsInv, QuotesInv, HonestQuote, FieldsOf, QuoteIsHonest
<1> QED BY <1>1, <1>2, <1>3, PTL DEF BrokerSpec

-----------------------------------------------------------------------------
(* The live chain *)

(* Of the contracts in a window: all that were listed before a time are      *)
(* there, nothing is quoted before it, and nothing is from outside.          *)
Whole(rows, w, asOf, since) ==
  /\ asOf \in Int
  /\ \A c \in Contracts : Inside(c, w) /\ since[c] \in 0 .. asOf - 1 => \E r \in rows : r.of = c
  /\ \A r \in rows : Inside(r.of, w) /\ r.quote \in Int /\ r.quote >= asOf

(* Time, and when a contract was listed.                                     *)
ClockInv ==
  /\ clock \in Nat
  /\ listedAt \in [Contracts -> Int] /\ \A c \in Contracts : -1 <= listedAt[c] /\ listedAt[c] <= clock

(* A row is of a contract that is listed, quoted since then, and not long    *)
(* before it was written.                                                    *)
RowsInv ==
  /\ DOMAIN chainRows \subseteq Contracts
  /\ \A c \in DOMAIN chainRows :
       /\ chainRows[c].stamp \in Int /\ chainRows[c].quote \in Int
       /\ chainRows[c].stamp <= clock /\ chainRows[c].quote >= chainRows[c].stamp - MaxFlight
       /\ listedAt[c] >= 0 /\ chainRows[c].quote >= listedAt[c]

(* What a region covers has been written since the region has.               *)
Region(r) == DOMAIN r = {"from", "to", "lo", "hi", "right"} /\ {r.from, r.to, r.lo, r.hi} \subseteq Int
(* A cover promises the rows of every contract that was listed well before it. *)
CoversInv ==
  \A r \in DOMAIN covers :
    /\ Region(r)
    /\ covers[r] \in Int /\ covers[r] <= clock
    /\ \A c \in Contracts :
         Inside(c, r) /\ c.exp >= Today /\ listedAt[c] \in 0 .. covers[r] - MaxFlight - 1 =>
           c \in DOMAIN chainRows /\ chainRows[c].stamp >= covers[r]

(* What is kept for a window was whole when it was put there.                *)
KeptInv == \A w \in DOMAIN kept : Whole(kept[w].rows, w, kept[w].at, listedAt) /\ kept[w].at <= clock

(* What an answer of the provider may hold.                                  *)
Fetched(f, got, since, now) ==
  /\ \A q \in got : /\ q.of \in Contracts /\ Inside(q.of, f.region) /\ since[q.of] >= 0
                    /\ q.quote \in Int /\ q.quote >= f.began /\ q.quote >= since[q.of] /\ q.quote <= now
  /\ \A c \in Contracts : Inside(c, f.region) /\ since[c] \in 0 .. f.began - 1 => \E q \in got : q.of = c

(* A request is never out for longer than its time-out, and asks for its     *)
(* window at least.                                                          *)
RequestOut(f, since, now) ==
  /\ DOMAIN f = {"window", "region", "began", "got"}
  /\ Region(f.region) /\ f.began \in Int /\ f.began <= now /\ now <= f.began + MaxFlight
  /\ \A c \in Contracts : Inside(c, f.window) => Inside(c, f.region)
  /\ f.got = {} \/ (\E got : f.got = {got} /\ Fetched(f, got, since, now))
(* So is what a request on its way will bring.                               *)
OutInv == \A f \in out : RequestOut(f, listedAt, clock)

(* And an answer is whole as of its age.                                     *)
AnswerInv ==
  answer # NoAnswer =>
    /\ Whole(answer.rows, answer.window, answer.at - answer.age - MaxFlight, listedAt)
    /\ answer.at \in Int /\ answer.age \in Int /\ answer.at - answer.age <= clock

(* The strengthening of AnswerIsWhole.                                       *)
ChainInv == ClockInv /\ RowsInv /\ CoversInv /\ KeptInv /\ OutInv /\ AnswerInv

(* The ends of a few numbers, which the padding picks.                       *)
LEMMA PaddingEnds ==
  ASSUME NEW a \in Int, NEW b \in Int
  PROVE  /\ a <= Max({a, b}) /\ b <= Max({a, b})
         /\ Min({a, b}) \in {a, b} /\ Max({a, b}) \in {a, b}
<1>1. (\E x \in {a, b} : \A y \in {a, b} : x >= y) /\ (\E x \in {a, b} : \A y \in {a, b} : x <= y)
  OBVIOUS
<1>2. Max({a, b}) \in {a, b} /\ (\A y \in {a, b} : Max({a, b}) >= y) /\ Min({a, b}) \in {a, b}
  BY <1>1 DEF Max, Min
<1> QED BY <1>2

(* The padding of a window is a number of strikes.                           *)
LEMMA PadStrikesIsNat ==
  ASSUME NEW w, {w.lo, w.hi} \subseteq Int
  PROVE  PadStrikes(w) \in Nat
<1> DEFINE S == {w.hi - w.lo, 1, PAD_STRIKE_MIN}
<1>1. PAD_STRIKE_MIN \in Nat /\ PAD_STRIKE_MAX \in Nat /\ w.lo \in Int /\ w.hi \in Int
  BY ChainCacheAssumption
<1>2. \E x \in S : \A y \in S : x >= y
  BY <1>1
<1>3. Max(S) \in S /\ Max(S) >= 1
  BY <1>2 DEF Max
<1>4. Max(S) \in Nat
  BY <1>1, <1>3
<1> HIDE DEF S
<1>5. PadStrikes(w) = Min({Max(S), PAD_STRIKE_MAX})
  BY DEF PadStrikes, S
<1>6. Min({Max(S), PAD_STRIKE_MAX}) \in {Max(S), PAD_STRIKE_MAX}
  <2>1. Max(S) \in Int /\ PAD_STRIKE_MAX \in Int
    BY <1>1, <1>4
  <2> QED BY <2>1, PaddingEnds
<1> QED BY <1>1, <1>4, <1>5, <1>6

(* A later tick is on no earlier day.                                        *)
LEMMA TodayGrows ==
  ASSUME NEW a \in Nat, NEW b \in Nat, a <= b
  PROVE  a \div DayLength \in Nat /\ a \div DayLength <= b \div DayLength
<1>1. ASSUME NEW d \in Nat \ {0} PROVE a \div d \in Nat /\ a \div d <= b \div d
  OBVIOUS
<1> QED BY <1>1, ChainCacheAssumption

(* The window that is looked for begins today at the earliest.               *)
LEMMA ClampedIs ==
  ASSUME ClockInv, NEW asked \in Windows
  PROVE  LET w == Clamped(asked) IN
         /\ DOMAIN w = {"from", "to", "lo", "hi", "right"} /\ {w.from, w.to, w.lo, w.hi} \subseteq Int
         /\ Today <= w.from
<1> DEFINE w == Clamped(asked)
<1>1. /\ DOMAIN asked = {"from", "to", "lo", "hi", "right"}
      /\ asked.from \in Int /\ asked.to \in Int /\ asked.lo \in Int /\ asked.hi \in Int
  BY ChainCacheAssumption
<1>2. Today \in Int
  BY TodayGrows DEF ClockInv, Today
<1>3. Max({asked.from, Today}) \in {asked.from, Today} /\ Today <= Max({asked.from, Today})
  BY <1>1, <1>2, PaddingEnds
<1>4. /\ DOMAIN w = {"from", "to", "lo", "hi", "right"} /\ w.from = Max({asked.from, Today})
      /\ w.to = asked.to /\ w.lo = asked.lo /\ w.hi = asked.hi /\ w.right = asked.right
  BY <1>1 DEF Clamped
<1> HIDE DEF w
<1>5. {w.from, w.to, w.lo, w.hi} \subseteq Int /\ Today <= w.from
  BY <1>1, <1>2, <1>3, <1>4
<1> QED BY <1>4, <1>5 DEF w

(* A fetch asks for what the window holds at least: the padding begins no    *)
(* later than today, and no strike is negative.                              *)
LEMMA WindowInRegion ==
  ASSUME ClockInv, NEW asked \in Windows
  PROVE  /\ Region(Padded(Clamped(asked)))
         /\ \A c \in Contracts : Inside(c, Clamped(asked)) => Inside(c, Padded(Clamped(asked)))
<1> DEFINE w == Clamped(asked)
           p == Padded(w)
           pad == PadStrikes(w)
<1>1. PAD_DAYS \in Nat /\ \A c \in Contracts : c.exp \in Int /\ c.strike \in Nat
  BY ChainCacheAssumption
<1>2. Today \in Int
  BY TodayGrows DEF ClockInv, Today
<1>3. /\ DOMAIN w = {"from", "to", "lo", "hi", "right"} /\ Today <= w.from
      /\ w.from \in Int /\ w.to \in Int /\ w.lo \in Int /\ w.hi \in Int
  BY ClampedIs
<1>4. pad \in Nat
  BY <1>3, PadStrikesIsNat
<1> HIDE DEF w, pad
<1>5. /\ DOMAIN p = {"from", "to", "lo", "hi", "right"} /\ p.from = Max({Today, w.from - PAD_DAYS}) /\ p.to = w.to + PAD_DAYS
      /\ p.lo = Max({0, w.lo - pad}) /\ p.hi = w.hi + pad /\ p.right = w.right
  BY <1>3 DEF Padded, pad
<1>6. p.from \in {Today, w.from - PAD_DAYS} /\ p.lo \in {0, w.lo - pad}
  <2>1. Today \in Int /\ w.from - PAD_DAYS \in Int /\ 0 \in Int /\ w.lo - pad \in Int
    BY <1>1, <1>2, <1>3, <1>4
  <2>2. Max({Today, w.from - PAD_DAYS}) \in {Today, w.from - PAD_DAYS}
    BY <2>1, PaddingEnds
  <2>3. Max({0, w.lo - pad}) \in {0, w.lo - pad}
    BY <2>1, PaddingEnds
  <2> QED BY <1>5, <2>2, <2>3
<1> HIDE DEF p
<1>7. Region(p)
  BY <1>1, <1>2, <1>3, <1>4, <1>5, <1>6 DEF Region
<1>8. ASSUME NEW c \in Contracts, Inside(c, w) PROVE Inside(c, p)
  BY <1>1, <1>2, <1>3, <1>4, <1>5, <1>6, <1>8 DEF Inside
<1> QED BY <1>7, <1>8 DEF p, w

(* What is whole stays so while contracts are only added to the listing.     *)
LEMMA StaysWhole ==
  ASSUME NEW rows, NEW w, NEW asOf, NEW since, NEW later, Whole(rows, w, asOf, since),
         \A c \in Contracts : later[c] \in 0 .. asOf - 1 => later[c] = since[c]
  PROVE  Whole(rows, w, asOf, later)
BY DEF Whole

(* Requests, without the provider.                                           *)
LEMMA RequestKeeps ==
  ASSUME ChainInv, NEW asked \in Windows, Request(asked)
  PROVE  ChainInv'
<1> DEFINE w == Clamped(asked)
<1>0. /\ clock \in Nat /\ clock' = clock /\ listedAt' = listedAt /\ chainRows' = chainRows
      /\ covers' = covers /\ kept' = kept /\ Today' = Today
      /\ MaxFlight \in Nat
  BY ChainCacheAssumption DEF Request, ChainInv, ClockInv, Today
<1>1. ClockInv' /\ RowsInv' /\ CoversInv' /\ KeptInv'
  BY <1>0 DEF ChainInv, ClockInv, RowsInv, CoversInv, KeptInv, Whole, Inside
<1>2. CASE UNCHANGED out /\ \E r \in Covering(w) : Says(w, Served(w), clock - covers[r])
  <2>1. PICK r \in Covering(w) : answer' = [window |-> w, rows |-> Served(w), age |-> clock - covers[r], at |-> clock]
    BY <1>2 DEF Says
  <2>2. answer'.rows = Served(w) /\ answer'.window = w /\ answer'.at = clock /\ answer'.age = clock - covers[r]
    BY <2>1
  <2>3. covers[r] \in Int /\ covers[r] <= clock
    BY DEF Covering, ChainInv, CoversInv
  <2>4. clock - (clock - covers[r]) = covers[r]
    BY <1>0, <2>3
  <2>5. ASSUME NEW c \in Contracts, Inside(c, w) PROVE Inside(c, r) /\ c.exp >= Today
    <3>0. /\ r.from \in Int /\ r.to \in Int /\ r.lo \in Int /\ r.hi \in Int
      BY DEF ChainInv, CoversInv, Covering, Region
    <3>1. /\ r.from <= w.from /\ w.to <= r.to /\ r.lo <= w.lo /\ w.hi <= r.hi /\ r.right \in {Either, w.right}
      BY DEF Covering
    <3>2. /\ Today <= w.from /\ w.from \in Int /\ w.to \in Int /\ w.lo \in Int /\ w.hi \in Int
          /\ c.exp \in Int /\ c.strike \in Int /\ Today \in Int
      BY ClampedIs, ChainCacheAssumption, TodayGrows DEF ChainInv, ClockInv, Today
    <3> HIDE DEF w
    <3>3. /\ w.from <= c.exp /\ c.exp <= w.to /\ w.lo <= c.strike /\ c.strike <= w.hi
          /\ w.right \in {Either, c.right}
      BY <2>5 DEF Inside
    <3>4. r.right \in {Either, c.right}
      BY <3>1, <3>3
    <3> QED BY <3>0, <3>1, <3>2, <3>3, <3>4 DEF Inside
  <2>6. Whole(Served(w), w, covers[r] - MaxFlight, listedAt)
    <3>1. ASSUME NEW c \in Contracts, Inside(c, w), listedAt[c] \in 0 .. covers[r] - MaxFlight - 1
          PROVE  c \in DOMAIN chainRows /\ chainRows[c].stamp >= covers[r]
      BY <2>5, <3>1 DEF Covering, ChainInv, CoversInv
    <3>2. ASSUME NEW c \in DOMAIN chainRows, Inside(c, w)
          PROVE  chainRows[c].quote \in Int /\ chainRows[c].quote >= covers[r] - MaxFlight
      <4>1. /\ c \in Contracts /\ chainRows[c].stamp \in Int /\ chainRows[c].quote \in Int
            /\ chainRows[c].quote >= chainRows[c].stamp - MaxFlight
            /\ listedAt[c] >= 0 /\ chainRows[c].quote >= listedAt[c] /\ listedAt[c] \in Int
        BY DEF ChainInv, RowsInv, ClockInv
      <4>2. CASE listedAt[c] \in 0 .. covers[r] - MaxFlight - 1
        BY <1>0, <2>3, <3>1, <3>2, <4>1, <4>2
      <4>3. CASE listedAt[c] >= covers[r] - MaxFlight
        BY <1>0, <2>3, <4>1, <4>3
      <4> QED BY <1>0, <2>3, <4>1, <4>2, <4>3
    <3>3. ASSUME NEW q \in Served(w)
          PROVE  \E c \in DOMAIN chainRows : Inside(c, w) /\ q.of = c /\ q.quote = chainRows[c].quote
      <4>1. PICK c \in {d \in DOMAIN chainRows : Inside(d, w)} : q = [of |-> c, quote |-> chainRows[c].quote]
        BY DEF Served
      <4> QED BY <4>1
    <3>4. ASSUME NEW c \in DOMAIN chainRows, Inside(c, w) PROVE \E q \in Served(w) : q.of = c
      <4>1. [of |-> c, quote |-> chainRows[c].quote] \in Served(w)
        BY <3>4 DEF Served
      <4> QED BY <4>1
    <3> HIDE DEF w
    <3> QED BY <1>0, <2>3, <3>1, <3>2, <3>3, <3>4 DEF Whole
  <2>7. AnswerInv'
    BY <1>0, <2>2, <2>3, <2>4, <2>6 DEF AnswerInv, Whole, Inside
  <2>8. OutInv'
    BY <1>0, <1>2 DEF OutInv, ChainInv, RequestOut, Fetched, Inside
  <2> QED BY <1>1, <2>7, <2>8 DEF ChainInv
<1>3. CASE UNCHANGED out /\ Remembered(w) /\ Says(w, kept[w].rows, clock - kept[w].at)
  <2>1. answer' = [window |-> w, rows |-> kept[w].rows, age |-> clock - kept[w].at, at |-> clock]
    BY <1>3 DEF Says
  <2>2. answer'.rows = kept[w].rows /\ answer'.window = w /\ answer'.at = clock /\ answer'.age = clock - kept[w].at
    BY <2>1
  <2>3. Whole(kept[w].rows, w, kept[w].at, listedAt) /\ kept[w].at <= clock /\ kept[w].at \in Int
    BY <1>3 DEF Remembered, ChainInv, KeptInv, Whole
  <2>4. clock - (clock - kept[w].at) = kept[w].at
    BY <1>0, <2>3
  <2>5. Whole(kept[w].rows, w, kept[w].at - MaxFlight, listedAt)
    <3> DEFINE at == kept[w].at
               rows == kept[w].rows
    <3> HIDE DEF at, rows, w
    <3>1. \A c \in Contracts : listedAt[c] \in 0 .. at - MaxFlight - 1 => listedAt[c] \in 0 .. at - 1
      BY <1>0, <2>3 DEF at
    <3>2. \A q \in rows : q.quote \in Int /\ q.quote >= at - MaxFlight
      BY <1>0, <2>3 DEF Whole, at, rows
    <3> QED BY <1>0, <2>3, <3>1, <3>2 DEF Whole, at, rows
  <2>6. AnswerInv'
    BY <1>0, <2>2, <2>3, <2>4, <2>5 DEF AnswerInv, Whole, Inside
  <2>7. OutInv'
    BY <1>0, <1>3 DEF OutInv, ChainInv, RequestOut, Fetched, Inside
  <2> QED BY <1>1, <2>6, <2>7 DEF ChainInv
<1>4. CASE /\ UNCHANGED answer
           /\ out' = out \cup {[window |-> w, region |-> Padded(w), began |-> clock, got |-> {}]}
  <2> DEFINE f == [window |-> w, region |-> Padded(w), began |-> clock, got |-> {}]
  <2>1. RequestOut(f, listedAt, clock)
    BY <1>0, WindowInRegion DEF RequestOut, ChainInv
  <2>2. OutInv'
    BY <1>0, <1>4, <2>1 DEF OutInv, ChainInv
  <2>3. AnswerInv'
    BY <1>0, <1>4 DEF AnswerInv, ChainInv, Whole, Inside
  <2> QED BY <1>1, <2>2, <2>3 DEF ChainInv
<1> QED BY <1>2, <1>3, <1>4 DEF Request

(* The provider answers, or does not.                                        *)
LEMMA QuotedKeeps ==
  ASSUME ChainInv, Delisting = FALSE, NEW f \in out, Quoted(f) \/ ProviderFails(f)
  PROVE  ChainInv'
<1> DEFINE got == {q \in Quotes : Inside(q.of, f.region)}
           g == [f EXCEPT !.got = {got}]
<1>0. /\ clock \in Nat /\ clock' = clock /\ listedAt' = listedAt /\ chainRows' = chainRows
      /\ covers' = covers /\ kept' = kept /\ answer' = answer /\ Today' = Today
  BY DEF Quoted, ProviderFails, ChainInv, ClockInv, Today
<1>1. ClockInv' /\ RowsInv' /\ CoversInv' /\ KeptInv' /\ AnswerInv'
  BY <1>0 DEF ChainInv, ClockInv, RowsInv, CoversInv, KeptInv, AnswerInv, Whole, Inside
<1>2. RequestOut(f, listedAt, clock)
  BY DEF ChainInv, OutInv
<1>3. Fetched(f, got, listedAt, clock)
  <2>1. ASSUME NEW q \in got
        PROVE  q.of \in Contracts /\ Inside(q.of, f.region) /\ listedAt[q.of] >= 0 /\ q.quote = clock
    <3>1. PICK c \in {d \in Contracts : listedAt[d] >= 0} : q = [of |-> c, quote |-> clock]
      BY DEF Quotes
    <3> QED BY <3>1
  <2>2. ASSUME NEW c \in Contracts, Inside(c, f.region), listedAt[c] \in 0 .. f.began - 1
        PROVE  \E q \in got : q.of = c
    <3>1. listedAt[c] >= 0
      BY <1>2, <2>2 DEF RequestOut
    <3>2. [of |-> c, quote |-> clock] \in got
      BY <2>2, <3>1 DEF Quotes
    <3> QED BY <3>2
  <2>3. f.began \in Int /\ f.began <= clock /\ \A c \in Contracts : listedAt[c] \in Int /\ listedAt[c] <= clock
    BY <1>2 DEF RequestOut, ChainInv, ClockInv
  <2> HIDE DEF got
  <2> QED BY <1>0, <2>1, <2>2, <2>3 DEF Fetched
<1>4. RequestOut(g, listedAt, clock)
  <2>1. /\ DOMAIN g = {"window", "region", "began", "got"} /\ g.window = f.window /\ g.region = f.region
        /\ g.began = f.began /\ g.got = {got}
    BY <1>2 DEF RequestOut
  <2> HIDE DEF g, got
  <2>2. Fetched(g, got, listedAt, clock)
    BY <1>3, <2>1 DEF Fetched
  <2> QED BY <1>2, <2>1, <2>2 DEF RequestOut
<1>5. out' \subseteq out \cup {g}
  BY DEF Quoted, ProviderFails
<1> HIDE DEF g
<1>6. \A h \in out' : RequestOut(h, listedAt', clock')
  BY <1>0, <1>4, <1>5 DEF ChainInv, OutInv
<1>7. OutInv'
  BY <1>6 DEF OutInv
<1> QED BY <1>1, <1>7 DEF ChainInv

(* A restart, and a new listing.                                             *)
LEMMA RestartKeeps ==
  ASSUME ChainInv, BackendRestarts
  PROVE  ChainInv'
<1>1. /\ clock' = clock /\ listedAt' = listedAt /\ chainRows' = chainRows
      /\ covers' = covers /\ DOMAIN kept' = {} /\ out' = {} /\ answer' = NoAnswer /\ Today' = Today
  BY DEF BackendRestarts, Today, None
<1>2. ClockInv' /\ RowsInv' /\ CoversInv' /\ KeptInv' /\ AnswerInv' /\ OutInv'
  BY <1>1 DEF ChainInv, ClockInv, RowsInv, CoversInv, KeptInv, AnswerInv, OutInv, Inside
<1> QED BY <1>2 DEF ChainInv

(* A contract that is listed is in no promise made before.                   *)
LEMMA ListsKeeps ==
  ASSUME ChainInv, Delisting = FALSE, NEW d \in Contracts, Lists(d)
  PROVE  ChainInv'
<1>1. /\ clock' = clock /\ chainRows' = chainRows /\ covers' = covers /\ kept' = kept /\ out' = out
      /\ answer' = answer /\ Today' = Today /\ clock \in Nat /\ MaxFlight \in Nat
      /\ listedAt[d] = -1 /\ listedAt' = [listedAt EXCEPT ![d] = clock]
  BY ChainCacheAssumption DEF Lists, ChainInv, ClockInv, Today
<1>2. /\ listedAt \in [Contracts -> Int] /\ listedAt' \in [Contracts -> Int]
      /\ \A c \in Contracts : -1 <= listedAt[c] /\ listedAt[c] <= clock
      /\ \A c \in Contracts : -1 <= listedAt'[c] /\ listedAt'[c] <= clock
      /\ \A c \in Contracts : listedAt[c] >= 0 => listedAt'[c] = listedAt[c]
      /\ \A c \in Contracts, n \in Int : n <= clock /\ listedAt'[c] \in 0 .. n - 1 => listedAt'[c] = listedAt[c]
  BY <1>1 DEF ChainInv, ClockInv
<1>3. ClockInv'
  BY <1>1, <1>2 DEF ClockInv
<1>4. RowsInv'
  BY <1>1, <1>2 DEF ChainInv, RowsInv
<1>5. CoversInv'
  <2>1. ASSUME NEW r \in DOMAIN covers, NEW c \in Contracts, listedAt'[c] \in 0 .. covers[r] - MaxFlight - 1
        PROVE  listedAt[c] = listedAt'[c]
    <3>1. covers[r] \in Int /\ covers[r] <= clock
      BY DEF ChainInv, CoversInv
    <3>2. covers[r] - MaxFlight \in Int /\ covers[r] - MaxFlight <= clock
      BY <1>1, <3>1
    <3> QED BY <1>2, <2>1, <3>2
  <2> QED BY <1>1, <2>1 DEF ChainInv, CoversInv, Inside
<1>6. ASSUME NEW rows, NEW w, NEW asOf, asOf <= clock, Whole(rows, w, asOf, listedAt)
      PROVE  Whole(rows, w, asOf, listedAt')
  <2>1. asOf \in Int
    BY <1>6 DEF Whole
  <2> QED BY <1>2, <1>6, <2>1, StaysWhole
<1>7. KeptInv'
  BY <1>1, <1>6 DEF ChainInv, KeptInv
<1>8. AnswerInv'
  <2>1. CASE answer = NoAnswer
    BY <1>1, <2>1 DEF AnswerInv
  <2>2. CASE answer # NoAnswer
    <3> DEFINE asOf == answer.at - answer.age - MaxFlight
    <3>1. /\ Whole(answer.rows, answer.window, asOf, listedAt) /\ asOf <= clock
          /\ answer.at \in Int /\ answer.age \in Int /\ answer.at - answer.age <= clock
      BY <1>1, <2>2 DEF ChainInv, AnswerInv, Whole
    <3>2. Whole(answer.rows, answer.window, asOf, listedAt')
      BY <1>6, <3>1
    <3> QED BY <1>1, <3>1, <3>2 DEF AnswerInv
  <2> QED BY <2>1, <2>2
<1>9. OutInv'
  <2>1. ASSUME NEW f \in out PROVE RequestOut(f, listedAt', clock)
    <3>1. RequestOut(f, listedAt, clock)
      BY DEF ChainInv, OutInv
    <3>2. ASSUME NEW got, Fetched(f, got, listedAt, clock) PROVE Fetched(f, got, listedAt', clock)
      <4>1. f.began \in Int /\ f.began <= clock
        BY <3>1 DEF RequestOut
      <4> QED BY <1>2, <3>2, <4>1 DEF Fetched
    <3> QED BY <3>1, <3>2 DEF RequestOut
  <2> QED BY <1>1, <2>1 DEF OutInv
<1> QED BY <1>3, <1>4, <1>5, <1>7, <1>8, <1>9 DEF ChainInv

(* Time passes.                                                              *)
LEMMA TickKeeps ==
  ASSUME ChainInv, Tick
  PROVE  ChainInv'
<1>1. /\ clock \in Nat /\ clock' = clock + 1 /\ listedAt' = listedAt /\ chainRows' = chainRows
      /\ covers' = covers /\ kept' = kept /\ out' = out /\ answer' = answer /\ MaxFlight \in Nat
      /\ \A f \in out : clock - f.began < MaxFlight
  BY ChainCacheAssumption DEF Tick, ChainInv, ClockInv
<1>2. Today \in Int /\ Today' \in Int /\ Today <= Today'
  <2>1. clock \in Nat /\ clock' \in Nat /\ clock <= clock'
    BY <1>1
  <2>2. clock \div DayLength \in Nat /\ clock' \div DayLength \in Nat /\ clock \div DayLength <= clock' \div DayLength
    BY <2>1, TodayGrows
  <2> QED BY <2>2 DEF Today
<1>3. ClockInv'
  BY <1>1 DEF ChainInv, ClockInv
<1>4. RowsInv'
  BY <1>1 DEF ChainInv, RowsInv
<1>5. CoversInv'
  <2>1. \A c \in Contracts : c.exp >= Today' => c.exp >= Today
    BY <1>2, ChainCacheAssumption
  <2> QED BY <1>1, <2>1 DEF ChainInv, CoversInv, Inside
<1>6. KeptInv'
  BY <1>1 DEF ChainInv, KeptInv, Whole
<1>7. AnswerInv'
  BY <1>1 DEF ChainInv, AnswerInv, Whole
<1>8. OutInv'
  <2>1. ASSUME NEW f \in out PROVE RequestOut(f, listedAt, clock + 1)
    <3>1. RequestOut(f, listedAt, clock) /\ f.began \in Int /\ clock - f.began < MaxFlight
      BY <1>1 DEF ChainInv, OutInv, RequestOut
    <3>2. ASSUME NEW got, Fetched(f, got, listedAt, clock) PROVE Fetched(f, got, listedAt, clock + 1)
      BY <1>1, <3>2 DEF Fetched
    <3> QED BY <1>1, <3>1, <3>2 DEF RequestOut
  <2> QED BY <1>1, <2>1 DEF OutInv
<1> QED BY <1>3, <1>4, <1>5, <1>6, <1>7, <1>8 DEF ChainInv

(* An answer lands: the rows of what it holds are the newest.                *)
LEMMA UpsertedIs ==
  ASSUME ChainInv, NEW f, RequestOut(f, listedAt, clock), NEW got, Fetched(f, got, listedAt, clock)
  PROVE  LET up == Upserted(got) IN
         /\ \A c \in DOMAIN up :
              /\ c \in Contracts /\ up[c].stamp \in Int /\ up[c].quote \in Int /\ up[c].stamp <= clock
              /\ up[c].quote >= up[c].stamp - MaxFlight /\ listedAt[c] >= 0 /\ up[c].quote >= listedAt[c]
         /\ \A c \in DOMAIN chainRows : c \in DOMAIN up /\ up[c].stamp >= chainRows[c].stamp
         /\ \A q \in got : q.of \in DOMAIN up /\ up[q.of].stamp = clock
<1> DEFINE up == Upserted(got)
           of(c) == CHOOSE q \in got : q.of = c
<1>0. MaxFlight \in Nat /\ clock \in Nat /\ f.began \in Int /\ clock <= f.began + MaxFlight
  BY ChainCacheAssumption DEF ChainInv, ClockInv, RequestOut
<1>1. /\ DOMAIN up = DOMAIN chainRows \cup {q.of : q \in got}
      /\ \A c \in DOMAIN up : up[c] = IF \E q \in got : q.of = c THEN [quote |-> of(c).quote, stamp |-> clock]
                                      ELSE chainRows[c]
  BY DEF Upserted
<1> HIDE DEF up
<1>2. ASSUME NEW c \in DOMAIN up, \E q \in got : q.of = c
      PROVE  /\ c \in Contracts /\ up[c].stamp = clock /\ up[c].quote \in Int
             /\ up[c].quote >= clock - MaxFlight /\ listedAt[c] >= 0 /\ up[c].quote >= listedAt[c]
  <2>1. of(c) \in got /\ of(c).of = c
    BY <1>2
  <2>2. up[c] = [quote |-> of(c).quote, stamp |-> clock]
    BY <1>1, <1>2
  <2> HIDE DEF of
  <2>3. /\ c \in Contracts /\ of(c).quote \in Int /\ of(c).quote >= f.began /\ of(c).quote >= listedAt[c]
        /\ listedAt[c] >= 0
    BY <2>1 DEF Fetched
  <2> QED BY <1>0, <2>2, <2>3
<1>3. ASSUME NEW c \in DOMAIN up, ~ \E q \in got : q.of = c
      PROVE  c \in DOMAIN chainRows /\ up[c] = chainRows[c]
  BY <1>1, <1>3
<1>4. \A c \in DOMAIN chainRows :
        /\ c \in Contracts /\ chainRows[c].stamp \in Int /\ chainRows[c].quote \in Int
        /\ chainRows[c].stamp <= clock /\ chainRows[c].quote >= chainRows[c].stamp - MaxFlight
        /\ listedAt[c] >= 0 /\ chainRows[c].quote >= listedAt[c]
  BY DEF ChainInv, RowsInv
<1>5. ASSUME NEW c \in DOMAIN up
      PROVE  /\ c \in Contracts /\ up[c].stamp \in Int /\ up[c].quote \in Int /\ up[c].stamp <= clock
             /\ up[c].quote >= up[c].stamp - MaxFlight /\ listedAt[c] >= 0 /\ up[c].quote >= listedAt[c]
  <2>1. CASE \E q \in got : q.of = c
    BY <1>0, <1>2, <2>1
  <2>2. CASE ~ \E q \in got : q.of = c
    BY <1>3, <1>4, <2>2
  <2> QED BY <2>1, <2>2
<1>6. ASSUME NEW c \in DOMAIN chainRows PROVE c \in DOMAIN up /\ up[c].stamp >= chainRows[c].stamp
  <2>1. c \in DOMAIN up
    BY <1>1
  <2>2. CASE \E q \in got : q.of = c
    BY <1>2, <1>4, <2>1, <2>2
  <2>3. CASE ~ \E q \in got : q.of = c
    BY <1>3, <1>4, <2>1, <2>3
  <2> QED BY <2>1, <2>2, <2>3
<1>7. ASSUME NEW q \in got PROVE q.of \in DOMAIN up /\ up[q.of].stamp = clock
  BY <1>1, <1>2
<1> QED BY <1>5, <1>6, <1>7 DEF up

(* An answer that lands brings rows and a cover that fit.                    *)
LEMMA LandedKeeps ==
  ASSUME ChainInv, NEW f \in out, Landed(f)
  PROVE  ChainInv'
<1>1. PICK got : /\ got = CHOOSE g \in f.got : TRUE
                 /\ Fetched(f, got, listedAt, clock) /\ RequestOut(f, listedAt, clock)
  <2>1. RequestOut(f, listedAt, clock) /\ f.got # {}
    BY DEF ChainInv, OutInv, Landed
  <2>2. PICK got : f.got = {got} /\ Fetched(f, got, listedAt, clock)
    BY <2>1 DEF RequestOut
  <2> QED BY <2>1, <2>2
<1> DEFINE up == Upserted(got)
           rows == {q \in got : Inside(q.of, f.window)}
           now == [w \in DOMAIN kept \cup {f.window} |-> IF w = f.window THEN [at |-> f.began, rows |-> rows] ELSE kept[w]]
           cov == [r \in DOMAIN covers \cup {f.region} |-> IF r = f.region THEN clock ELSE covers[r]]
<1>2. /\ chainRows' = SweptRows(up) /\ covers' = SweptCovers(cov)
      /\ kept' = [w \in {x \in DOMAIN now : clock - now[x].at < MemTicks} |-> now[w]]
      /\ answer' = [window |-> f.window, rows |-> rows, age |-> clock - f.began, at |-> clock]
      /\ out' = out \ {f} /\ clock' = clock /\ listedAt' = listedAt
  BY <1>1 DEF Landed, Store, Says
<1>3. /\ clock \in Nat /\ MaxFlight \in Nat /\ KeepTicks \in Nat /\ Today' = Today /\ Region(f.region)
      /\ f.began \in Int /\ f.began <= clock /\ clock <= f.began + MaxFlight
      /\ \A c \in Contracts : Inside(c, f.window) => Inside(c, f.region)
  BY <1>1, <1>2, ChainCacheAssumption DEF ChainInv, ClockInv, RequestOut, Today
<1>4. /\ \A c \in DOMAIN up :
           /\ c \in Contracts /\ up[c].stamp \in Int /\ up[c].quote \in Int /\ up[c].stamp <= clock
           /\ up[c].quote >= up[c].stamp - MaxFlight /\ listedAt[c] >= 0 /\ up[c].quote >= listedAt[c]
      /\ \A c \in DOMAIN chainRows : c \in DOMAIN up /\ up[c].stamp >= chainRows[c].stamp
      /\ \A q \in got : q.of \in DOMAIN up /\ up[q.of].stamp = clock
  BY <1>1, UpsertedIs
<1>5. /\ DOMAIN chainRows' = {x \in DOMAIN up : up[x].stamp >= clock - KeepTicks /\ x.exp >= Today}
      /\ \A c \in DOMAIN chainRows' : chainRows'[c] = up[c]
  BY <1>2 DEF SweptRows
<1> HIDE DEF up
<1>6. ClockInv'
  BY <1>2 DEF ChainInv, ClockInv
<1>7. RowsInv'
  BY <1>2, <1>4, <1>5 DEF RowsInv
<1>8. Whole(rows, f.window, f.began, listedAt)
  <2>1. ASSUME NEW c \in Contracts, Inside(c, f.window), listedAt[c] \in 0 .. f.began - 1
        PROVE  \E q \in rows : q.of = c
    BY <1>1, <1>3, <2>1 DEF Fetched
  <2>2. \A q \in rows : Inside(q.of, f.window) /\ q.quote \in Int /\ q.quote >= f.began
    BY <1>1 DEF Fetched
  <2> HIDE DEF rows
  <2> QED BY <1>3, <2>1, <2>2 DEF Whole
<1>9. CoversInv'
  <2>1. /\ DOMAIN covers' = {x \in DOMAIN cov : cov[x] >= clock - KeepTicks}
        /\ \A r \in DOMAIN covers' : covers'[r] = cov[r] /\ r \in DOMAIN covers \cup {f.region}
    BY <1>2 DEF SweptCovers
  <2>2. ASSUME NEW r \in DOMAIN covers'
        PROVE  /\ Region(r) /\ covers'[r] \in Int /\ covers'[r] <= clock /\ covers'[r] >= clock - KeepTicks
               /\ \A c \in Contracts :
                    Inside(c, r) /\ c.exp >= Today /\ listedAt[c] \in 0 .. covers'[r] - MaxFlight - 1 =>
                      c \in DOMAIN up /\ up[c].stamp >= covers'[r]
    <3>1. covers'[r] >= clock - KeepTicks
      BY <2>1
    <3>2. CASE r = f.region
      <4>1. covers'[r] = clock
        BY <2>1, <3>2
      <4>2. ASSUME NEW c \in Contracts, Inside(c, f.region), listedAt[c] \in 0 .. clock - MaxFlight - 1
            PROVE  c \in DOMAIN up /\ up[c].stamp = clock
        <5>1. listedAt[c] \in 0 .. f.began - 1
          BY <1>3, <4>2
        <5>2. \E q \in got : q.of = c
          BY <1>1, <4>2, <5>1 DEF Fetched
        <5> QED BY <1>4, <5>2
      <4> QED BY <1>3, <3>1, <3>2, <4>1, <4>2
    <3>3. CASE r # f.region
      <4>1. r \in DOMAIN covers /\ covers'[r] = covers[r]
        BY <2>1, <3>3
      <4>2. /\ Region(r) /\ covers[r] \in Int /\ covers[r] <= clock
            /\ \A c \in Contracts :
                 Inside(c, r) /\ c.exp >= Today /\ listedAt[c] \in 0 .. covers[r] - MaxFlight - 1 =>
                   c \in DOMAIN chainRows /\ chainRows[c].stamp >= covers[r]
        BY <4>1 DEF ChainInv, CoversInv
      <4>3. \A c \in DOMAIN chainRows : chainRows[c].stamp \in Int
        BY DEF ChainInv, RowsInv
      <4> QED BY <1>4, <3>1, <4>1, <4>2, <4>3
    <3> QED BY <3>2, <3>3
  <2> HIDE DEF cov
  <2>3. ASSUME NEW r \in DOMAIN covers', NEW c \in Contracts, Inside(c, r), c.exp >= Today,
               listedAt[c] \in 0 .. covers'[r] - MaxFlight - 1
        PROVE  c \in DOMAIN chainRows' /\ chainRows'[c].stamp >= covers'[r]
    <3>1. c \in DOMAIN up /\ up[c].stamp >= covers'[r] /\ covers'[r] \in Int /\ covers'[r] >= clock - KeepTicks
      BY <2>2, <2>3
    <3>2. up[c].stamp \in Int
      BY <1>4, <3>1
    <3>3. c \in DOMAIN chainRows'
      BY <1>3, <1>5, <2>3, <3>1, <3>2
    <3> QED BY <1>5, <3>1, <3>3
  <2> QED BY <1>2, <1>3, <2>2, <2>3 DEF CoversInv, Inside
<1> HIDE DEF rows
<1>10. KeptInv'
  <2>1. ASSUME NEW w \in DOMAIN kept' PROVE Whole(kept'[w].rows, w, kept'[w].at, listedAt) /\ kept'[w].at <= clock
    <3>1. w \in DOMAIN now /\ kept'[w] = now[w]
      BY <1>2
    <3>2. CASE w = f.window
      BY <1>3, <1>8, <3>1, <3>2
    <3>3. CASE w # f.window
      BY <3>1, <3>3 DEF ChainInv, KeptInv
    <3> QED BY <3>2, <3>3
  <2> QED BY <1>2, <2>1 DEF KeptInv
<1>11. AnswerInv'
  <2>1. /\ answer'.rows = rows /\ answer'.window = f.window /\ answer'.at = clock /\ answer'.age = clock - f.began
    BY <1>2
  <2>2. Whole(rows, f.window, f.began - MaxFlight, listedAt)
    BY <1>3, <1>8 DEF Whole
  <2>3. clock - (clock - f.began) = f.began
    BY <1>3
  <2> QED BY <1>2, <1>3, <2>1, <2>2, <2>3 DEF AnswerInv, Whole, Inside
<1>12. OutInv'
  BY <1>2 DEF ChainInv, OutInv
<1> QED BY <1>6, <1>7, <1>9, <1>10, <1>11, <1>12 DEF ChainInv

(* Every step keeps the invariant, of a provider that delists nothing.       *)
LEMMA ChainInvStep ==
  ASSUME Delisting = FALSE, ChainInv, [ChainNext]_chainVars
  PROVE  ChainInv'
<1>1. CASE UNCHANGED chainVars
  <2>1. /\ clock' = clock /\ listedAt' = listedAt /\ chainRows' = chainRows /\ covers' = covers /\ kept' = kept
        /\ out' = out /\ answer' = answer /\ Today' = Today
    BY <1>1 DEF chainVars, Today
  <2>2. ClockInv' /\ RowsInv' /\ CoversInv' /\ KeptInv' /\ OutInv' /\ AnswerInv'
    BY <2>1 DEF ChainInv, ClockInv, RowsInv, CoversInv, KeptInv, OutInv, AnswerInv, Whole, Inside
  <2> QED BY <2>2 DEF ChainInv
<1> QED BY <1>1, TickKeeps, RestartKeeps, RequestKeeps, QuotedKeeps, LandedKeeps, ListsKeeps DEF ChainNext

(* Where nothing is delisted, an answer misses no contract it should have    *)
(* and is no older than it says, whichever requests land in which order,     *)
(* whatever the database sweeps and whenever the backend restarts.           *)
THEOREM ChainsAreWhole ==
  ASSUME Delisting = FALSE
  PROVE  ChainSpec => []AnswerIsWhole
<1>1. ChainInit => ChainInv
  BY DEF ChainInit, ChainInv, ClockInv, RowsInv, CoversInv, KeptInv, OutInv, AnswerInv, None
<1>2. ChainInv /\ [ChainNext]_chainVars => ChainInv'
  BY ChainInvStep
<1>3. ChainInv => AnswerIsWhole
  BY DEF ChainInv, AnswerInv, Whole, AnswerIsWhole
<1> QED BY <1>1, <1>2, <1>3, PTL DEF ChainSpec
-----------------------------------------------------------------------------
(* The news *)

(* An article: how often its words were rewritten, how long its body is.     *)
Article == [rev : Nat, body : Nat]
Articles(f) == DOMAIN f \subseteq Nat /\ \A a \in DOMAIN f : f[a] \in Article

(* What is stored or on its way are articles, whatever their age, and the    *)
(* index speaks of the words that are stored.                                *)
NewsInv ==
  /\ feed \in Seq(Article)
  /\ Articles(news)
  /\ fts = [a \in DOMAIN news |-> news[a].rev]
  /\ \A x \in fetched : Articles(x.got)
  /\ \A r \in reading : r.had \in Nat

(* What a step of the store may not do, of NewsStaysReadable.                *)
Readable ==
  /\ \A a \in DOMAIN news \ DOMAIN news' : \A b \in DOMAIN news' : a < b
  /\ \A a \in DOMAIN news \cap DOMAIN news' : news[a].body > 0 => news'[a].body > 0
  /\ fts' = [a \in DOMAIN news' |-> news'[a].rev]

(* The longer of two bodies.                                                 *)
LEMMA LongerIs ==
  ASSUME NEW old \in Nat, NEW new \in Nat
  PROVE  LongerBody(old, new) \in Nat /\ LongerBody(old, new) >= old
<1>1. \E x \in {old, new} : \A y \in {old, new} : x >= y
  OBVIOUS
<1> QED BY <1>1 DEF LongerBody, Max

(* A transaction of the store, of any articles, read whenever they were.     *)
LEMMA UpsertKeeps ==
  ASSUME NewsInv, NEW got, Articles(got), Upsert(got)
  PROVE  Articles(news') /\ Readable
<1>1. DOMAIN news' = DOMAIN news \cup DOMAIN got
  BY DEF Upsert
<1>2. ASSUME NEW a \in DOMAIN news'
      PROVE  /\ news'[a] \in Article /\ fts'[a] = news'[a].rev
             /\ a \in DOMAIN news => news'[a].body >= news[a].body /\ news[a].body \in Nat
  <2>1. CASE a \notin DOMAIN got
    BY <1>1, <1>2, <2>1 DEF Upsert, Indexed, NewsInv, Articles, Article
  <2>2. CASE a \in DOMAIN got /\ a \in DOMAIN news
    <3>1. got[a] \in Article /\ news[a] \in Article
      BY <2>2 DEF NewsInv, Articles
    <3>2. LongerBody(news[a].body, got[a].body) \in Nat /\ LongerBody(news[a].body, got[a].body) >= news[a].body
      BY <3>1, LongerIs DEF Article
    <3>3. news'[a] = [rev |-> got[a].rev, body |-> LongerBody(news[a].body, got[a].body)] /\ fts'[a] = got[a].rev
      BY <2>2, <1>1 DEF Upsert, Indexed, NewsInv
    <3> QED BY <3>1, <3>2, <3>3 DEF Article
  <2>3. CASE a \in DOMAIN got /\ a \notin DOMAIN news
    <3>1. news'[a] = got[a] /\ fts'[a] = got[a].rev
      BY <2>3, <1>1 DEF Upsert, Indexed, NewsInv
    <3> QED BY <3>1, <2>3 DEF Articles
  <2> QED BY <2>1, <2>2, <2>3
<1>3. fts' = [a \in DOMAIN news' |-> news'[a].rev]
  <2>1. fts' = [a \in DOMAIN news' |-> IF a \in DOMAIN got THEN got[a].rev ELSE fts[a]]
    BY <1>1 DEF Upsert, Indexed, NewsInv
  <2> QED BY <1>2, <2>1
<1>4. \A a \in DOMAIN news \cap DOMAIN news' : news[a].body > 0 => news'[a].body > 0
  BY <1>1, <1>2 DEF Article
<1>5. Articles(news')
  BY <1>1, <1>2 DEF NewsInv, Articles
<1> QED BY <1>1, <1>3, <1>4, <1>5 DEF Readable

(* What is asked for is of the feed.                                         *)
LEMMA PageIsOfFeed ==
  ASSUME NewsInv
  PROVE  \A n, asked : Articles(FeedPage(n, asked))
BY DEF FeedPage, NewestOf, Articles, NewsInv

(* An answer that joins those that are out.                                  *)
LEMMA FetchKeeps ==
  ASSUME NewsInv, NEW by, NEW got, NEW more, Articles(got), Fetch(by, got, more)
  PROVE  \A x \in fetched' : Articles(x.got)
<1>1. [by |-> by, got |-> got, more |-> more].got = got
  OBVIOUS
<1> QED BY <1>1 DEF Fetch, NewsInv

(* Every step keeps the invariant and what was readable.                     *)
LEMMA NewsStep ==
  ASSUME NewsInv, [NewsNext]_newsVars
  PROVE  NewsInv' /\ Readable
<1>0. UNCHANGED <<news, fts>> => Readable
  BY DEF Readable, NewsInv
<1>1. CASE Publishes
  <2>1. PICK b \in Bodies : feed' = Append(feed, [rev |-> 1, body |-> b])
    BY <1>1 DEF Publishes
  <2>2. feed' \in Seq(Article)
    BY <2>1 DEF Article, NewsInv, Bodies
  <2> QED BY <1>0, <1>1, <2>2 DEF Publishes, NewsInv
<1>2. ASSUME NEW a \in DOMAIN feed, Revises(a) PROVE NewsInv' /\ Readable
  <2>1. PICK b \in Bodies : feed' = [feed EXCEPT ![a] = [rev |-> @.rev + 1, body |-> b]]
    BY <1>2 DEF Revises
  <2>2. feed[a] \in Article
    BY <1>2 DEF NewsInv
  <2>3. [rev |-> feed[a].rev + 1, body |-> b] \in Article
    BY <2>2 DEF Article, Bodies
  <2>4. feed' \in Seq(Article)
    BY <2>1, <2>3 DEF NewsInv
  <2> QED BY <1>0, <1>2, <2>4 DEF Revises, NewsInv
<1>3. CASE MinutePasses
  BY <1>0, <1>3 DEF MinutePasses, NewsInv
<1>4. CASE AsksNews
  <2>1. \A x \in fetched' : Articles(x.got)
    <3>1. CASE news = <<>>
      <4>1. Fetch("refresh", FeedPage(PAGE, DOMAIN feed), PAGE_LIMIT)
        BY <1>4, <3>1 DEF AsksNews
      <4>2. Articles(FeedPage(PAGE, DOMAIN feed))
        BY PageIsOfFeed
      <4> QED BY <4>1, <4>2, FetchKeeps
    <3>2. CASE news # <<>>
      <4> DEFINE asked == {a \in DOMAIN feed : a >= Max(DOMAIN news)}
      <4>1. Fetch("refresh", FeedPage(PAGE, asked), 0)
        BY <1>4, <3>2 DEF AsksNews
      <4>2. Articles(FeedPage(PAGE, asked))
        BY PageIsOfFeed
      <4> HIDE DEF asked
      <4> QED BY <4>1, <4>2, FetchKeeps
    <3> QED BY <3>1, <3>2
  <2> QED BY <1>0, <1>4, <2>1 DEF AsksNews, NewsInv
<1>5. ASSUME NEW x \in fetched, StoresNews(x) PROVE NewsInv' /\ Readable
  <2>1. Articles(x.got) /\ Upsert(x.got)
    BY <1>5 DEF StoresNews, NewsInv
  <2>2. Articles(news') /\ Readable
    BY <2>1, UpsertKeeps
  <2> QED BY <1>5, <2>2 DEF StoresNews, NewsInv, Readable
<1>6. ASSUME NEW x \in fetched, FetchFails(x) PROVE NewsInv' /\ Readable
  BY <1>0, <1>6 DEF FetchFails, NewsInv
<1>7. ASSUME NEW x \in fetched, WalksNews(x) PROVE NewsInv' /\ Readable
  <2> DEFINE older == FeedPage(PAGE, {a \in DOMAIN feed : \A b \in DOMAIN x.got : a < b})
             more == IF older = <<>> THEN 0 ELSE x.more - 1
             longer == [by |-> x.by, got |-> Together(older, x.got), more |-> more]
  <2>1. Articles(older) /\ Articles(x.got)
    BY <1>7, PageIsOfFeed DEF NewsInv
  <2>2. fetched' = (fetched \ {x}) \cup {longer}
    BY <1>7 DEF WalksNews
  <2> HIDE DEF older, more
  <2>3. Articles(Together(older, x.got))
    BY <2>1 DEF Articles, Together
  <2>4. ASSUME NEW y \in fetched' PROVE Articles(y.got)
    <3>1. CASE y \in fetched
      BY <3>1 DEF NewsInv
    <3>2. CASE y = longer
      <4>1. y.got = Together(older, x.got)
        BY <3>2
      <4> QED BY <4>1, <2>3
    <3> QED BY <2>2, <2>4, <3>1, <3>2
  <2> QED BY <1>0, <1>7, <2>4 DEF WalksNews, NewsInv
<1>8. ASSUME NEW s \in NewsSymbols, LiveNews(s) PROVE NewsInv' /\ Readable
  <2>1. Fetch("live", FeedPage(LIVE, About(s)), 0)
    BY <1>8 DEF LiveNews
  <2>2. Articles(FeedPage(LIVE, About(s)))
    BY PageIsOfFeed
  <2>3. \A x \in fetched' : Articles(x.got)
    BY <2>1, <2>2, FetchKeeps
  <2> QED BY <1>0, <1>8, <2>3 DEF LiveNews, NewsInv
<1>9. ASSUME NEW asked, RecorderNews(asked) PROVE NewsInv' /\ Readable
  <2>1. Fetch("recorder", FeedPage(PAGE, asked), 0)
    BY <1>9 DEF RecorderNews
  <2>2. Articles(FeedPage(PAGE, asked))
    BY PageIsOfFeed
  <2>3. \A x \in fetched' : Articles(x.got)
    BY <2>1, <2>2, FetchKeeps
  <2> QED BY <1>0, <1>9, <2>3 DEF RecorderNews, NewsInv
<1>10. ASSUME NEW cutoff \in 1 .. Len(feed) + 1, Prunes(cutoff) PROVE NewsInv' /\ Readable
  <2>1. news' = Retained(news, cutoff) /\ fts' = Retained(fts, cutoff)
    BY <1>10 DEF Prunes
  <2>2. cutoff \in Nat
    BY DEF NewsInv
  <2>3. /\ DOMAIN news' = {b \in DOMAIN news : b >= cutoff}
        /\ \A a \in DOMAIN news' : news'[a] = news[a]
    BY <2>1 DEF Retained
  <2>4. fts' = [a \in DOMAIN news' |-> news'[a].rev]
    BY <2>1, <2>3 DEF Retained, NewsInv
  <2>5. Articles(news')
    BY <2>3 DEF NewsInv, Articles
  <2>6. \A a \in DOMAIN news \ DOMAIN news' : \A b \in DOMAIN news' : a < b
    BY <2>2, <2>3 DEF NewsInv, Articles
  <2>7. Readable
    BY <2>3, <2>4, <2>6 DEF Readable
  <2> QED BY <1>10, <2>4, <2>5, <2>7 DEF Prunes, NewsInv
<1>11. ASSUME NEW a \in DOMAIN feed, Opens(a) PROVE NewsInv' /\ Readable
  <2>1. news[a].body \in Nat
    BY <1>11 DEF Opens, NewsInv, Articles, Article
  <2> QED BY <1>0, <1>11, <2>1 DEF Opens, NewsInv
<1>12. ASSUME NEW r \in reading, Extracted(r) PROVE NewsInv' /\ Readable
  <2>1. PICK got \in Bodies : news' = IF got > r.had THEN SetContent(r.of, got) ELSE news
    BY <1>12 DEF Extracted
  <2>2. r.had \in Nat /\ got \in Nat
    BY DEF NewsInv, Bodies
  <2>3. UNCHANGED fts /\ reading' \subseteq reading
    BY <1>12 DEF Extracted
  <2>4. CASE got > r.had /\ r.of \in DOMAIN news
    <3>1. news' = [news EXCEPT ![r.of].body = got] /\ got > 0
      BY <2>1, <2>2, <2>4 DEF SetContent
    <3>2. ASSUME NEW a \in DOMAIN news
          PROVE  news'[a] \in Article /\ news'[a].rev = news[a].rev /\ (news[a].body > 0 => news'[a].body > 0)
      <4>1. news[a] \in Article
        BY DEF NewsInv, Articles
      <4>2. CASE a = r.of
        <5>1. news'[a] = [news[a] EXCEPT !.body = got]
          BY <3>1, <4>2
        <5> QED BY <5>1, <4>1, <3>1, <2>2 DEF Article
      <4>3. CASE a # r.of
        BY <3>1, <4>1, <4>3
      <4> QED BY <4>2, <4>3
    <3>3. DOMAIN news' = DOMAIN news
      BY <3>1
    <3>4. fts' = [a \in DOMAIN news' |-> news'[a].rev]
      BY <2>3, <3>2, <3>3 DEF NewsInv
    <3>5. Articles(news')
      BY <3>2, <3>3 DEF NewsInv, Articles
    <3> QED BY <1>12, <2>3, <3>2, <3>3, <3>4, <3>5 DEF Extracted, NewsInv, Readable
  <2>5. CASE ~(got > r.had /\ r.of \in DOMAIN news)
    <3>1. news' = news
      BY <2>1, <2>5 DEF SetContent
    <3> QED BY <1>0, <1>12, <2>3, <3>1 DEF Extracted, NewsInv
  <2> QED BY <2>4, <2>5
<1>13. CASE UNCHANGED newsVars
  BY <1>0, <1>13 DEF newsVars, NewsInv
<1> QED BY <1>1, <1>2, <1>3, <1>4, <1>5, <1>6, <1>7, <1>8, <1>9, <1>10, <1>11, <1>12, <1>13 DEF NewsNext

(* newsstore.py, recorder.py: whichever of the writers comes when, and       *)
(* however old the answers are that they store, an article goes only with    *)
(* all that are older, none loses its text, and the full-text index is of    *)
(* the words that are stored.                                                *)
THEOREM ArticlesStayReadable == NewsInit /\ [][NewsNext]_newsVars => NewsStaysReadable
<1>1. NewsInit => NewsInv
  BY DEF NewsInit, NewsInv, Articles
<1>2. NewsInv /\ [NewsNext]_newsVars => NewsInv'
  BY NewsStep
<1>3. NewsInv /\ [NewsNext]_newsVars => [Readable]_<<news, fts>>
  BY NewsStep
<1>4. NewsStaysReadable <=> [][Readable]_<<news, fts>>
  BY PTL DEF NewsStaysReadable, Readable
<1> QED BY <1>1, <1>2, <1>3, <1>4, PTL

-----------------------------------------------------------------------------
(* The symbols *)

(* What a thread holds is a list as the broker gave it, or a whole index,    *)
(* and the table is one of the lists, or still empty.                        *)
SymbolInv ==
  /\ assets \in AssetLists \cup {{}}
  /\ syncing = [t \in SyncThreads |-> syncing[t]]
  /\ \A t \in SyncThreads :
       /\ syncing[t].at = "replace" => syncing[t].got \in AssetLists
       /\ syncing[t].at = "load" => assets \in AssetLists
       /\ syncing[t].at = "swap" => syncing[t].got \in {l \cup SUPPLEMENT : l \in AssetLists}

(* A thread moves on, holding something, and the table stays.                *)
LEMMA MoveKeeps ==
  ASSUME SymbolInv, NEW t \in SyncThreads, NEW at, NEW got, Moves(t, at, got), assets' \in AssetLists \/ assets' = assets,
         at = "replace" => got \in AssetLists,
         at = "load" => assets' \in AssetLists,
         at = "swap" => got \in {l \cup SUPPLEMENT : l \in AssetLists}
  PROVE  SymbolInv'
<1>1. syncing'[t] = [at |-> at, got |-> got] /\ \A u \in SyncThreads : u # t => syncing'[u] = syncing[u]
  BY DEF Moves, SymbolInv
<1>2. syncing' = [u \in SyncThreads |-> syncing'[u]]
  BY DEF Moves, SymbolInv
<1>3. \A u \in SyncThreads : syncing[u].at = "load" => assets' \in AssetLists
  BY DEF SymbolInv
<1> QED BY <1>1, <1>2, <1>3 DEF SymbolInv

(* Every step keeps the invariant, and swaps in a whole index if any.        *)
LEMMA SymbolStep ==
  ASSUME SymbolInv, [SymbolNext]_symbolVars
  PROVE  SymbolInv' /\ (universe' = universe \/ universe' \in {l \cup SUPPLEMENT : l \in AssetLists})
<1> DEFINE Goal == SymbolInv' /\ (universe' = universe \/ universe' \in {l \cup SUPPLEMENT : l \in AssetLists})
<1>1. ASSUME NEW t \in SyncThreads, Starts(t) PROVE Goal
  <2>1. PICK at \in {"download", "load"} : Moves(t, at, {}) /\ (at = "load" => assets # {})
    BY <1>1 DEF Starts
  <2>2. at = "load" => assets' \in AssetLists
    BY <1>1, <2>1 DEF Starts, SymbolInv
  <2>3. SymbolInv'
    BY <1>1, <2>1, <2>2, MoveKeeps DEF Starts
  <2> QED BY <1>1, <2>3 DEF Starts
<1>2. ASSUME NEW t \in SyncThreads, Downloads(t) PROVE Goal
  <2>1. PICK l \in AssetLists : Moves(t, "replace", l)
    BY <1>2 DEF Downloads
  <2>2. SymbolInv'
    BY <1>2, <2>1, MoveKeeps DEF Downloads
  <2> QED BY <1>2, <2>2 DEF Downloads
<1>3. ASSUME NEW t \in SyncThreads, SwapsAssets(t) PROVE Goal
  <2>1. Moves(t, "load", {}) /\ assets' \in AssetLists
    BY <1>3 DEF SwapsAssets, SymbolInv
  <2>2. SymbolInv'
    BY <2>1, MoveKeeps
  <2> QED BY <1>3, <2>2 DEF SwapsAssets
<1>4. ASSUME NEW t \in SyncThreads, Reads(t) PROVE Goal
  <2>1. Moves(t, "swap", assets \cup SUPPLEMENT) /\ assets' = assets /\ assets \in AssetLists
    BY <1>4 DEF Reads, SymbolInv
  <2>2. SymbolInv'
    BY <2>1, MoveKeeps
  <2> QED BY <1>4, <2>2 DEF Reads
<1>5. ASSUME NEW t \in SyncThreads, Swaps(t) PROVE Goal
  <2>1. Moves(t, "idle", {}) /\ assets' = assets
    BY <1>5 DEF Swaps
  <2>2. SymbolInv'
    BY <2>1, MoveKeeps
  <2> QED BY <1>5, <2>2 DEF Swaps, SymbolInv
<1>6. ASSUME NEW t \in SyncThreads, BrokerFails(t) PROVE Goal
  <2>1. Moves(t, "idle", {}) /\ assets' = assets
    BY <1>6 DEF BrokerFails
  <2>2. SymbolInv'
    BY <2>1, MoveKeeps
  <2> QED BY <1>6, <2>2 DEF BrokerFails
<1>7. ASSUME UNCHANGED <<assets, universe, syncing>> PROVE Goal
  BY <1>7 DEF SymbolInv
<1> HIDE DEF Goal
<1>8. ASSUME (\E q \in Queries, n \in 0 .. MaxPage : Seeks(q, n)) \/ LooksUp \/ Searches \/ TurnsTo PROVE Goal
  BY <1>7, <1>8 DEF Seeks, LooksUp, Searches, TurnsTo
<1>9. ASSUME UNCHANGED symbolVars PROVE Goal
  BY <1>7, <1>9 DEF symbolVars
<1>10. Goal
  BY <1>1, <1>2, <1>3, <1>4, <1>5, <1>6, <1>8, <1>9 DEF SymbolNext
<1> QED BY <1>10 DEF Goal

(* search.py, universe.py: however many syncs, loads and swaps overlap, the  *)
(* index in memory is of one list of the broker, whole, with what is built   *)
(* in, and never of a table that is being replaced.                          *)
THEOREM IndexStaysWhole == SymbolInit /\ [][SymbolNext]_symbolVars => UniverseIsWhole
<1> DEFINE Whole1 == universe' \in {l \cup SUPPLEMENT : l \in AssetLists}
<1>1. SymbolInit => SymbolInv
  BY DEF SymbolInit, SymbolInv, Resting
<1>2. SymbolInv /\ [SymbolNext]_symbolVars => SymbolInv'
  BY SymbolStep
<1>3. SymbolInv /\ [SymbolNext]_symbolVars => [Whole1]_universe
  BY SymbolStep
<1>4. UniverseIsWhole <=> [][Whole1]_universe
  BY PTL DEF UniverseIsWhole
<1> HIDE DEF Whole1
<1> QED BY <1>1, <1>2, <1>3, <1>4, PTL

-----------------------------------------------------------------------------
(* The pricing of puts                                                       *)

(* The puts of some days of the archive, and the last of some days.          *)
PutsOf(days) == UNION {ChainOf[d] : d \in days}
IsLast(S, m) == m \in S /\ \A x \in S : x <= m

(* Bars of days up to the one given, each of a session and with a price.     *)
AreBars(bars, till) ==
  \A d \in DOMAIN bars : d \in 0 .. till /\ d \in DOMAIN CloseOf /\ bars[d] \in Nat /\ bars[d] > 0
LastCloseIs(closes, m) == DOMAIN closes \subseteq Nat /\ IsLast(DOMAIN closes, m)
BarsInv == today \in 0 .. LastDay /\ AreBars(cachedBars, today) /\ AreBars(recBars, today)

(* What a sweep holds and what is kept of one: closes up to a day m, and, of *)
(* what is kept, an archive that later days alone have been added to, as of  *)
(* a day t.                                                                  *)
SweptFrom(w) ==
  \E m \in Nat, a \in archive : LastCloseIs(w.closes, m) /\ m <= today /\ w.fp = <<a, m>>
KeptFrom(w) ==
  \E m \in Nat, A \in SUBSET archive, a \in archive, t \in Nat :
    /\ LastCloseIs(w.closes, m) /\ m <= t /\ a \in A
    /\ \A x \in archive \ A : \A y \in A : x > y
    /\ w.fp = <<a, m>> /\ w.stats = ClassStats(Trials(PutsOf(A), w.closes, t))

(* The thread and what is kept of the one before it go by the same past.     *)
InsureInv ==
  /\ BarsInv /\ archive \subseteq DOMAIN ChainOf
  /\ \A x \in archive : x \in 0 .. today
  /\ archive # {} => \E m \in archive : IsLast(archive, m)
  /\ sweep # Idle => SweptFrom(sweep)
  /\ expected # NoStats => KeptFrom(expected)

(* The last of some days is their maximum.                                   *)
LEMMA LastIsMax ==
  ASSUME NEW S, S \subseteq Int, NEW m, IsLast(S, m)
  PROVE  Max(S) = m
<1>1. PICK n : n = Max(S)
  OBVIOUS
<1>2. n \in S /\ \A x \in S : n >= x
  <2>1. \E n2 \in S : \A x \in S : n2 >= x
    BY DEF IsLast
  <2> QED BY <1>1, <2>1 DEF Max
<1>3. m \in S /\ n <= m /\ n >= m /\ n \in Int /\ m \in Int
  BY <1>2 DEF IsLast
<1> QED BY ONLY <1>1, <1>3

(* Of an expiration up to day m, which is past on both days, a trial says    *)
(* the same on either.                                                       *)
LEMMA TrialIsTheSame ==
  ASSUME NEW r, NEW closes, NEW m \in Nat, NEW t \in Nat, NEW u \in Nat, m <= t, m <= u,
         r.exp \in Nat, r.exp <= m
  PROVE  Trial(r, closes, t) = Trial(r, closes, u)
<1>1. ~(r.exp > t) /\ ~(r.exp > u)
  OBVIOUS
<1>2. StatusOf(r, closes, t) = StatusOf(r, closes, u)
  BY <1>1 DEF StatusOf
<1> QED BY <1>2 DEF Trial

(* What is said of a class goes by the votes of its expirations.             *)
LEMMA SummaryVotes ==
  ASSUME NEW v, NEW b, NEW c, NEW d, NEW e, NEW f, NEW g, NEW h, NEW E, v = [x \in E |-> v[x]]
  PROVE  Summary(v, b, c, d, e, f, g, h).exps
           = {<<x, v[x].n, (60 * v[x].claims) \div v[x].n, (60 * v[x].sev) \div v[x].n>> : x \in E}
<1>1. DOMAIN v = E
  OBVIOUS
<1>2. CASE v = <<>>
  <2>1. E = {}
    BY <1>1, <1>2
  <2> QED BY <1>2, <2>1 DEF Summary
<1>3. CASE v # <<>>
  BY <1>1, <1>3 DEF Summary
<1> QED BY <1>2, <1>3

(* The trials of a class that count, and what is said of its expirations:    *)
(* nothing else goes into it.                                                *)
Settlements(of) == {t \in of : t.status = "settled"}

(* What StatsOf says by expiration is the votes of the settlements.          *)
LEMMA ExpsAreVotes ==
  ASSUME NEW of
  PROVE  StatsOf(of).exps
           = {LET v == Votes(Settlements(of))[x] IN <<x, v.n, (60 * v.claims) \div v.n, (60 * v.sev) \div v.n>> :
                x \in {t.row.exp : t \in Settlements(of)}}
<1>1. PICK E, v : E = {t.row.exp : t \in Settlements(of)} /\ v = Votes(Settlements(of))
  OBVIOUS
<1>2. v = [x \in E |-> v[x]]
  BY <1>1 DEF Votes
<1>3. PICK b, c, d, e, f, g, h : StatsOf(of) = Summary(v, b, c, d, e, f, g, h)
  BY <1>1 DEF StatsOf, Settlements
<1>4. Summary(v, b, c, d, e, f, g, h).exps
        = {<<x, v[x].n, (60 * v[x].claims) \div v[x].n, (60 * v[x].sev) \div v[x].n>> : x \in E}
  BY ONLY <1>2, SummaryVotes
<1> QED BY ONLY <1>1, <1>3, <1>4

(* Trials that are the same up to day m are the same votes up to it.         *)
UpToDay(T, m) == {t \in T : t.status = "settled" /\ t.row.exp <= m}

(* Their statistics then say the same of the expirations up to m.            *)
LEMMA VotesAreTheSame ==
  ASSUME NEW T, NEW U, NEW m, UpToDay(T, m) = UpToDay(U, m)
  PROVE  {x \in StatsOf(T).exps : x[1] <= m} = {x \in StatsOf(U).exps : x[1] <= m}
<1> DEFINE S == Settlements(T)
           R == Settlements(U)
           E(Q) == {t.row.exp : t \in Q}
           Said(v, x) == <<x, v.n, (60 * v.claims) \div v.n, (60 * v.sev) \div v.n>>
<1>1. \A t : (t \in S /\ t.row.exp <= m) <=> (t \in R /\ t.row.exp <= m)
  BY DEF UpToDay, Settlements
<1>2. \A x : x <= m => /\ {t \in S : t.row.exp = x} = {t \in R : t.row.exp = x}
                       /\ x \in E(S) <=> x \in E(R)
  BY <1>1
<1>3. \A x : x \in E(S) /\ x <= m => Votes(S)[x] = Votes(R)[x]
  BY <1>2 DEF Votes
<1>4. /\ StatsOf(T).exps = {Said(Votes(S)[x], x) : x \in E(S)}
      /\ StatsOf(U).exps = {Said(Votes(R)[x], x) : x \in E(R)}
  BY ExpsAreVotes
<1>5. \A v, x : Said(v, x)[1] = x
  OBVIOUS
<1> HIDE DEF S, R, E, Said
<1>6. /\ {x \in StatsOf(T).exps : x[1] <= m} = {Said(Votes(S)[x], x) : x \in {y \in E(S) : y <= m}}
      /\ {x \in StatsOf(U).exps : x[1] <= m} = {Said(Votes(R)[x], x) : x \in {y \in E(R) : y <= m}}
  BY <1>4, <1>5
<1>7. {y \in E(S) : y <= m} = {y \in E(R) : y <= m}
  BY <1>2
<1> QED BY <1>3, <1>6, <1>7

(* What is measured up to day m is the same on every day from m on.          *)
LEMMA MeasuredIsTheSame ==
  ASSUME NEW rows, NEW closes, NEW m \in Nat, NEW t \in Nat, NEW u \in Nat, m <= t, m <= u,
         \A r \in rows : r.exp \in Nat
  PROVE  Measured(ClassStats(Trials(rows, closes, t)), m) = Measured(ClassStats(Trials(rows, closes, u)), m)
<1> DEFINE R == {x \in rows : ClassesOf(x, closes) # {}}
           T == Trials(rows, closes, t)
           U == Trials(rows, closes, u)
           Of(Q, c) == {x \in Q : x.class = c}
           K(Q) == {x.class : x \in Q}
<1>1. T = {Trial(r, closes, t) : r \in R} /\ U = {Trial(r, closes, u) : r \in R}
  BY DEF Trials
<1>2. \A r, on : Trial(r, closes, on).row = r /\ Trial(r, closes, on).class = Trial(r, closes, t).class
  BY DEF Trial
<1>3. K(T) = K(U)
  <2> HIDE DEF R, T, U
  <2> QED BY <1>1, <1>2
<1>4. \A r \in R : r.exp \in Nat
  OBVIOUS
<1>5. \A r \in R : r.exp <= m => Trial(r, closes, t) = Trial(r, closes, u)
  <2> SUFFICES ASSUME NEW r \in R, r.exp <= m PROVE Trial(r, closes, t) = Trial(r, closes, u)
    OBVIOUS
  <2>1. r.exp \in Nat
    BY <1>4
  <2> QED BY <2>1, TrialIsTheSame
<1> HIDE DEF R, T, U
<1>6. \A x : x \in T /\ x.row.exp <= m => x \in U
  BY <1>1, <1>2, <1>5
<1>7. \A x : x \in U /\ x.row.exp <= m => x \in T
  BY <1>1, <1>2, <1>5
<1>8. \A c : UpToDay(Of(T, c), m) = UpToDay(Of(U, c), m)
  BY <1>6, <1>7 DEF UpToDay
<1>9. \A c : {x \in StatsOf(Of(T, c)).exps : x[1] <= m} = {x \in StatsOf(Of(U, c)).exps : x[1] <= m}
  <2> HIDE DEF Of
  <2> QED BY <1>8, VotesAreTheSame
<1>10. /\ ClassStats(T) = [c \in K(T) |-> StatsOf(Of(T, c))]
       /\ ClassStats(U) = [c \in K(U) |-> StatsOf(Of(U, c))]
  BY DEF ClassStats
<1> HIDE DEF Of, K
<1>11. /\ UpTo(ClassStats(T), m) = [c \in K(T) |-> {x \in StatsOf(Of(T, c)).exps : x[1] <= m}]
       /\ UpTo(ClassStats(U), m) = [c \in K(U) |-> {x \in StatsOf(Of(U, c)).exps : x[1] <= m}]
  BY <1>10 DEF UpTo
<1>12. UpTo(ClassStats(T), m) = UpTo(ClassStats(U), m) /\ DOMAIN ClassStats(T) = DOMAIN ClassStats(U)
  BY <1>3, <1>9, <1>10, <1>11
<1>13. Measured(ClassStats(T), m) = Measured(ClassStats(U), m)
  BY ONLY <1>12 DEF Measured
<1> QED BY <1>13 DEF T, U

(* What is found in the archive are expirations.                             *)
LEMMA PutsExpire ==
  ASSUME NEW A, A \subseteq DOMAIN ChainOf
  PROVE  \A r \in PutsOf(A) : r.exp \in Nat
BY InsureAssumption DEF PutsOf

(* Bars that replace others, the later ones of some, and those a feed gives. *)
LEMMA ReplacedAre ==
  ASSUME NEW old, NEW new, NEW till, AreBars(old, till), AreBars(new, till)
  PROVE  AreBars(Replaced(old, new), till)
BY DEF AreBars, Replaced
LEMMA SinceAre ==
  ASSUME NEW old, NEW till, NEW keep, AreBars(old, till)
  PROVE  AreBars(Since(old, keep), till)
BY DEF AreBars, Since
LEMMA GivenAre ==
  ASSUME today \in Nat, NEW from, NEW to \in Int, to <= today, NEW price, to = today => price \in PricesOf(today)
  PROVE  AreBars(GivenBars(from, to, price), today)
<1> DEFINE bars == GivenBars(from, to, price)
<1>1. DOMAIN bars = {x \in DOMAIN CloseOf : from <= x /\ x <= to}
  BY DEF GivenBars
<1>2. SUFFICES ASSUME NEW d \in DOMAIN bars
               PROVE  d \in 0 .. today /\ d \in DOMAIN CloseOf /\ bars[d] \in Nat /\ bars[d] > 0
  BY DEF AreBars
<1>3. d \in DOMAIN CloseOf /\ d <= to /\ d \in Nat /\ CloseOf[d] \in Nat /\ CloseOf[d] > 0 /\ FormingOf[d] \subseteq Nat \ {0}
  BY <1>1, InsureAssumption
<1>4. bars[d] = IF d = today THEN price ELSE CloseOf[d]
  BY DEF GivenBars
<1>5. d = today => price \in {CloseOf[d]} \cup FormingOf[d]
  BY <1>3 DEF PricesOf
<1> HIDE DEF bars
<1> QED BY <1>3, <1>4, <1>5

(* Whatever is fetched, swept, collected or pruned, the bars are of sessions *)
(* that have come.                                                           *)
LEMMA BarsStep == BarsInv /\ [InsureNext]_insureVars => BarsInv'
<1> SUFFICES ASSUME BarsInv, [InsureNext]_insureVars PROVE BarsInv'
  OBVIOUS
<1>1. /\ LastDay \in Nat /\ today \in Nat /\ today <= LastDay
      /\ AreBars(cachedBars, today) /\ AreBars(recBars, today)
  BY InsureAssumption DEF BarsInv
<1>2. CASE UNCHANGED <<today, cachedBars, recBars>>
  BY <1>2 DEF BarsInv, AreBars
<1>3. CASE NewDay
  BY <1>1, <1>3 DEF BarsInv, AreBars, NewDay, barVars
<1>4. ASSUME NEW back \in Reaches, NEW price \in PricesOf(today), NEW keep \in Cutoffs, CacheStores(back, price, keep)
      PROVE  BarsInv'
  <2>1. PICK to \in {today - 1, today} :
          cachedBars' = Replaced(Since(cachedBars, keep), GivenBars(today - back, to, price))
    BY <1>4 DEF CacheStores
  <2>2. PICK from, bars : from = today - back /\ bars = GivenBars(from, to, price)
    OBVIOUS
  <2>3. to \in Int /\ to <= today
    BY <1>1
  <2>4. AreBars(GivenBars(from, to, price), today)
    BY <1>1, <2>3, GivenAre
  <2>5. PICK old, till : old = cachedBars /\ till = today
    OBVIOUS
  <2>6. AreBars(Since(old, keep), till)
    BY <1>1, <2>5, SinceAre
  <2>7. AreBars(Replaced(Since(old, keep), bars), till)
    BY <2>2, <2>4, <2>5, <2>6, ReplacedAre
  <2>8. cachedBars' = Replaced(Since(old, keep), bars) /\ today' = today /\ recBars' = recBars
    BY <1>4, <2>1, <2>2, <2>5 DEF CacheStores
  <2> QED BY <1>1, <2>5, <2>7, <2>8 DEF BarsInv, AreBars
<1>5. ASSUME NEW keep \in Cutoffs, OthersSweep(keep) \/ PrunesBars(keep) PROVE BarsInv'
  <2>1. PICK old, other, till : old = cachedBars /\ other = recBars /\ till = today
    OBVIOUS
  <2>2. AreBars(Since(old, keep), till)
    BY <1>1, <2>1, SinceAre
  <2>3. AreBars(Since(other, keep), till)
    BY <1>1, <2>1, SinceAre
  <2>4. /\ today' = today /\ cachedBars' \in {old, Since(old, keep)}
        /\ recBars' \in {other, Since(other, keep)}
    BY <1>5, <2>1 DEF OthersSweep, PrunesBars
  <2> QED BY <1>1, <2>1, <2>2, <2>3, <2>4 DEF BarsInv, AreBars
<1>6. ASSUME NEW back \in Reaches, NEW price \in PricesOf(today), Collects(back, price) PROVE BarsInv'
  <2>1. PICK to \in {today - 1, today} :
          \E from : recBars' = Replaced(recBars, GivenBars(from, to, price))
    BY <1>6 DEF Collects
  <2>2. PICK from : recBars' = Replaced(recBars, GivenBars(from, to, price))
    BY <2>1
  <2>3. PICK old, bars, till : old = recBars /\ bars = GivenBars(from, to, price) /\ till = today
    OBVIOUS
  <2>4. to \in Int /\ to <= today
    BY <1>1
  <2>5. AreBars(GivenBars(from, to, price), today)
    BY <1>1, <2>4, GivenAre
  <2>6. AreBars(Replaced(old, bars), till)
    BY <1>1, <2>3, <2>5, ReplacedAre
  <2>7. recBars' = Replaced(old, bars) /\ today' = today /\ cachedBars' = cachedBars
    BY <1>6, <2>2, <2>3 DEF Collects
  <2> QED BY <1>1, <2>3, <2>6, <2>7 DEF BarsInv, AreBars
<1>7. ASSUME NEW s \in Stretches, BackfillsBars(s[1], s[2]) PROVE BarsInv'
  <2>1. PICK from, to : from = s[1] /\ to = s[2]
    OBVIOUS
  <2>2. to \in Int /\ to < today /\ to <= today
    BY <1>1, <1>7, <2>1, InsureAssumption DEF BackfillsBars
  <2>3. PICK old, bars, till : old = recBars /\ bars = GivenBars(from, to, 0) /\ till = today
    OBVIOUS
  <2>4. AreBars(GivenBars(from, to, 0), today)
    BY <1>1, <2>2, GivenAre
  <2>5. AreBars(Replaced(old, bars), till)
    BY <1>1, <2>3, <2>4, ReplacedAre
  <2>6. recBars' = Replaced(old, bars) /\ today' = today /\ cachedBars' = cachedBars
    BY <1>7, <2>1, <2>3 DEF BackfillsBars
  <2> QED BY <1>1, <2>3, <2>5, <2>6 DEF BarsInv, AreBars
<1>8. CASE Ask \/ SweepEnds \/ SweepFails \/ \E d \in 0 .. LastDay : AppendDay(d)
  BY <1>2, <1>8 DEF Ask, SweepEnds, SweepFails, AppendDay, barVars
<1>9. CASE UNCHANGED insureVars
  BY <1>2, <1>9 DEF insureVars
<1> QED BY <1>3, <1>4, <1>5, <1>6, <1>7, <1>8, <1>9 DEF InsureNext

(* The closes that both stores have.                                         *)
LEMMA ClosesAre ==
  ASSUME BarsInv
  PROVE  AreBars(Closes, today) /\ AreBars(Closes, LastDay) /\ (Closes # <<>> => DOMAIN Closes # {})
<1>1. PICK old, new, till : old = recBars /\ new = cachedBars /\ till = today
  OBVIOUS
<1>2. AreBars(old, till) /\ AreBars(new, till)
  BY <1>1 DEF BarsInv
<1>3. AreBars(Replaced(old, new), till)
  BY <1>2, ReplacedAre
<1>4. AreBars(Closes, today)
  BY <1>1, <1>3 DEF Closes
<1>5. AreBars(Closes, LastDay)
  BY <1>4, InsureAssumption DEF AreBars, BarsInv
<1>6. Closes # <<>> => DOMAIN Closes # {}
  BY DEF Closes, Replaced
<1> QED BY <1>4, <1>5, <1>6

(* Their last day.                                                           *)
LEMMA LastOfCloses ==
  ASSUME BarsInv, Closes # <<>>
  PROVE  \E m \in Nat : LastCloseIs(Closes, m) /\ m <= today /\ Max(DOMAIN Closes) = m
<1>1. PICK S, till : S = DOMAIN Closes /\ till = today
  OBVIOUS
<1>2. S # {} /\ S \subseteq 0 .. till /\ till \in Nat
  BY <1>1, ClosesAre, InsureAssumption DEF AreBars, BarsInv
<1>3. PICK m \in S : \A y \in S : y <= m
  BY <1>2, Greatest
<1>4. IsLast(S, m) /\ S \subseteq Int
  BY <1>2, <1>3 DEF IsLast
<1>5. Max(S) = m
  BY <1>4, LastIsMax
<1> QED BY <1>1, <1>2, <1>4, <1>5 DEF LastCloseIs

(* Each step keeps the invariant, where no day that is past is archived.     *)
LEMMA InsureStep ==
  ASSUME InsureInv, [InsureNext]_insureVars, ~Backfills
  PROVE  InsureInv'
<1>1. /\ BarsInv /\ archive \subseteq DOMAIN ChainOf /\ today \in Nat
      /\ \A x \in archive : x \in 0 .. today
      /\ archive # {} => \E m \in archive : IsLast(archive, m)
      /\ sweep # Idle => SweptFrom(sweep)
      /\ expected # NoStats => KeptFrom(expected)
  BY InsureAssumption DEF InsureInv, BarsInv
<1>2. BarsInv'
  BY <1>1, BarsStep
<1>3. CASE /\ UNCHANGED <<archive, expected, sweep>> /\ today' \in Nat /\ today <= today'
  <2>1. \A x \in archive : x \in 0 .. today'
    BY <1>1, <1>3
  <2>2. sweep # Idle => SweptFrom(sweep)'
    <3> SUFFICES ASSUME sweep # Idle PROVE SweptFrom(sweep)'
      OBVIOUS
    <3>1. PICK m \in Nat, a \in archive : LastCloseIs(sweep.closes, m) /\ m <= today /\ sweep.fp = <<a, m>>
      BY <1>1 DEF SweptFrom
    <3>2. m <= today'
      BY <1>1, <1>3, <3>1
    <3> QED BY <1>3, <3>1, <3>2 DEF SweptFrom, LastCloseIs, IsLast
  <2> QED BY <1>1, <1>2, <1>3, <2>1, <2>2 DEF InsureInv, KeptFrom, LastCloseIs, IsLast
<1>4. CASE Ask
  <2>1. UNCHANGED <<today, archive, expected>>
    BY <1>4 DEF Ask
  <2>2. archive # {} /\ Closes # <<>> /\ sweep' = [fp |-> Fingerprint(Closes), closes |-> Closes]
    BY <1>4 DEF Ask, ToldNow
  <2>3. PICK a \in archive : IsLast(archive, a)
    BY <1>1, <2>2
  <2>4. PICK m \in Nat : LastCloseIs(Closes, m) /\ m <= today /\ Max(DOMAIN Closes) = m
    BY <1>1, <2>2, LastOfCloses
  <2>5. Max(archive) = a
    <3>1. PICK S : S = archive /\ S \subseteq Int
      BY <1>1
    <3> QED BY <2>3, <3>1, LastIsMax
  <2>6. sweep'.fp = <<a, m>> /\ sweep'.closes = Closes
    BY <2>2, <2>4, <2>5 DEF Fingerprint
  <2>7. SweptFrom(sweep)'
    BY <2>1, <2>4, <2>6 DEF SweptFrom, LastCloseIs, IsLast
  <2> QED BY <1>1, <1>2, <2>1, <2>7 DEF InsureInv, KeptFrom, LastCloseIs, IsLast
<1>5. CASE SweepEnds
  <2>1. /\ sweep # Idle /\ sweep' = Idle /\ UNCHANGED <<today, archive>>
        /\ expected'.fp = sweep.fp /\ expected'.closes = sweep.closes
        /\ expected'.stats = ClassStats(Trials(Rows, sweep.closes, today))
    BY <1>5 DEF SweepEnds, SweptAs
  <2>2. PICK m \in Nat, a \in archive : LastCloseIs(sweep.closes, m) /\ m <= today /\ sweep.fp = <<a, m>>
    BY <1>1, <2>1 DEF SweptFrom
  <2>3. Rows = PutsOf(archive)
    BY DEF Rows, PutsOf
  <2>4. KeptFrom(expected)'
    <3>1. archive \in SUBSET archive /\ a \in archive /\ \A x \in archive \ archive : \A y \in archive : x > y
      OBVIOUS
    <3>2. /\ expected'.fp = <<a, m>> /\ LastCloseIs(expected'.closes, m)
          /\ expected'.stats = ClassStats(Trials(PutsOf(archive), expected'.closes, today))
      BY <2>1, <2>2, <2>3
    <3> QED BY <1>1, <2>1, <2>2, <3>1, <3>2 DEF KeptFrom, LastCloseIs, IsLast
  <2> QED BY <1>1, <1>2, <2>1, <2>4 DEF InsureInv, IsLast
<1>6. CASE SweepFails
  BY <1>1, <1>2, <1>6 DEF SweepFails, InsureInv, KeptFrom, LastCloseIs, IsLast
<1>7. ASSUME NEW d \in 0 .. LastDay, AppendDay(d)
      PROVE  InsureInv'
  <2>1. /\ d = today /\ d \in DOMAIN ChainOf /\ archive' = archive \cup {d}
        /\ UNCHANGED <<today, expected, sweep>>
    BY <1>7 DEF AppendDay
  <2>2. IsLast(archive', d) /\ d \in archive' /\ archive' \subseteq DOMAIN ChainOf
        /\ \A x \in archive' : x \in 0 .. today
    BY <1>1, <2>1 DEF IsLast
  <2>3. sweep # Idle => SweptFrom(sweep)'
    BY <1>1, <2>1 DEF SweptFrom, LastCloseIs, IsLast
  <2>4. expected # NoStats => KeptFrom(expected)'
    <3> SUFFICES ASSUME expected # NoStats PROVE KeptFrom(expected)'
      OBVIOUS
    <3>1. PICK m \in Nat, A \in SUBSET archive, a \in archive, t \in Nat :
            /\ LastCloseIs(expected.closes, m) /\ m <= t /\ a \in A
            /\ \A x \in archive \ A : \A y \in A : x > y
            /\ expected.fp = <<a, m>> /\ expected.stats = ClassStats(Trials(PutsOf(A), expected.closes, t))
      BY <1>1 DEF KeptFrom
    <3>2. CASE d \in A
      <4>1. archive' = archive
        BY <2>1, <3>2
      <4> QED BY <2>1, <3>1, <4>1 DEF KeptFrom, LastCloseIs, IsLast
    <3>3. CASE d \notin A
      <4>1. \A y \in A : d > y \/ d = y
        BY <1>1, <2>1
      <4>2. \A y \in A : d > y
        BY <3>3, <4>1
      <4>3. A \in SUBSET archive' /\ a \in archive' /\ \A x \in archive' \ A : \A y \in A : x > y
        BY <2>1, <3>1, <4>2
      <4> QED BY <2>1, <3>1, <4>3 DEF KeptFrom, LastCloseIs, IsLast
    <3> QED BY <3>2, <3>3
  <2> QED BY <1>1, <1>2, <2>1, <2>2, <2>3, <2>4 DEF InsureInv, IsLast
<1>8. CASE NewDay
  <2>1. UNCHANGED <<archive, expected, sweep>> /\ today' \in Nat /\ today <= today'
    BY <1>1, <1>8 DEF NewDay
  <2> QED BY <1>3, <2>1
<1>9. CASE \/ \E keep \in Cutoffs : OthersSweep(keep) \/ PrunesBars(keep)
           \/ \E back \in Reaches, price \in PricesOf(today) :
                Collects(back, price) \/ \E keep \in Cutoffs : CacheStores(back, price, keep)
           \/ \E s \in Stretches : BackfillsBars(s[1], s[2])
  <2>1. UNCHANGED <<today, archive, expected, sweep>>
    BY <1>9 DEF OthersSweep, PrunesBars, Collects, CacheStores, BackfillsBars
  <2> QED BY <1>1, <1>3, <2>1
<1>10. CASE UNCHANGED insureVars
  BY <1>1, <1>3, <1>10 DEF insureVars
<1> QED BY <1>4, <1>5, <1>6, <1>7, <1>8, <1>9, <1>10 DEF InsureNext

(* A measurement that is served as current counts every day of the archive   *)
(* and every session up to the last that the stores know                     *)
(* (_insure_expectancy): where no day that is past is archived, a            *)
(* fingerprint of the last day of each is enough to know that none came,     *)
(* though a sweep takes its time, reads the archive of its end and is kept   *)
(* under the fingerprint of its start, and though bars come, change and are  *)
(* swept meanwhile; and no day that passes changes what the expirations up   *)
(* to the last close say.                                                    *)
THEOREM ReadyStaysCurrent ==
  ASSUME ~Backfills
  PROVE  InsureInit /\ [][InsureNext]_insureVars => []ReadyIsCurrent
<1>1. InsureInit => InsureInv
  <2> SUFFICES ASSUME InsureInit PROVE InsureInv
    OBVIOUS
  <2>1. AreBars(<<>>, today)
    BY DEF AreBars
  <2>2. today \in 0 .. LastDay
    BY InsureAssumption DEF InsureInit
  <2> QED BY <2>1, <2>2 DEF InsureInit, InsureInv, BarsInv
<1>2. InsureInv /\ [InsureNext]_insureVars => InsureInv'
  BY InsureStep
<1>3. InsureInv => ReadyIsCurrent
  <2> SUFFICES ASSUME InsureInv, ToldNow.status = "ready"
               PROVE  /\ Max(DOMAIN Closes) = Max(DOMAIN expected.closes)
                      /\ Measured(ToldNow.stats, Max(DOMAIN Closes))
                           = Measured(ClassStats(Trials(Rows, expected.closes, today)), Max(DOMAIN Closes))
    BY DEF ReadyIsCurrent
  <2>1. archive # {} /\ Closes # <<>>
    BY DEF ToldNow
  <2>2. expected # NoStats /\ expected.fp = Fingerprint(Closes) /\ ToldNow.stats = expected.stats
    BY <2>1 DEF ToldNow
  <2>3. BarsInv /\ today \in Nat /\ \A x \in archive : x \in 0 .. today
    BY InsureAssumption DEF InsureInv, BarsInv
  <2>4. PICK m \in Nat : LastCloseIs(Closes, m) /\ m <= today /\ Max(DOMAIN Closes) = m
    BY <2>1, <2>3, LastOfCloses
  <2>5. PICK a \in archive : IsLast(archive, a)
    BY <2>1 DEF InsureInv
  <2>6. Max(archive) = a
    <3>1. PICK S : S = archive /\ S \subseteq Int
      BY <2>3
    <3> QED BY <2>5, <3>1, LastIsMax
  <2>7. expected.fp = <<a, m>>
    BY <2>2, <2>4, <2>6 DEF Fingerprint
  <2>8. PICK n \in Nat, A \in SUBSET archive, b \in archive, t \in Nat :
          /\ LastCloseIs(expected.closes, n) /\ n <= t /\ b \in A
          /\ \A x \in archive \ A : \A y \in A : x > y
          /\ expected.fp = <<b, n>> /\ expected.stats = ClassStats(Trials(PutsOf(A), expected.closes, t))
    BY <2>2 DEF InsureInv, KeptFrom
  <2>9. b = a /\ n = m
    BY ONLY <2>7, <2>8
  <2>10. A = archive
    <3>1. ASSUME NEW x \in archive, x \notin A PROVE FALSE
      <4>1. x > a
        BY ONLY <2>8, <2>9, <3>1
      <4>2. x <= a /\ x \in Int /\ a \in Int
        BY <2>3, <2>5, <3>1 DEF IsLast
      <4> QED BY ONLY <4>1, <4>2
    <3> QED BY <2>8, <3>1
  <2>11. PICK closes, rows, u : closes = expected.closes /\ rows = PutsOf(archive) /\ u = today
    OBVIOUS
  <2>12. Rows = rows /\ \A r \in rows : r.exp \in Nat
    <3>1. archive \subseteq DOMAIN ChainOf
      BY DEF InsureInv
    <3>2. PICK D : D = archive
      OBVIOUS
    <3>3. \A r \in PutsOf(D) : r.exp \in Nat
      BY <3>1, <3>2, PutsExpire
    <3> QED BY <2>11, <3>2, <3>3 DEF Rows, PutsOf
  <2>13. Max(DOMAIN expected.closes) = m
    <3>1. PICK S : S = DOMAIN expected.closes
      OBVIOUS
    <3>2. IsLast(S, m)
      BY <2>8, <2>9, <3>1 DEF LastCloseIs
    <3>3. S \subseteq Int
      BY <2>8, <3>1 DEF LastCloseIs
    <3> QED BY <3>1, <3>2, <3>3, LastIsMax
  <2>14. Measured(ClassStats(Trials(rows, closes, t)), m) = Measured(ClassStats(Trials(rows, closes, u)), m)
    <3>1. m <= t /\ m <= u /\ u \in Nat
      BY <2>3, <2>4, <2>8, <2>9, <2>11
    <3> QED BY <2>12, <3>1, MeasuredIsTheSame
  <2>15. ToldNow.stats = ClassStats(Trials(rows, closes, t))
    BY <2>2, <2>8, <2>10, <2>11
  <2> QED BY <2>4, <2>11, <2>12, <2>13, <2>14, <2>15
<1> QED BY <1>1, <1>2, <1>3, PTL

-----------------------------------------------------------------------------
(* The Opt page *)

(* The shape without its percentages.                                        *)
Flat(q) == [q EXCEPT !.dtePct = 0, !.strikePct = 0]

(* Rows of an archive: finitely many, in hundredths of delta.                *)
AreArchived(rows) ==
  IsFiniteSet(rows) /\ \A r \in rows : {r.date, r.exp, r.strike} \subseteq Int /\ r.delta \in 0 .. 100

(* What the shape asks for stays, but for the percentages.                   *)
LEMMA FlatIs ==
  ASSUME NEW q \in Shapes
  PROVE  /\ Flat(q).right = q.right /\ Flat(q).dte = q.dte /\ Flat(q).delta = q.delta /\ Flat(q).strike = q.strike
         /\ Flat(q).dtePct = 0 /\ Flat(q).strikePct = 0
<1>1. q = [right |-> q.right, dte |-> q.dte, delta |-> q.delta, strike |-> q.strike,
           dtePct |-> q.dtePct, strikePct |-> q.strikePct]
  BY HistoryAssumption
<1> QED BY <1>1 DEF Flat

(* A percentage widens the flat windows and never narrows them.              *)
LEMMA WindowsWiden ==
  ASSUME NEW q \in Shapes
  PROVE  /\ Tol(q).dte \in Nat /\ OffTol(q) \in Nat /\ Tol(Flat(q)).dte \in Nat /\ OffTol(Flat(q)) \in Nat
         /\ Tol(Flat(q)).dte <= Tol(q).dte /\ OffTol(Flat(q)) <= OffTol(q)
<1>1. /\ q.dte \in Nat /\ q.delta \in Nat /\ q.strike \in Nat /\ q.dtePct \in Nat /\ q.strikePct \in Nat
      /\ MIN_DTE_TOL \in Nat /\ MIN_STRIKE_TOL \in Nat /\ DeltaTol \in Nat
  BY HistoryAssumption
<1>2. PICK d \in Nat, k \in Nat : d = (q.dte * q.dtePct + 50) \div 100 /\ k = (q.strike * q.strikePct) \div 100
  <2>1. PICK a \in Nat, b \in Nat : a = q.dte * q.dtePct /\ b = q.strike * q.strikePct
    BY <1>1
  <2>2. (a + 50) \div 100 \in Nat /\ b \div 100 \in Nat
    BY ONLY <2>1
  <2> QED BY ONLY <2>1, <2>2
<1>3. (q.dte * 0 + 50) \div 100 = 0 /\ (q.strike * 0) \div 100 = 0
  BY ONLY <1>1
<1>4. Tol(q) = [dte |-> Max({MIN_DTE_TOL, d}), strike |-> Max({MIN_STRIKE_TOL, k})]
  BY ONLY <1>2 DEF Tol, ResolveTolerances
<1>5. Tol(Flat(q)) = [dte |-> Max({MIN_DTE_TOL, 0}), strike |-> Max({MIN_STRIKE_TOL, 0})]
  BY ONLY <1>3, FlatIs DEF Tol, ResolveTolerances
<1>6. \A a \in Nat, b \in Nat : a <= Max({a, b}) /\ Max({a, b}) \in {a, b}
  <2> SUFFICES ASSUME NEW a \in Nat, NEW b \in Nat PROVE a <= Max({a, b}) /\ Max({a, b}) \in {a, b}
    OBVIOUS
  <2>1. a \in Int /\ b \in Int
    OBVIOUS
  <2> QED BY ONLY <2>1, PaddingEnds
<1>7. /\ MIN_DTE_TOL <= Max({MIN_DTE_TOL, d}) /\ Max({MIN_DTE_TOL, d}) \in {MIN_DTE_TOL, d}
      /\ MIN_STRIKE_TOL <= Max({MIN_STRIKE_TOL, k}) /\ Max({MIN_STRIKE_TOL, k}) \in {MIN_STRIKE_TOL, k}
      /\ Max({MIN_DTE_TOL, 0}) \in {MIN_DTE_TOL, 0} /\ Max({MIN_STRIKE_TOL, 0}) \in {MIN_STRIKE_TOL, 0}
  <2>1. 0 \in Nat
    OBVIOUS
  <2> QED BY ONLY <1>1, <1>2, <1>6, <2>1
<1>8. /\ Tol(q).dte \in Nat /\ Tol(Flat(q)).dte \in Nat /\ Tol(Flat(q)).dte <= Tol(q).dte
      /\ Tol(q).strike \in Nat /\ Tol(Flat(q)).strike \in Nat /\ Tol(Flat(q)).strike <= Tol(q).strike
  <2>1. /\ Tol(q).dte = Max({MIN_DTE_TOL, d}) /\ Tol(Flat(q)).dte = Max({MIN_DTE_TOL, 0})
        /\ Tol(q).strike = Max({MIN_STRIKE_TOL, k}) /\ Tol(Flat(q)).strike = Max({MIN_STRIKE_TOL, 0})
    BY ONLY <1>4, <1>5
  <2> QED BY ONLY <1>1, <1>2, <1>7, <2>1
<1>9. Flat(q).delta = q.delta
  BY FlatIs
<1> QED BY ONLY <1>1, <1>8, <1>9 DEF OffTol

(* How far a row is from a shape is a natural number,                        *)
LEMMA ScoreIsNat ==
  ASSUME NEW q, NEW r, {r.date, r.exp, r.strike, r.delta} \subseteq Int,
         q.dte \in Nat, q.delta \in Nat, q.strike \in Nat, Tol(q).dte \in Nat, OffTol(q) \in Nat
  PROVE  Score(r, q) \in Nat
<1>1. \A a, b \in Int : Distance(a, b) \in Nat
  BY DEF Distance
<1>2. r.exp - r.date \in Int /\ r.delta \in Int /\ r.strike \in Int
  OBVIOUS
<1>3. DteOff(r, q) \in Nat /\ Off(r, q) \in Nat
  <2>1. q.dte \in Int /\ q.delta \in Int /\ q.strike \in Int
    OBVIOUS
  <2> QED BY ONLY <1>1, <1>2, <2>1 DEF DteOff, Off
<1>4. PICK d \in Nat : d = Max({Tol(q).dte, 1})
  <2>1. PICK a \in Nat : a = Tol(q).dte
    OBVIOUS
  <2>2. a \in Int /\ 1 \in Int
    OBVIOUS
  <2>3. Max({a, 1}) \in {a, 1}
    BY ONLY <2>2, PaddingEnds
  <2> QED BY <2>1, <2>3
<1>5. \A a, b \in Nat : a * b \in Nat
  OBVIOUS
<1>6. PICK x \in Nat, y \in Nat : x = DteOff(r, q) * OffTol(q) /\ y = Off(r, q) * d
  BY <1>3, <1>4, <1>5
<1>7. x * x + y * y \in Nat
  <2>1. x * x \in Nat /\ y * y \in Nat
    BY ONLY <1>5
  <2> QED BY ONLY <2>1
<1> QED BY ONLY <1>4, <1>6, <1>7 DEF Score

(* so that there is a nearest of any rows.                                   *)
LEMMA BestIs ==
  ASSUME NEW S, S # {}, NEW q, \A r \in S : Score(r, q) \in Nat
  PROVE  BestOf(S, q) \in S /\ \A x \in S : Score(BestOf(S, q), q) <= Score(x, q)
<1> DEFINE scores == {Score(r, q) : r \in S}
<1>1. scores \subseteq Nat /\ scores # {}
  OBVIOUS
<1> HIDE DEF scores
<1>2. \E s \in scores : \A t \in scores : s <= t
  BY ONLY <1>1, Least
<1>3. \E r \in S : \A x \in S : Score(r, q) <= Score(x, q)
  BY <1>2 DEF scores
<1> QED BY <1>3 DEF BestOf

(* Whatever percentages are set, no day of the flat series is lost, and none *)
(* of its points is replaced by one that is further from the shape.          *)
LEMMA GraceAdds ==
  ASSUME NEW rows, AreArchived(rows)
  PROVE  GraceOnlyAdds(rows)
<1> SUFFICES ASSUME NEW q \in Shapes, NEW old \in Series(rows, Flat(q))
             PROVE  \E p \in Series(rows, q) : p.row.date = old.row.date /\ Score(p.row, q) <= Score(old.row, q)
  BY DEF GraceOnlyAdds, Flat
<1> DEFINE Found(s, d) == {r \in Near(rows, s) : r.date = d}
<1>1. /\ q.dte \in Nat /\ q.delta \in Nat /\ q.strike \in Nat
      /\ Flat(q).dte \in Nat /\ Flat(q).delta \in Nat /\ Flat(q).strike \in Nat
  BY HistoryAssumption, FlatIs
<1>2. \A r \in rows : {r.date, r.exp, r.strike, r.delta} \subseteq Int
  BY DEF AreArchived
<1>3. \A r \in rows : Score(r, q) \in Nat /\ Score(r, Flat(q)) \in Nat
  BY <1>1, <1>2, WindowsWiden, ScoreIsNat
<1>4. Near(rows, Flat(q)) \subseteq Near(rows, q)
  <2> SUFFICES ASSUME NEW r \in rows, r \in Near(rows, Flat(q))
               PROVE  r \in Near(rows, q)
    BY DEF Near
  <2>1. Off(r, Flat(q)) = Off(r, q) /\ DteOff(r, Flat(q)) = DteOff(r, q)
    BY FlatIs DEF Off, DteOff
  <2>2. Off(r, q) \in Int /\ DteOff(r, q) \in Int
    BY <1>1, <1>2 DEF Off, DteOff, Distance
  <2>3. Off(r, q) <= OffTol(q) /\ DteOff(r, q) <= Tol(q).dte
    <3>1. Off(r, q) <= OffTol(Flat(q)) /\ DteOff(r, q) <= Tol(Flat(q)).dte
      BY <2>1 DEF Near
    <3> QED BY <2>2, <3>1, WindowsWiden
  <2> QED BY <2>3, FlatIs DEF Near
<1>5. PICK d : Found(Flat(q), d) # {} /\ old.row = BestOf(Found(Flat(q), d), Flat(q))
  BY DEF Series
<1>6. Found(Flat(q), d) \subseteq rows /\ Found(q, d) \subseteq rows /\ Found(Flat(q), d) \subseteq Found(q, d)
  BY <1>4 DEF Near
<1>7. old.row \in Found(q, d) /\ Found(q, d) # {}
  <2>1. BestOf(Found(Flat(q), d), Flat(q)) \in Found(Flat(q), d)
    BY <1>3, <1>5, <1>6, BestIs
  <2> QED BY <1>5, <1>6, <2>1
<1>8. PICK b : b = BestOf(Found(q, d), q)
  OBVIOUS
<1>9. b \in Found(q, d) /\ \A x \in Found(q, d) : Score(b, q) <= Score(x, q)
  BY <1>3, <1>6, <1>7, <1>8, BestIs
<1>10. [row |-> b, mark |-> MarkOf(b)] \in Series(rows, q)
  BY <1>8, <1>9 DEF Series
<1>11. b.date = old.row.date /\ Score(b, q) <= Score(old.row, q)
  BY <1>7, <1>9
<1> QED BY <1>10, <1>11

(* The rows under a delta, and those up to it.                               *)
DeltasBelow(S, v) == {x \in S : x.delta < v}
UpToDelta(S, v) == {x \in S : x.delta <= v}

(* Of finitely many deltas there is a middle one.                            *)
LEMMA MiddleIs ==
  ASSUME NEW S, IsFiniteSet(S), \A r \in S : r.delta \in 0 .. 100, NEW n \in Nat, n < Cardinality(S)
  PROVE  DeltaAt(S, n) \in S
<1> DEFINE enough == {v \in 0 .. 100 : Cardinality(UpToDelta(S, v)) > n}
<1>1. \A v : IsFiniteSet(UpToDelta(S, v)) /\ Cardinality(UpToDelta(S, v)) \in Nat
  <2> SUFFICES ASSUME NEW v PROVE IsFiniteSet(UpToDelta(S, v)) /\ Cardinality(UpToDelta(S, v)) \in Nat
    OBVIOUS
  <2>1. UpToDelta(S, v) \in SUBSET S
    BY DEF UpToDelta
  <2>2. IsFiniteSet(UpToDelta(S, v))
    BY <2>1, FS_Subset
  <2> QED BY <2>2, FS_CardinalityType
<1>2. enough # {} /\ enough \subseteq Nat
  <2>1. UpToDelta(S, 100) = S
    BY DEF UpToDelta
  <2>2. 100 \in enough
    BY <2>1
  <2> QED BY <2>2
<1>3. PICK v \in enough : \A w \in enough : v <= w
  <2> HIDE DEF enough
  <2> QED BY <1>2, Least
<1>4. v \in 0 .. 100 /\ Cardinality(UpToDelta(S, v)) > n
  OBVIOUS
<1>5. Cardinality(DeltasBelow(S, v)) <= n
  <2>1. CASE v = 0
    <3>1. DeltasBelow(S, v) = {}
      BY <2>1 DEF DeltasBelow
    <3> QED BY <3>1, FS_EmptySet
  <2>2. CASE v # 0
    <3>1. PICK w \in 0 .. 100 : w = v - 1
      BY ONLY <1>4, <2>2
    <3>2. w \notin enough
      <4>1. ~(v <= w)
        BY ONLY <1>4, <3>1
      <4> QED BY <1>3, <4>1
    <3>3. DeltasBelow(S, v) = UpToDelta(S, w)
      BY <1>4, <3>1 DEF DeltasBelow, UpToDelta
    <3>4. Cardinality(UpToDelta(S, w)) <= n
      BY <1>1, <3>2
    <3> QED BY <3>3, <3>4
  <2> QED BY <2>1, <2>2
<1>6. \E r \in S : r.delta = v
  <2> SUFFICES ASSUME \A r \in S : r.delta # v PROVE FALSE
    OBVIOUS
  <2>1. UpToDelta(S, v) = DeltasBelow(S, v)
    BY <1>4 DEF DeltasBelow, UpToDelta
  <2> QED BY <1>1, <1>4, <1>5, <2>1
<1>7. PICK r \in S : r.delta = v
  BY <1>6
<1>8. Cardinality({x \in S : x.delta < r.delta}) <= n /\ Cardinality({x \in S : x.delta <= r.delta}) > n
  BY <1>4, <1>5, <1>7 DEF DeltasBelow, UpToDelta
<1> QED BY <1>8 DEF DeltaAt

(* The band of a fan has the middle delta of the contract's life.            *)
LEMMA FanIs ==
  ASSUME NEW rows, AreArchived(rows)
  PROVE  FanIsOfItsKind(rows)
<1> SUFFICES ASSUME NEW c \in rows, BucketOf(rows, c) # NONE
             PROVE  \E r \in Life(rows, c) : LET b == DEFAULT_BUCKETS[BucketOf(rows, c)]
                                             IN b[1] <= r.delta /\ r.delta < b[2]
  BY DEF FanIsOfItsKind, Fan
<1> DEFINE S == {r \in Life(rows, c) : r.delta > 0}
           med == DeltaAt(S, Cardinality(S) \div 2)
           fits == {i \in DOMAIN DEFAULT_BUCKETS : DEFAULT_BUCKETS[i][1] <= med.delta /\ med.delta < DEFAULT_BUCKETS[i][2]}
<1>1. S # {} /\ fits # {} /\ BucketOf(rows, c) = CHOOSE i \in fits : \A j \in fits : i <= j
  BY DEF BucketOf
<1>2. IsFiniteSet(S) /\ \A r \in S : r.delta \in 0 .. 100
  <2>1. S \subseteq rows
    BY DEF Life
  <2> QED BY <2>1, FS_Subset DEF AreArchived
<1>3. med \in S
  <2>1. Cardinality(S) \in Nat /\ Cardinality(S) # 0
    BY <1>1, <1>2, FS_EmptySet, FS_CardinalityType
  <2>2. PICK n \in Nat : n = Cardinality(S)
    BY <2>1
  <2>3. n \div 2 \in Nat /\ n \div 2 < n
    BY ONLY <2>1, <2>2
  <2> HIDE DEF S
  <2> QED BY <1>2, <2>2, <2>3, MiddleIs
<1>4. PICK b : b = BucketOf(rows, c)
  OBVIOUS
<1>5. b \in fits
  <2>1. fits \subseteq Nat
    BY HistoryAssumption
  <2> HIDE DEF fits
  <2>2. \E i \in fits : \A j \in fits : i <= j
    BY ONLY <1>1, <2>1, Least
  <2> QED BY <1>1, <1>4, <2>2
<1> QED BY <1>3, <1>4, <1>5

(* What the Opt page draws is like what was asked for (opthist.py), of every *)
(* archive that days are appended to, whatever it holds: of each day of a    *)
(* series the nearest row there is, a percentage only adds days, and a fan   *)
(* is drawn over a band that the contract was in.                            *)
THEOREM LikeIsDrawnWithLike == InsureInit /\ [][InsureNext]_insureVars => LikeWithLike
<1> DEFINE Days == archive \subseteq (0 .. LastDay) \cap DOMAIN ChainOf
           Like == archive' # archive => \A rows \in {Rows'} : GraceOnlyAdds(rows) /\ FanIsOfItsKind(rows)
<1>1. InsureInit => Days
  BY DEF InsureInit
<1>2. Days /\ [InsureNext]_insureVars => Days'
  BY DEF InsureNext, insureVars, NewDay, Ask, SweepEnds, SweepFails, AppendDay, CacheStores, OthersSweep,
         Collects, BackfillsBars, PrunesBars
<1>3. Days' => Like
  <2> SUFFICES ASSUME Days' PROVE GraceOnlyAdds(Rows') /\ FanIsOfItsKind(Rows')
    OBVIOUS
  <2>1. AreArchived(Rows')
    <3> DEFINE chains == {ChainOf[d] : d \in archive'}
    <3>1. Rows' = UNION chains
      BY DEF Rows
    <3>2. IsFiniteSet(chains)
      <4>1. IsFiniteSet(archive')
        <5>1. IsFiniteSet(0 .. LastDay)
          <6>1. LastDay \in Int /\ 0 \in Int
            BY InsureAssumption
          <6> QED BY ONLY <6>1, FS_Interval
        <5>2. archive' \in SUBSET (0 .. LastDay)
          OBVIOUS
        <5> QED BY <5>1, <5>2, FS_Subset
      <4>2. [d \in archive' |-> ChainOf[d]] \in Surjection(archive', chains)
        BY DEF Surjection
      <4> QED BY <4>1, <4>2, FS_Surjection
    <3>3. \A T \in chains : IsFiniteSet(T) /\ \A r \in T : {r.date, r.exp, r.strike} \subseteq Int /\ r.delta \in 0 .. 100
      BY InsureAssumption
    <3> HIDE DEF chains
    <3>4. IsFiniteSet(UNION chains)
      BY <3>2, <3>3, FS_UNION
    <3> QED BY <3>1, <3>3, <3>4 DEF AreArchived
  <2>2. PICK rows : rows = Rows'
    OBVIOUS
  <2>3. AreArchived(rows)
    BY ONLY <2>1, <2>2
  <2> QED BY ONLY <2>2, <2>3, GraceAdds, FanIs
<1>4. LikeWithLike <=> [][Like]_archive
  BY PTL DEF LikeWithLike
<1> HIDE DEF Days, Like
<1>5. Days' => [Like]_archive
  BY <1>3
<1> QED BY <1>1, <1>2, <1>4, <1>5, PTL

(* What is settled of some trials, what of that could be sold, and for how   *)
(* much.                                                                     *)
SettledOf(F) == {t \in F : t.status = "settled"}
PricedOf(F) == {t \in SettledOf(F) : t.credit # Unknown}
CreditsOf(F) == [t \in PricedOf(F) |-> t.credit]

(* A trial, as far as the numbers that are taken of it.                      *)
IsTrial(t) ==
  /\ t.row.exp \in Nat /\ t.row.date \in Nat /\ t.row.delta \in Nat
  /\ t.claim \in {0, 1} /\ t.sev \in Nat /\ t.credit \in Int /\ t.credit >= Unknown
  /\ t.status \in Reasons \cup {"settled"}

(* One trial more adds itself to every sum.                                  *)
LEMMA VoteOfMore ==
  ASSUME NEW G, IsFiniteSet(G), \A u \in G : IsTrial(u), NEW t, t \notin G, IsTrial(t)
  PROVE  /\ Vote(G).n \in Nat /\ Vote(G).claims \in Int /\ Vote(G).sev \in Int
         /\ Vote(G \cup {t}) = [n |-> Vote(G).n + 1, claims |-> Vote(G).claims + t.claim, sev |-> Vote(G).sev + t.sev]
<1> DEFINE H == G \cup {t}
           c == [u \in G |-> u.claim]
           s == [u \in G |-> u.sev]
           cc == [u \in H |-> u.claim]
           ss == [u \in H |-> u.sev]
<1>1. Cardinality(H) = Cardinality(G) + 1 /\ Cardinality(G) \in Nat
  BY FS_AddElement, FS_CardinalityType
<1>2. PICK v \in Int : v = t.claim /\ c \in [G -> Int]
  BY DEF IsTrial
<1>3. PICK w \in Int : w = t.sev /\ s \in [G -> Int]
  BY DEF IsTrial
<1>4. cc = [u \in G \cup {t} |-> IF u = t THEN v ELSE c[u]] /\ ss = [u \in G \cup {t} |-> IF u = t THEN w ELSE s[u]]
  BY <1>2, <1>3
<1>5. TotalOf(cc) = v + TotalOf(c) /\ TotalOf(c) \in Int
  <2>1. cc = [u \in G \cup {t} |-> IF u = t THEN v ELSE c[u]]
    BY <1>4
  <2> HIDE DEF c, cc, s, ss, H
  <2> QED BY <1>2, <2>1, TotalOfMore
<1>6. TotalOf(ss) = w + TotalOf(s) /\ TotalOf(s) \in Int
  <2>1. ss = [u \in G \cup {t} |-> IF u = t THEN w ELSE s[u]]
    BY <1>4
  <2> HIDE DEF c, cc, s, ss, H
  <2> QED BY <1>3, <2>1, TotalOfMore
<1>7. Vote(G) = [n |-> Cardinality(G), claims |-> TotalOf(c), sev |-> TotalOf(s)]
  BY DEF Vote
<1>8. Vote(H) = [n |-> Cardinality(H), claims |-> TotalOf(cc), sev |-> TotalOf(ss)]
  BY DEF Vote
<1> HIDE DEF c, s, cc, ss
<1> QED BY <1>1, <1>2, <1>3, <1>5, <1>6, <1>7, <1>8

LEMMA TallyOfMore ==
  ASSUME NEW Q, IsFiniteSet(Q), \A u \in Q : IsTrial(u), NEW t, t \notin Q, IsTrial(t)
  PROVE  Tally(Q \cup {t}) = Plus(Tally(Q), Distance(t.credit, t.sev))
<1> DEFINE H == Q \cup {t}
           c == [u \in Q |-> Distance(u.credit, u.sev)]
           cc == [u \in H |-> Distance(u.credit, u.sev)]
<1>1. Cardinality(H) = Cardinality(Q) + 1 /\ Cardinality(Q) \in Nat
  BY FS_AddElement, FS_CardinalityType
<1>2. PICK v \in Int : v = Distance(t.credit, t.sev) /\ c \in [Q -> Int]
  BY DEF IsTrial, Distance
<1>3. cc = [u \in Q \cup {t} |-> IF u = t THEN v ELSE c[u]]
  BY <1>2
<1>4. TotalOf(cc) = v + TotalOf(c) /\ TotalOf(c) \in Int
  <2> HIDE DEF c, cc, H
  <2> QED BY <1>2, <1>3, TotalOfMore
<1>5. Tally(Q) = <<TotalOf(c), Cardinality(Q)>> /\ Tally(H) = <<TotalOf(cc), Cardinality(H)>>
  BY DEF Tally
<1> HIDE DEF c, cc
<1>6. TotalOf(cc) = TotalOf(c) + Distance(t.credit, t.sev)
  BY <1>2, <1>4
<1> QED BY <1>1, <1>5, <1>6 DEF Plus

LEMMA DeltasOfMore ==
  ASSUME NEW Q, IsFiniteSet(Q), \A u \in Q : IsTrial(u), NEW t, t \notin Q, IsTrial(t)
  PROVE  Deltas(Q \cup {t}) = Plus(Deltas(Q), t.row.delta)
<1> DEFINE H == Q \cup {t}
           c == [u \in Q |-> u.row.delta]
           cc == [u \in H |-> u.row.delta]
<1>1. Cardinality(H) = Cardinality(Q) + 1 /\ Cardinality(Q) \in Nat
  BY FS_AddElement, FS_CardinalityType
<1>2. PICK v \in Int : v = t.row.delta /\ c \in [Q -> Int]
  BY DEF IsTrial
<1>3. cc = [u \in Q \cup {t} |-> IF u = t THEN v ELSE c[u]]
  BY <1>2
<1>4. TotalOf(cc) = v + TotalOf(c) /\ TotalOf(c) \in Int
  <2> HIDE DEF c, cc, H
  <2> QED BY <1>2, <1>3, TotalOfMore
<1>5. Deltas(Q) = <<TotalOf(c), Cardinality(Q)>> /\ Deltas(H) = <<TotalOf(cc), Cardinality(H)>>
  BY DEF Deltas
<1> HIDE DEF c, cc
<1>6. TotalOf(cc) = TotalOf(c) + t.row.delta
  BY <1>2, <1>4
<1> QED BY <1>1, <1>5, <1>6 DEF Plus

LEMMA VotesOfMore ==
  ASSUME NEW S, IsFiniteSet(S), \A u \in S : IsTrial(u), NEW t, t \notin S, IsTrial(t),
         NEW x, x = t.row.exp, NEW old, old = Votes(S),
         NEW e, e = IF x \in DOMAIN old THEN old[x] ELSE [n |-> 0, claims |-> 0, sev |-> 0],
         NEW more, more = [n |-> e.n + 1, claims |-> e.claims + t.claim, sev |-> e.sev + t.sev]
  PROVE  Votes(S \cup {t}) = [y \in DOMAIN old \cup {x} |-> IF y = x THEN more ELSE old[y]]
<1> DEFINE H == S \cup {t}
           G == {u \in S : u.row.exp = x}
<1>1. DOMAIN old = {u.row.exp : u \in S} /\ DOMAIN Votes(H) = DOMAIN old \cup {x}
  BY DEF Votes
<1>2. Vote(G) = e
  <2>1. CASE x \in DOMAIN old
    <3>1. old[x] = Vote(G)
      BY <1>1, <2>1 DEF Votes
    <3> QED BY <2>1, <3>1
  <2>2. CASE x \notin DOMAIN old
    <3>1. G = {}
      BY <1>1, <2>2
    <3>2. Cardinality({}) = 0
      BY FS_EmptySet
    <3> DEFINE f == [u \in {} |-> 0]
    <3>3. [u \in {} |-> u.claim] = f /\ [u \in {} |-> u.sev] = f
      OBVIOUS
    <3>4. TotalOf(f) = 0
      <4>1. f \in [{} -> Int]
        OBVIOUS
      <4> QED BY <4>1, TotalOfNone
    <3>5. Vote({}) = [n |-> 0, claims |-> 0, sev |-> 0]
      <4> HIDE DEF f
      <4> QED BY <3>2, <3>3, <3>4 DEF Vote
    <3> QED BY <2>2, <3>1, <3>5
  <2> QED BY <2>1, <2>2
<1>3. Vote(G \cup {t}) = more
  <2>1. IsFiniteSet(G) /\ (\A u \in G : IsTrial(u)) /\ t \notin G
    BY FS_Subset
  <2> HIDE DEF G
  <2>2. Vote(G \cup {t}) = [n |-> Vote(G).n + 1, claims |-> Vote(G).claims + t.claim, sev |-> Vote(G).sev + t.sev]
    BY <2>1, VoteOfMore
  <2> QED BY <1>2, <2>2
<1>4. ASSUME NEW y \in DOMAIN old \cup {x} PROVE Votes(H)[y] = IF y = x THEN more ELSE old[y]
  <2>1. Votes(H)[y] = Vote({u \in H : u.row.exp = y})
    BY <1>1, <1>4 DEF Votes
  <2>2. CASE y = x
    <3>1. {u \in H : u.row.exp = y} = G \cup {t}
      BY <2>2
    <3> QED BY <1>3, <2>1, <2>2, <3>1
  <2>3. CASE y # x
    <3>1. {u \in H : u.row.exp = y} = {u \in S : u.row.exp = y}
      BY <2>3
    <3>2. old[y] = Vote({u \in S : u.row.exp = y})
      BY <1>1, <2>3 DEF Votes
    <3> QED BY <2>1, <2>3, <3>1, <3>2
  <2> QED BY <2>2, <2>3
<1>5. Votes(H) = [y \in DOMAIN Votes(H) |-> Votes(H)[y]]
  BY DEF Votes
<1> HIDE DEF H
<1>6. Votes(H) = [y \in DOMAIN old \cup {x} |-> IF y = x THEN more ELSE old[y]]
  BY ONLY <1>1, <1>4, <1>5
<1> QED BY <1>6 DEF H

IsFirst(S, m) == m \in S /\ \A x \in S : m <= x
DatesOf(F) == {t.row.date : t \in SettledOf(F)}

(* The running sums of a class are those of the trials so far: in whatever   *)
(* order they came, but for the list of credits.                             *)
Holds(c, F) ==
  /\ c = [exps |-> c.exps, credits |-> c.credits, won |-> c.won, lost |-> c.lost, deltas |-> c.deltas,
          first |-> c.first, last |-> c.last, censored |-> c.censored]
  /\ c.exps = Votes(SettledOf(F))
  /\ Enumerates(c.credits, CreditsOf(F))
  /\ c.won = Tally({t \in PricedOf(F) : t.credit > t.sev})
  /\ c.lost = Tally({t \in PricedOf(F) : t.credit <= t.sev})
  /\ c.deltas = Deltas({t \in SettledOf(F) : t.row.delta > 0})
  /\ IsFirst(DatesOf(F) \cup {LastDay}, c.first) /\ IsLast(DatesOf(F) \cup {0}, c.last)
  /\ c.censored = [w \in Reasons |-> Cardinality({t \in F : t.status = w})]

(* _settled: one more that was settled is in the votes, in the prices and in *)
(* the window.                                                               *)
LEMMA SettledCounts ==
  ASSUME NEW F, IsFiniteSet(F), \A u \in F : IsTrial(u), NEW t, t \notin F, IsTrial(t), t.status = "settled",
         NEW c, Holds(c, F)
  PROVE  Holds(Settled(c, t), F \cup {t})
<1> DEFINE H == F \cup {t}
           S == SettledOf(F)
           P == PricedOf(F)
<1>1. SettledOf(H) = S \cup {t} /\ t \notin S /\ S \subseteq F /\ IsFiniteSet(S)
  <2>1. SettledOf(H) = S \cup {t} /\ t \notin S /\ S \subseteq F
    BY DEF SettledOf
  <2>2. IsFiniteSet(S)
    BY FS_Subset, <2>1
  <2> QED BY <2>1, <2>2
<1>2. PricedOf(H) = (IF t.credit # Unknown THEN P \cup {t} ELSE P) /\ t \notin P /\ P \subseteq F /\ IsFiniteSet(P)
  <2>1. t \notin P /\ P \subseteq S /\ PricedOf(H) = IF t.credit # Unknown THEN P \cup {t} ELSE P
    BY <1>1 DEF PricedOf
  <2>2. IsFiniteSet(P)
    BY FS_Subset, <2>1, <1>1
  <2> QED BY <1>1, <2>1, <2>2
<1>3. PICK s : s = Settled(c, t)
  OBVIOUS
<1>4. /\ s = [exps |-> s.exps, credits |-> s.credits, won |-> s.won, lost |-> s.lost, deltas |-> s.deltas,
              first |-> s.first, last |-> s.last, censored |-> s.censored]
      /\ s.deltas = (IF t.row.delta > 0 THEN Plus(c.deltas, t.row.delta) ELSE c.deltas)
      /\ s.credits = (IF t.credit # Unknown THEN Append(c.credits, t.credit) ELSE c.credits)
      /\ s.won = (IF t.credit > t.sev THEN Plus(c.won, t.credit - t.sev) ELSE c.won)
      /\ s.lost = (IF t.credit # Unknown /\ t.credit <= t.sev THEN Plus(c.lost, t.sev - t.credit) ELSE c.lost)
      /\ s.first = FirstOf(c, t) /\ s.last = Max({c.last, t.row.date}) /\ s.censored = c.censored
  BY <1>3 DEF Settled
<1>5. s.exps = Votes(SettledOf(H))
  <2>1. PICK x, old, e, more :
          /\ x = t.row.exp /\ old = c.exps
          /\ e = (IF x \in DOMAIN old THEN old[x] ELSE [n |-> 0, claims |-> 0, sev |-> 0])
          /\ more = [n |-> e.n + 1, claims |-> e.claims + t.claim, sev |-> e.sev + t.sev]
    OBVIOUS
  <2>2. s.exps = [y \in DOMAIN old \cup {x} |-> IF y = x THEN more ELSE old[y]]
    BY <1>3, <2>1 DEF Settled
  <2>3. old = Votes(S) /\ \A u \in S : IsTrial(u)
    BY <1>1, <2>1 DEF Holds
  <2>4. Votes(S \cup {t}) = [y \in DOMAIN old \cup {x} |-> IF y = x THEN more ELSE old[y]]
    <3> HIDE DEF S, H
    <3> QED BY <1>1, <2>1, <2>3, VotesOfMore
  <2> QED BY <1>1, <2>2, <2>4
<1>6. Enumerates(s.credits, CreditsOf(H))
  <2>a. PICK cr, val : cr = c.credits /\ val = CreditsOf(F)
    OBVIOUS
  <2>0. PICK v \in Int : v = t.credit /\ cr = c.credits /\ val = CreditsOf(F)
    BY <2>a DEF IsTrial
  <2>1. Enumerates(cr, val) /\ val \in [P -> Int]
    BY <1>2, <2>0 DEF Holds, IsTrial, CreditsOf
  <2>2. CASE t.credit # Unknown
    <3>1. CreditsOf(H) = [y \in P \cup {t} |-> IF y = t THEN v ELSE val[y]]
      BY <1>2, <2>0, <2>2 DEF CreditsOf
    <3>2. PICK more : more = [y \in P \cup {t} |-> IF y = t THEN v ELSE val[y]]
      OBVIOUS
    <3>3. Enumerates(Append(cr, v), more)
      <4> HIDE DEF P, H
      <4> QED BY <1>2, <2>1, <3>2, OneMoreListed
    <3> QED BY <1>4, <2>0, <2>2, <3>1, <3>2, <3>3
  <2>3. CASE t.credit = Unknown
    <3>1. CreditsOf(H) = CreditsOf(F)
      BY <1>2, <2>3 DEF CreditsOf
    <3> QED BY <1>4, <2>0, <2>1, <2>3, <3>1
  <2> QED BY <2>2, <2>3
<1>7. s.won = Tally({u \in PricedOf(H) : u.credit > u.sev})
  <2> DEFINE W == {u \in P : u.credit > u.sev}
  <2>1. c.won = Tally(W) /\ IsFiniteSet(W) /\ t \notin W /\ \A u \in W : IsTrial(u)
    BY <1>2, FS_Subset DEF Holds
  <2>2. CASE t.credit > t.sev
    <3>1. t.credit # Unknown /\ Distance(t.credit, t.sev) = t.credit - t.sev
      BY <2>2 DEF IsTrial, Unknown, Distance
    <3>2. {u \in PricedOf(H) : u.credit > u.sev} = W \cup {t}
      BY <1>2, <2>2, <3>1
    <3>3. Tally(W \cup {t}) = Plus(Tally(W), Distance(t.credit, t.sev))
      <4> HIDE DEF W
      <4> QED BY <2>1, TallyOfMore
    <3> QED BY <1>4, <2>1, <2>2, <3>1, <3>2, <3>3
  <2>3. CASE ~(t.credit > t.sev)
    <3>1. {u \in PricedOf(H) : u.credit > u.sev} = W
      BY <1>2, <2>3
    <3> QED BY <1>4, <2>1, <2>3, <3>1
  <2> QED BY <2>2, <2>3
<1>8. s.lost = Tally({u \in PricedOf(H) : u.credit <= u.sev})
  <2> DEFINE W == {u \in P : u.credit <= u.sev}
  <2>1. c.lost = Tally(W) /\ IsFiniteSet(W) /\ t \notin W /\ \A u \in W : IsTrial(u)
    BY <1>2, FS_Subset DEF Holds
  <2>2. CASE t.credit # Unknown /\ t.credit <= t.sev
    <3>1. Distance(t.credit, t.sev) = t.sev - t.credit
      BY <2>2 DEF IsTrial, Distance
    <3>2. {u \in PricedOf(H) : u.credit <= u.sev} = W \cup {t}
      BY <1>2, <2>2
    <3>3. Tally(W \cup {t}) = Plus(Tally(W), Distance(t.credit, t.sev))
      <4> HIDE DEF W
      <4> QED BY <2>1, TallyOfMore
    <3> QED BY <1>4, <2>1, <2>2, <3>1, <3>2, <3>3
  <2>3. CASE ~(t.credit # Unknown /\ t.credit <= t.sev)
    <3>1. {u \in PricedOf(H) : u.credit <= u.sev} = W
      BY <1>2, <2>3
    <3> QED BY <1>4, <2>1, <2>3, <3>1
  <2> QED BY <2>2, <2>3
<1>9. s.deltas = Deltas({u \in SettledOf(H) : u.row.delta > 0})
  <2> DEFINE W == {u \in S : u.row.delta > 0}
  <2>1. c.deltas = Deltas(W) /\ IsFiniteSet(W) /\ t \notin W /\ \A u \in W : IsTrial(u)
    BY <1>1, FS_Subset DEF Holds
  <2>2. CASE t.row.delta > 0
    <3>1. {u \in SettledOf(H) : u.row.delta > 0} = W \cup {t}
      BY <1>1, <2>2
    <3>2. Deltas(W \cup {t}) = Plus(Deltas(W), t.row.delta)
      <4> HIDE DEF W
      <4> QED BY <2>1, DeltasOfMore
    <3> QED BY <1>4, <2>1, <2>2, <3>1, <3>2
  <2>3. CASE ~(t.row.delta > 0)
    <3>1. {u \in SettledOf(H) : u.row.delta > 0} = W
      BY <1>1, <2>3
    <3> QED BY <1>4, <2>1, <2>3, <3>1
  <2> QED BY <2>2, <2>3
<1>10. PICK d \in Nat : d = t.row.date /\ DatesOf(H) = DatesOf(F) \cup {d} /\ DatesOf(F) \subseteq Nat
  <2>1. DatesOf(F) = {u.row.date : u \in S} /\ DatesOf(H) = {u.row.date : u \in S \cup {t}}
    BY <1>1 DEF DatesOf
  <2>2. \A u \in S \cup {t} : u.row.date \in Nat
    BY <1>1 DEF IsTrial
  <2>3. {u.row.date : u \in S \cup {t}} = {u.row.date : u \in S} \cup {t.row.date}
    OBVIOUS
  <2> HIDE DEF S, H
  <2> QED BY <2>1, <2>2, <2>3
<1>11. IsFirst(DatesOf(H) \cup {LastDay}, s.first)
  <2>1. PICK m \in Nat : m = c.first /\ IsFirst(DatesOf(F) \cup {LastDay}, m)
    BY <1>10, InsureAssumption DEF Holds, IsFirst
  <2>2. PICK k : k = Min({m, d})
    OBVIOUS
  <2>3. k \in {m, d} /\ k <= m /\ k <= d
    <3>1. \E x \in {m, d} : \A y \in {m, d} : x <= y
      <4>1. m <= d \/ d <= m
        OBVIOUS
      <4> QED BY <4>1
    <3> QED BY <2>2, <3>1 DEF Min
  <2>4. s.first = k
    BY <1>4, <1>10, <2>1, <2>2 DEF FirstOf
  <2>5. k \in DatesOf(H) \cup {LastDay}
    BY <1>10, <2>1, <2>3 DEF IsFirst
  <2>6. \A x \in DatesOf(H) \cup {LastDay} : k <= x
    <3>1. DatesOf(F) \cup {LastDay} \subseteq Nat
      BY <1>10, InsureAssumption
    <3>2. \A x \in DatesOf(F) \cup {LastDay} : k <= x
      BY <2>1, <2>3, <3>1 DEF IsFirst
    <3> QED BY <1>10, <2>3, <3>2
  <2> QED BY <2>4, <2>5, <2>6 DEF IsFirst
<1>12. IsLast(DatesOf(H) \cup {0}, s.last)
  <2>1. PICK m \in Nat : m = c.last /\ IsLast(DatesOf(F) \cup {0}, m)
    BY <1>10 DEF Holds, IsLast
  <2>2. PICK k : k = Max({m, d})
    OBVIOUS
  <2>3. k \in {m, d} /\ m <= k /\ d <= k
    <3>1. \E x \in {m, d} : \A y \in {m, d} : x >= y
      <4>1. m <= d \/ d <= m
        OBVIOUS
      <4> QED BY <4>1
    <3> QED BY <2>2, <3>1 DEF Max
  <2>4. s.last = k
    BY <1>4, <1>10, <2>1, <2>2
  <2>5. k \in DatesOf(H) \cup {0}
    BY <1>10, <2>1, <2>3 DEF IsLast
  <2>6. \A x \in DatesOf(H) \cup {0} : x <= k
    <3>1. \A x \in DatesOf(F) \cup {0} : x <= k
      BY <1>10, <2>1, <2>3 DEF IsLast
    <3> QED BY <1>10, <2>3, <3>1
  <2> QED BY <2>4, <2>5, <2>6 DEF IsLast
<1>13. s.censored = [w \in Reasons |-> Cardinality({u \in H : u.status = w})]
  <2>1. \A w \in Reasons : {u \in H : u.status = w} = {u \in F : u.status = w}
    BY DEF Reasons
  <2> QED BY <1>4, <2>1 DEF Holds
<1> HIDE DEF H
<1>14. Holds(s, H)
  BY ONLY <1>4, <1>5, <1>6, <1>7, <1>8, <1>9, <1>11, <1>12, <1>13 DEF Holds
<1> QED BY <1>3, <1>14 DEF H

(* One that was not is counted for why not.                                  *)
LEMMA OthersAreCounted ==
  ASSUME NEW F, IsFiniteSet(F), NEW t, t \notin F, IsTrial(t), t.status # "settled", NEW c, Holds(c, F)
  PROVE  Holds([c EXCEPT !.censored[t.status] = @ + 1], F \cup {t})
<1> DEFINE H == F \cup {t}
<1>1. SettledOf(H) = SettledOf(F)
  BY DEF SettledOf
<1>2. PricedOf(H) = PricedOf(F) /\ CreditsOf(H) = CreditsOf(F) /\ DatesOf(H) = DatesOf(F)
  BY <1>1 DEF PricedOf, CreditsOf, DatesOf
<1>3. PICK s : s = [c EXCEPT !.censored[t.status] = @ + 1]
  OBVIOUS
<1>4. /\ s = [exps |-> s.exps, credits |-> s.credits, won |-> s.won, lost |-> s.lost, deltas |-> s.deltas,
              first |-> s.first, last |-> s.last, censored |-> s.censored]
      /\ s.exps = c.exps /\ s.credits = c.credits /\ s.won = c.won /\ s.lost = c.lost /\ s.deltas = c.deltas
      /\ s.first = c.first /\ s.last = c.last
      /\ s.censored = [c.censored EXCEPT ![t.status] = @ + 1]
  BY <1>3 DEF Holds
<1>5. s.censored = [w \in Reasons |-> Cardinality({u \in H : u.status = w})]
  <2> DEFINE Of(w) == {u \in F : u.status = w}
  <2>1. t.status \in Reasons
    BY DEF IsTrial
  <2>2. Cardinality(Of(t.status) \cup {t}) = Cardinality(Of(t.status)) + 1
    <3>1. IsFiniteSet(Of(t.status)) /\ t \notin Of(t.status)
      BY FS_Subset
    <3> HIDE DEF Of
    <3> QED BY <3>1, FS_AddElement
  <2>3. \A w \in Reasons : {u \in H : u.status = w} = IF w = t.status THEN Of(t.status) \cup {t} ELSE Of(w)
    OBVIOUS
  <2>4. c.censored = [w \in Reasons |-> Cardinality(Of(w))]
    BY DEF Holds
  <2>5. s.censored = [w \in Reasons |-> IF w = t.status THEN Cardinality(Of(w)) + 1 ELSE Cardinality(Of(w))]
    <3> HIDE DEF Of
    <3> QED BY <1>4, <2>1, <2>4
  <2> HIDE DEF Of, H
  <2> QED BY <2>2, <2>3, <2>5
<1> HIDE DEF H
<1>6. Holds(s, H)
  <2>1. Holds(c, F)
    OBVIOUS
  <2> QED BY ONLY <1>1, <1>2, <1>4, <1>5, <2>1 DEF Holds
<1> QED BY <1>3, <1>6 DEF H

(* SetToSeq puts the members of a finite set in some order, each once.       *)
LEMMA SetToSeqIs ==
  ASSUME NEW S, IsFiniteSet(S)
  PROVE  \E n \in Nat : /\ n = Cardinality(S) /\ SetToSeq(S) \in [1 .. n -> S]
                        /\ SetToSeq(S) \in Seq(S) /\ Len(SetToSeq(S)) = n
                        /\ \A i, j \in 1 .. n : SetToSeq(S)[i] = SetToSeq(S)[j] => i = j
                        /\ \A x \in S : \E i \in 1 .. n : SetToSeq(S)[i] = x
<1>1. PICK n \in Nat : n = Cardinality(S) /\ ExistsBijection(1 .. n, S)
  BY FS_CardinalityType
<1>2. PICK s : s = SetToSeq(S)
  OBVIOUS
<1>3. s \in [1 .. n -> S] /\ IsInjective(s)
  <2>1. PICK f \in [1 .. n -> S] : IsInjective(f)
    BY <1>1 DEF ExistsBijection, Bijection, Injection
  <2>2. s = CHOOSE g \in [1 .. n -> S] : IsInjective(g)
    BY <1>1, <1>2 DEF SetToSeq
  <2> QED BY <2>1, <2>2
<1>4. s \in Injection(1 .. n, S)
  BY <1>3 DEF Injection
<1>5. s \in Surjection(1 .. n, S)
  <2>1. Cardinality(1 .. n) = n
    BY FS_Interval
  <2> QED BY <1>1, <1>4, <2>1, FS_Injection
<1>6. \A x \in S : \E i \in 1 .. n : s[i] = x
  BY <1>5 DEF Surjection
<1>7. \A i, j \in 1 .. n : s[i] = s[j] => i = j
  BY <1>3 DEF IsInjective
<1>8. s \in Seq(S) /\ Len(s) = n
  BY <1>3
<1> QED BY <1>1, <1>2, <1>3, <1>6, <1>7, <1>8

(* The running sums of every class there is a trial of.                      *)
OfClass(F, k) == {t \in F : t.class = k}
HoldAll(agg, F) ==
  /\ agg = [k \in {t.class : t \in F} |-> agg[k]]
  /\ \A k \in {t.class : t \in F} : Holds(agg[k], OfClass(F, k))

(* At the start there are none.                                              *)
LEMMA NewHoldsNothing == Holds(NewClass, {})
<1>1. SettledOf({}) = {} /\ PricedOf({}) = {} /\ DatesOf({}) = {} /\ CreditsOf({}) = [t \in {} |-> t.credit]
  BY DEF SettledOf, PricedOf, DatesOf, CreditsOf
<1>2. PICK f, g : f = [t \in {} |-> Distance(t.credit, t.sev)] /\ g = [t \in {} |-> t.row.delta]
  OBVIOUS
<1>3. f \in [{} -> Int] /\ g \in [{} -> Int]
  BY <1>2
<1>4. TotalOf(f) = 0 /\ TotalOf(g) = 0 /\ Cardinality({}) = 0
  BY <1>3, TotalOfNone, FS_EmptySet
<1>5. Tally({}) = <<0, 0>> /\ Deltas({}) = <<0, 0>>
  BY <1>2, <1>4 DEF Tally, Deltas
<1>6. Votes({}) = <<>>
  BY DEF Votes
<1>7. Enumerates(<<>>, CreditsOf({}))
  <2>1. DOMAIN CreditsOf({}) = {}
    BY <1>1
  <2> QED BY <2>1, NoneListed
<1>8. IsFirst({} \cup {LastDay}, LastDay) /\ IsLast({} \cup {0}, 0)
  BY InsureAssumption DEF IsFirst, IsLast
<1>9. PICK c : c = NewClass
  OBVIOUS
<1>10. /\ c = [exps |-> c.exps, credits |-> c.credits, won |-> c.won, lost |-> c.lost, deltas |-> c.deltas,
               first |-> c.first, last |-> c.last, censored |-> c.censored]
       /\ c.exps = <<>> /\ c.credits = <<>> /\ c.won = <<0, 0>> /\ c.lost = <<0, 0>> /\ c.deltas = <<0, 0>>
       /\ c.first = LastDay /\ c.last = 0 /\ c.censored = [w \in Reasons |-> 0]
  BY <1>9 DEF NewClass
<1>11. {t \in PricedOf({}) : t.credit > t.sev} = {} /\ {t \in PricedOf({}) : t.credit <= t.sev} = {}
       /\ {t \in SettledOf({}) : t.row.delta > 0} = {}
  BY <1>1
<1>12. c.censored = [w \in Reasons |-> Cardinality({t \in {} : t.status = w})]
  <2>1. \A w \in Reasons : {t \in {} : t.status = w} = {}
    OBVIOUS
  <2> QED BY <1>4, <1>10, <2>1
<1>13. Holds(c, {})
  BY ONLY <1>1, <1>5, <1>6, <1>7, <1>8, <1>10, <1>11, <1>12 DEF Holds
<1> QED BY <1>9, <1>13

(* fold_trials, of one trial.                                                *)
LEMMA FoldOneHolds ==
  ASSUME NEW F, IsFiniteSet(F), \A u \in F : IsTrial(u), NEW t, t \notin F, IsTrial(t), NEW agg, HoldAll(agg, F)
  PROVE  HoldAll(FoldOne(t, agg), F \cup {t})
<1>1. PICK k, G : k = t.class /\ G = OfClass(F, k)
  OBVIOUS
<1>2. IsFiniteSet(G) /\ t \notin G /\ G \subseteq F /\ OfClass(F \cup {t}, k) = G \cup {t}
  <2>1. G \subseteq F /\ t \notin G /\ OfClass(F \cup {t}, k) = G \cup {t}
    BY <1>1 DEF OfClass
  <2> QED BY <2>1, FS_Subset
<1>3. \A j : j # k => OfClass(F \cup {t}, j) = OfClass(F, j)
  BY <1>1 DEF OfClass
<1>4. DOMAIN agg = {u.class : u \in F}
  BY DEF HoldAll
<1>5. PICK c : c = IF k \in DOMAIN agg THEN agg[k] ELSE NewClass
  OBVIOUS
<1>6. Holds(c, G)
  <2>1. CASE k \in DOMAIN agg
    BY <1>1, <1>4, <1>5, <2>1 DEF HoldAll
  <2>2. CASE k \notin DOMAIN agg
    <3>1. G = {}
      BY <1>1, <1>4, <2>2 DEF OfClass
    <3> QED BY <1>5, <2>2, <3>1, NewHoldsNothing
  <2> QED BY <2>1, <2>2
<1>7. PICK now : now = IF t.status = "settled" THEN Settled(c, t) ELSE [c EXCEPT !.censored[t.status] = @ + 1]
  OBVIOUS
<1>8. Holds(now, G \cup {t})
  <2>1. CASE t.status = "settled"
    <3>1. Holds(Settled(c, t), G \cup {t})
      BY <1>2, <1>6, <2>1, SettledCounts
    <3> QED BY <1>7, <2>1, <3>1
  <2>2. CASE t.status # "settled"
    <3>1. Holds([c EXCEPT !.censored[t.status] = @ + 1], G \cup {t})
      BY <1>2, <1>6, <2>2, OthersAreCounted
    <3> QED BY <1>7, <2>2, <3>1
  <2> QED BY <2>1, <2>2
<1>9. PICK a : a = FoldOne(t, agg)
  OBVIOUS
<1>10. a = [x \in DOMAIN agg \cup {k} |-> IF x = k THEN now ELSE agg[x]]
  BY <1>1, <1>5, <1>7, <1>9 DEF FoldOne
<1>11. DOMAIN agg \cup {k} = {u.class : u \in F \cup {t}}
  BY <1>1, <1>4
<1>12. ASSUME NEW j \in {u.class : u \in F \cup {t}} PROVE Holds(a[j], OfClass(F \cup {t}, j))
  <2>1. CASE j = k
    <3>1. a[j] = now /\ OfClass(F \cup {t}, j) = G \cup {t}
      BY <1>2, <1>10, <1>11, <2>1
    <3> QED BY <1>8, <3>1
  <2>2. CASE j # k
    <3>1. a[j] = agg[j] /\ OfClass(F \cup {t}, j) = OfClass(F, j) /\ j \in {u.class : u \in F}
      BY <1>3, <1>4, <1>10, <1>11, <2>2
    <3> QED BY <3>1 DEF HoldAll
  <2> QED BY <2>1, <2>2
<1>13. a = [j \in {u.class : u \in F \cup {t}} |-> a[j]]
  BY <1>10, <1>11
<1>14. HoldAll(a, F \cup {t})
  BY <1>12, <1>13 DEF HoldAll
<1> QED BY <1>9, <1>14

(* fold_trials, of one of what is left of a chunk.                           *)
LEMMA FoldAnyHolds ==
  ASSUME NEW F, NEW chunk, F \cap chunk = {}, IsFiniteSet(F), IsFiniteSet(chunk), \A u \in F \cup chunk : IsTrial(u),
         NEW b, b.left \subseteq chunk, b.left # {}, HoldAll(b.sums, F \cup (chunk \ b.left))
  PROVE  /\ FoldAny(b).left \subseteq chunk /\ Cardinality(FoldAny(b).left) = Cardinality(b.left) - 1
         /\ HoldAll(FoldAny(b).sums, F \cup (chunk \ FoldAny(b).left))
<1>1. PICK t, G, Q : t = (CHOOSE u \in b.left : TRUE) /\ G = F \cup (chunk \ b.left) /\ Q = b.left \ {t}
  OBVIOUS
<1>2. t \in b.left /\ t \in chunk /\ t \notin G /\ G \subseteq F \cup chunk /\ F \cup (chunk \ Q) = G \cup {t}
  BY <1>1
<1>3. FoldAny(b).left = Q /\ FoldAny(b).sums = FoldOne(t, b.sums)
  BY <1>1 DEF FoldAny
<1>4. IsFiniteSet(G)
  <2>1. IsFiniteSet(F \cup chunk)
    BY FS_Union
  <2> QED BY <1>2, <2>1, FS_Subset
<1>5. Cardinality(Q) = Cardinality(b.left) - 1
  <2>1. IsFiniteSet(b.left)
    BY FS_Subset
  <2> QED BY <1>1, <1>2, <2>1, FS_RemoveElement
<1>6. PICK a : a = b.sums
  OBVIOUS
<1>7. HoldAll(FoldOne(t, a), G \cup {t})
  BY <1>1, <1>2, <1>4, <1>6, FoldOneHolds
<1> QED BY <1>1, <1>2, <1>3, <1>5, <1>6, <1>7

(* fold_trials, of a chunk: whatever order its trials are in.                *)
LEMMA FoldTrialsHold ==
  ASSUME NEW F, NEW chunk, F \cap chunk = {}, IsFiniteSet(F), IsFiniteSet(chunk), \A u \in F \cup chunk : IsTrial(u),
         NEW agg, HoldAll(agg, F)
  PROVE  HoldAll(FoldTrials(agg, chunk), F \cup chunk)
<1>1. PICK L \in Nat : L = Cardinality(chunk)
  BY FS_CardinalityType
<1> DEFINE start == [left |-> chunk, sums |-> agg]
           Built(g, m) == g = [n \in 0 .. m |-> IF n = 0 THEN start ELSE FoldAny(g[n - 1])]
           bad == {m \in 0 .. L : ~\E g : Built(g, m)}
<1>2. bad = {}
  <2> SUFFICES ASSUME bad # {} PROVE FALSE
    OBVIOUS
  <2>1. PICK m \in bad : \A o \in bad : m <= o
    <3>1. bad \subseteq Nat
      OBVIOUS
    <3> HIDE DEF bad
    <3> QED BY <3>1, Least
  <2>2. CASE m = 0
    <3>1. Built([n \in 0 .. 0 |-> start], 0)
      OBVIOUS
    <3> QED BY <2>1, <2>2, <3>1
  <2>3. CASE m # 0
    <3>1. m \in 0 .. L /\ m - 1 \in 0 .. L /\ ~(m <= m - 1) /\ m \in Nat /\ m >= 1
      BY <2>1, <2>3
    <3>2. PICK f : Built(f, m - 1)
      BY <2>1, <3>1
    <3> DEFINE g == [n \in 0 .. m |-> IF n = m THEN FoldAny(f[m - 1]) ELSE f[n]]
    <3>3. \A n \in 0 .. m : n # m => n \in 0 .. m - 1
      BY <3>1
    <3>4. ASSUME NEW n \in 0 .. m PROVE g[n] = IF n = 0 THEN start ELSE FoldAny(g[n - 1])
      <4> HIDE DEF start
      <4>1. CASE n = m
        <5>1. n # 0 /\ n - 1 \in 0 .. m /\ n - 1 # m
          BY <3>1, <4>1
        <5>2. g[n - 1] = f[n - 1] /\ g[n] = FoldAny(f[n - 1])
          BY <4>1, <5>1
        <5> QED BY <5>1, <5>2
      <4>2. CASE n # m
        <5>1. n \in 0 .. m - 1 /\ g[n] = f[n]
          BY <3>3, <4>2
        <5>2. n # 0 => n - 1 \in 0 .. m /\ n - 1 # m
          BY <3>1, <5>1
        <5>3. f[n] = IF n = 0 THEN start ELSE FoldAny(f[n - 1])
          BY <3>2, <5>1
        <5> QED BY <5>1, <5>2, <5>3
      <4> QED BY <4>1, <4>2
    <3>5. Built(g, m)
      BY <3>4
    <3> QED BY <2>1, <3>5
  <2> QED BY <2>2, <2>3
<1>3. PICK f : f = CHOOSE g : Built(g, L)
  OBVIOUS
<1>4. Built(f, L)
  <2>1. \E g : Built(g, L)
    BY <1>2
  <2> HIDE DEF Built
  <2> QED BY <1>3, <2>1
<1>5. FoldTrials(agg, chunk) = f[L].sums
  BY <1>1, <1>3 DEF FoldTrials
<1>6. f[0] = start /\ \A n \in 1 .. L : f[n] = FoldAny(f[n - 1])
  BY <1>4
<1> DEFINE Good(b, n) == b.left \subseteq chunk /\ Cardinality(b.left) = L - n /\ HoldAll(b.sums, F \cup (chunk \ b.left))
           off == {n \in 0 .. L : ~Good(f[n], n)}
<1>7. ASSUME NEW n \in 1 .. L, Good(f[n - 1], n - 1) PROVE Good(f[n], n)
  <2>1. PICK b : b = f[n - 1]
    OBVIOUS
  <2>2. b.left \subseteq chunk /\ Cardinality(b.left) = L - (n - 1) /\ HoldAll(b.sums, F \cup (chunk \ b.left))
    BY <1>7, <2>1
  <2>3. b.left # {}
    <3>1. Cardinality(b.left) # 0 /\ Cardinality({}) = 0
      BY <2>2, FS_EmptySet
    <3> QED BY <3>1, Zenon
  <2>4. /\ FoldAny(b).left \subseteq chunk /\ Cardinality(FoldAny(b).left) = Cardinality(b.left) - 1
        /\ HoldAll(FoldAny(b).sums, F \cup (chunk \ FoldAny(b).left))
    BY <2>2, <2>3, FoldAnyHolds
  <2>5. f[n] = FoldAny(b)
    BY <1>6, <2>1
  <2> QED BY <2>2, <2>4, <2>5
<1>8. off = {}
  <2> SUFFICES ASSUME off # {} PROVE FALSE
    OBVIOUS
  <2>1. PICK m \in off : \A o \in off : m <= o
    <3>1. off \subseteq Nat
      OBVIOUS
    <3> HIDE DEF off
    <3> QED BY <3>1, Least
  <2>2. m # 0
    <3>1. f[0].left = chunk /\ f[0].sums = agg
      BY <1>6
    <3>2. F \cup (chunk \ f[0].left) = F
      BY <3>1
    <3>3. Good(f[0], 0)
      <4>1. Cardinality(f[0].left) = L - 0
        BY <1>1, <3>1
      <4> QED BY <3>1, <3>2, <4>1
    <3> HIDE DEF Good
    <3> QED BY <2>1, <3>3
  <2>3. m \in 1 .. L /\ m - 1 \in 0 .. L /\ ~(m <= m - 1)
    BY <2>1, <2>2
  <2>4. Good(f[m - 1], m - 1)
    <3> HIDE DEF Good
    <3> QED BY <2>1, <2>3
  <2> HIDE DEF Good
  <2>5. Good(f[m], m)
    BY <1>7, <2>3, <2>4
  <2> QED BY <2>1, <2>5
<1>9. Good(f[L], L)
  <2> HIDE DEF Good
  <2> QED BY <1>8
<1>10. f[L].left = {} /\ HoldAll(f[L].sums, F \cup (chunk \ f[L].left))
  <2>1. IsFiniteSet(f[L].left)
    BY <1>9, FS_Subset
  <2> QED BY <1>9, <2>1, FS_EmptySet
<1>11. F \cup (chunk \ f[L].left) = F \cup chunk
  BY <1>10
<1> QED BY <1>5, <1>10, <1>11

LEMMA DivIsNat ==
  ASSUME NEW a \in Nat, NEW b \in Nat, b > 0
  PROVE  a \div b \in Nat
  OBVIOUS

(* A row of the archive.                                                     *)
IsRow(r) == {r.date, r.exp, r.strike, r.bid, r.ask} \subseteq Nat /\ r.strike > 0 /\ r.delta \in 0 .. 100
(* What a day settles at is the bar of a day that has one: its own or that   *)
(* of one before it.                                                         *)
LEMMA SettlesAt ==
  ASSUME NEW closes, AreBars(closes, LastDay), NEW e \in Nat, SettleClose(e, closes) # Unknown
  PROVE  \E d \in DOMAIN closes : /\ SettleClose(e, closes) = closes[d] /\ closes[d] \in Nat
                                  /\ d = e \/ (e \notin DOMAIN closes /\ NoSession(e, closes))
<1>1. DOMAIN closes \subseteq Nat /\ \A d \in DOMAIN closes : closes[d] \in Nat
  BY InsureAssumption DEF AreBars
<1> DEFINE before == DOMAIN closes \cap ((e - 3) .. (e - 1))
<1>2. CASE e \in DOMAIN closes
  BY <1>1, <1>2 DEF SettleClose
<1>3. CASE e \notin DOMAIN closes
  <2>1. NoSession(e, closes) /\ before # {} /\ SettleClose(e, closes) = closes[Max(before)]
    BY <1>3 DEF SettleClose
  <2>2. PICK m : m = Max(before)
    OBVIOUS
  <2>3. m \in before
    <3>1. before \subseteq 0 .. e
      BY <1>1
    <3> HIDE DEF before
    <3>2. \E x \in before : \A y \in before : y <= x
      BY <2>1, <3>1, Greatest
    <3>3. \E x \in before : \A y \in before : x >= y
      BY <3>1, <3>2
    <3> QED BY <2>2, <3>3 DEF Max
  <2> HIDE DEF before
  <2>4. m \in DOMAIN closes
    BY <2>3 DEF before
  <2> QED BY <1>1, <1>3, <2>1, <2>2, <2>4
<1> QED BY <1>2, <1>3

(* A trial of a row is one, as far as its numbers go.                        *)
LEMMA TrialIs ==
  ASSUME NEW r, IsRow(r), NEW closes, AreBars(closes, LastDay), NEW asof
  PROVE  IsTrial(Trial(r, closes, asof)) /\ Trial(r, closes, asof).row = r
<1>1. PICK t : t = Trial(r, closes, asof)
  OBVIOUS
<1>2. PICK k \in Nat : k = r.strike /\ k > 0
  BY DEF IsRow
<1>3. PICK c \in Int : c = SettleClose(r.exp, closes)
  <2>1. r.exp \in Nat
    BY DEF IsRow
  <2>2. SettleClose(r.exp, closes) # Unknown => SettleClose(r.exp, closes) \in Nat
    BY <2>1, SettlesAt
  <2> QED BY <2>2 DEF Unknown
<1>4. t.sev \in Nat
  <2>1. PICK x \in Int : x = k - c
    OBVIOUS
  <2>2. PICK m : m = Max({0, x})
    OBVIOUS
  <2>3. m \in Nat
    <3>1. \E y \in {0, x} : \A z \in {0, x} : y >= z
      <4>1. 0 >= x \/ x >= 0
        OBVIOUS
      <4> QED BY <4>1
    <3>2. m \in {0, x} /\ \A z \in {0, x} : m >= z
      BY <2>2, <3>1 DEF Max
    <3> QED BY <3>2
  <2>4. m * 1000 \in Nat
    BY <2>3
  <2>5. (m * 1000) \div k \in Nat
    BY <1>2, <2>4, DivIsNat
  <2>6. t.sev = (m * 1000) \div k
    BY <1>1, <1>2, <1>3, <2>1, <2>2 DEF Trial, Severity
  <2> QED BY <2>5, <2>6
<1>5. t.credit \in Int /\ t.credit >= Unknown
  <2>1. CASE TwoSided(r)
    <3>1. (r.bid + r.ask) * 500 \in Nat
      BY DEF IsRow
    <3>2. ((r.bid + r.ask) * 500) \div k \in Nat
      BY <1>2, <3>1, DivIsNat
    <3>3. t.credit = ((r.bid + r.ask) * 500) \div k
      BY <1>1, <1>2, <2>1 DEF Trial
    <3> QED BY <3>2, <3>3 DEF Unknown
  <2>2. CASE ~TwoSided(r)
    <3>1. t.credit = Unknown
      BY <1>1, <2>2 DEF Trial
    <3> QED BY <3>1 DEF Unknown
  <2> QED BY <2>1, <2>2
<1>6. t.row = r /\ t.claim \in {0, 1} /\ t.status \in Reasons \cup {"settled"}
  BY <1>1 DEF Trial, StatusOf, Reasons
<1> QED BY <1>1, <1>4, <1>5, <1>6 DEF IsTrial, IsRow

LEMMA TrialsAre ==
  ASSUME NEW rows, IsFiniteSet(rows), \A r \in rows : IsRow(r), NEW closes, AreBars(closes, LastDay), NEW asof
  PROVE  /\ IsFiniteSet(Trials(rows, closes, asof)) /\ \A t \in Trials(rows, closes, asof) : IsTrial(t) /\ t.row \in rows
         /\ \A t \in Trials(rows, closes, asof) : t = Trial(t.row, closes, asof)
<1> DEFINE R == {x \in rows : ClassesOf(x, closes) # {}}
           f == [r \in R |-> Trial(r, closes, asof)]
           T == Trials(rows, closes, asof)
<1>1. T = {Trial(r, closes, asof) : r \in R}
  BY DEF Trials
<1>2. \A r \in R : IsTrial(Trial(r, closes, asof)) /\ Trial(r, closes, asof).row = r /\ r \in rows
  BY TrialIs
<1>3. IsFiniteSet(R)
  BY FS_Subset
<1>4. f \in Surjection(R, T)
  BY <1>1 DEF Surjection
<1>5. IsFiniteSet(T)
  <2> HIDE DEF R, f, T
  <2> QED BY <1>3, <1>4, FS_Surjection
<1>6. \A t \in T : IsTrial(t) /\ t.row \in rows /\ t = Trial(t.row, closes, asof)
  BY <1>1, <1>2
<1> QED BY <1>5, <1>6

(* What is said of a class goes by the middle of its credits, by how many    *)
(* they are and by whether there are any.                                    *)
LEMMA SummaryGoesByMiddle ==
  ASSUME NEW v, NEW cr, NEW cs, NEW w, NEW l, NEW d, NEW f, NEW g, NEW h,
         Len(cr) = Len(cs), TwiceMedian(cr) = TwiceMedian(cs), cr = <<>> <=> cs = <<>>
  PROVE  Summary(v, cr, w, l, d, f, g, h) = Summary(v, cs, w, l, d, f, g, h)
  BY DEF Summary

(* The first of some days is their minimum.                                  *)
LEMMA FirstIsMin ==
  ASSUME NEW S, S \subseteq Int, NEW m, IsFirst(S, m)
  PROVE  Min(S) = m
<1>1. PICK n : n = Min(S)
  OBVIOUS
<1>2. n \in S /\ \A x \in S : n <= x
  BY <1>1 DEF Min, IsFirst
<1>3. n <= m /\ m <= n /\ n \in Int /\ m \in Int
  BY <1>2 DEF IsFirst
<1> QED BY ONLY <1>1, <1>3

(* finish_stats says of the running sums what class_stats says of the trials. *)
LEMMA FinishedIs ==
  ASSUME NEW G, IsFiniteSet(G), \A t \in G : IsTrial(t), NEW c, Holds(c, G)
  PROVE  Summary(c.exps, c.credits, c.won, c.lost, c.deltas, c.first, c.last, c.censored) = StatsOf(G)
<1> DEFINE S == SettledOf(G)
           P == PricedOf(G)
<1>1. PICK order, cs, val : /\ order = SetToSeq(P) /\ cs = [i \in DOMAIN order |-> order[i].credit] /\ val = CreditsOf(G)
  OBVIOUS
<1>2. IsFiniteSet(P) /\ P \subseteq S /\ S \subseteq G
  <2>1. P \subseteq S /\ S \subseteq G
    BY DEF PricedOf, SettledOf
  <2> QED BY <2>1, FS_Subset
<1>3. val \in [P -> Int] /\ \A t \in P : val[t] = t.credit
  BY <1>1, <1>2 DEF CreditsOf, IsTrial
<1>4. Enumerates(cs, val)
  <2>1. PICK n \in Nat : /\ n = Cardinality(P) /\ order \in [1 .. n -> P]
                         /\ \A i, j \in 1 .. n : order[i] = order[j] => i = j
                         /\ \A x \in P : \E i \in 1 .. n : order[i] = x
    <3>1. PICK Q : Q = P /\ IsFiniteSet(Q)
      BY <1>2
    <3>2. \E n \in Nat : /\ n = Cardinality(Q) /\ SetToSeq(Q) \in [1 .. n -> Q]
                         /\ SetToSeq(Q) \in Seq(Q) /\ Len(SetToSeq(Q)) = n
                         /\ \A i, j \in 1 .. n : SetToSeq(Q)[i] = SetToSeq(Q)[j] => i = j
                         /\ \A x \in Q : \E i \in 1 .. n : SetToSeq(Q)[i] = x
      <4>1. IsFiniteSet(Q)
        BY <3>1
      <4> QED BY ONLY <4>1, SetToSeqIs
    <3>3. order = SetToSeq(Q)
      BY <1>1, <3>1
    <3> QED BY ONLY <3>1, <3>2, <3>3
  <2>2. cs = [i \in 1 .. n |-> val[order[i]]]
    BY <1>1, <1>3, <2>1
  <2>3. DOMAIN val = P
    BY <1>3
  <2> HIDE DEF P
  <2> QED BY <2>1, <2>2, <2>3 DEF Enumerates
<1>5. PICK cr : cr = c.credits
  OBVIOUS
<1>6. Enumerates(cr, val)
  BY <1>1, <1>5 DEF Holds
<1>7. Len(cr) = Len(cs) /\ TwiceMedian(cr) = TwiceMedian(cs) /\ (cr = <<>> <=> cs = <<>>)
  <2> HIDE DEF P
  <2>1. Len(cr) = Cardinality(P) /\ Len(cs) = Cardinality(P) /\ TwiceMedian(cr) = TwiceMedian(cs)
    BY <1>2, <1>3, <1>4, <1>6, SameMedian
  <2>2. cr \in Seq(Int)
    BY <1>2, <1>3, <1>6, ValuesAreKept
  <2>3. cs \in Seq(Int)
    BY <1>2, <1>3, <1>4, ValuesAreKept
  <2> QED BY <2>1, <2>2, <2>3
<1>8. /\ c.exps = Votes(S)
      /\ c.won = Tally({t \in P : t.credit > t.sev}) /\ c.lost = Tally({t \in P : t.credit <= t.sev})
      /\ c.deltas = Deltas({t \in S : t.row.delta > 0})
      /\ c.censored = [w \in Reasons |-> Cardinality({t \in G : t.status = w})]
  BY DEF Holds
<1>9. c.first = Min(DatesOf(G) \cup {LastDay}) /\ c.last = Max(DatesOf(G) \cup {0})
  <2>1. DatesOf(G) \cup {LastDay} \subseteq Int /\ DatesOf(G) \cup {0} \subseteq Int
    BY <1>2, InsureAssumption DEF DatesOf, IsTrial
  <2>2. IsFirst(DatesOf(G) \cup {LastDay}, c.first) /\ IsLast(DatesOf(G) \cup {0}, c.last)
    BY DEF Holds
  <2>3. PICK D, E, m, n : D = DatesOf(G) \cup {LastDay} /\ E = DatesOf(G) \cup {0} /\ m = c.first /\ n = c.last
    OBVIOUS
  <2>4. Min(D) = m
    BY ONLY <2>1, <2>2, <2>3, FirstIsMin
  <2>5. Max(E) = n
    BY ONLY <2>1, <2>2, <2>3, LastIsMax
  <2> QED BY <2>3, <2>4, <2>5
<1>10. StatsOf(G) = Summary(Votes(S), cs, Tally({t \in P : t.credit > t.sev}), Tally({t \in P : t.credit <= t.sev}),
                            Deltas({t \in S : t.row.delta > 0}), Min(DatesOf(G) \cup {LastDay}), Max(DatesOf(G) \cup {0}),
                            [w \in Reasons |-> Cardinality({t \in G : t.status = w})])
  BY <1>1 DEF StatsOf, DatesOf, PricedOf, SettledOf
<1>11. PICK v, w, l, d, f, g, h :
         /\ v = c.exps /\ w = c.won /\ l = c.lost /\ d = c.deltas /\ f = c.first /\ g = c.last /\ h = c.censored
  OBVIOUS
<1>12. Summary(v, cr, w, l, d, f, g, h) = Summary(v, cs, w, l, d, f, g, h)
  BY <1>7, SummaryGoesByMiddle
<1> HIDE DEF S, P
<1> QED BY <1>5, <1>8, <1>9, <1>10, <1>11, <1>12

(* However the archive is cut, what is measured is the same.                 *)
LEMMA CutsAgree ==
  ASSUME NEW T, IsFiniteSet(T), \A t \in T : IsTrial(t), NEW early \in SUBSET T
  PROVE  FinishStats(FoldTrials(FoldTrials(<<>>, early), T \ early)) = ClassStats(T)
<1>1. PICK late : late = T \ early
  OBVIOUS
<1>2. PICK none : none = <<>>
  OBVIOUS
<1>3. HoldAll(none, {})
  <2>1. none = [k \in {t.class : t \in {}} |-> none[k]]
    BY <1>2
  <2> QED BY <2>1 DEF HoldAll
<1>4. IsFiniteSet(early) /\ IsFiniteSet(late) /\ IsFiniteSet({})
  BY <1>1, FS_Subset, FS_EmptySet
<1>5. PICK a : a = FoldTrials(none, early)
  OBVIOUS
<1>6. HoldAll(a, early)
  <2>1. PICK F : F = {}
    OBVIOUS
  <2>2. HoldAll(FoldTrials(none, early), F \cup early)
    BY <1>3, <1>4, <2>1, FoldTrialsHold
  <2>3. F \cup early = early
    BY <2>1
  <2> QED BY <1>5, <2>2, <2>3
<1>7. PICK b : b = FoldTrials(a, late)
  OBVIOUS
<1>8. HoldAll(b, T)
  <2>1. early \cap late = {} /\ \A u \in early \cup late : IsTrial(u)
    BY <1>1
  <2>2. HoldAll(FoldTrials(a, late), early \cup late)
    BY <1>4, <1>6, <2>1, FoldTrialsHold
  <2>3. early \cup late = T
    BY <1>1
  <2> QED BY <1>7, <2>2, <2>3
<1>9. DOMAIN b = {t.class : t \in T} /\ \A k \in DOMAIN b : Holds(b[k], OfClass(T, k))
  BY <1>8 DEF HoldAll
<1>10. ASSUME NEW k \in DOMAIN b
       PROVE  Summary(b[k].exps, b[k].credits, b[k].won, b[k].lost, b[k].deltas, b[k].first, b[k].last, b[k].censored)
                = StatsOf(OfClass(T, k))
  <2>1. PICK c, G : c = b[k] /\ G = OfClass(T, k)
    OBVIOUS
  <2>2. IsFiniteSet(G) /\ (\A t \in G : IsTrial(t)) /\ Holds(c, G)
    BY <1>9, <2>1, FS_Subset DEF OfClass
  <2>3. Summary(c.exps, c.credits, c.won, c.lost, c.deltas, c.first, c.last, c.censored) = StatsOf(G)
    BY <2>2, FinishedIs
  <2> QED BY <2>1, <2>3
<1>11. FinishStats(b) = [k \in DOMAIN b |-> StatsOf(OfClass(T, k))]
  BY <1>10 DEF FinishStats
<1>12. ClassStats(T) = [k \in {t.class : t \in T} |-> StatsOf(OfClass(T, k))]
  BY DEF ClassStats, OfClass
<1> QED BY <1>1, <1>2, <1>5, <1>7, <1>9, <1>11, <1>12

(* The numbers of a class: what became of it, expiration by expiration, and  *)
(* the loss that was summed from that.                                       *)
IsMeasured(x, D, num, claims, sevs) ==
  /\ IsFiniteSet(D) /\ claims \in [D -> Nat] /\ sevs \in [D -> Nat]
  /\ x.exps = {<<e, num[e], claims[e], sevs[e]>> : e \in D}
  /\ x.loss = LossOf(claims, sevs)
AreMeasured(stats) ==
  \A c \in DOMAIN stats :
    stats[c].exps # {} => \E D, num, claims, sevs : IsMeasured(stats[c], D, num, claims, sevs)

LEMMA StatsAreMeasured ==
  ASSUME NEW G, IsFiniteSet(G), \A t \in G : IsTrial(t), StatsOf(G).exps # {}
  PROVE  \E D, num, claims, sevs : IsMeasured(StatsOf(G), D, num, claims, sevs)
<1> DEFINE S == SettledOf(G)
<1>1. PICK exps : exps = Votes(S)
  OBVIOUS
<1>2. PICK cr, w, l, d, f, g, h : StatsOf(G) = Summary(exps, cr, w, l, d, f, g, h)
  BY <1>1 DEF StatsOf, SettledOf
<1>3. PICK D : D = DOMAIN exps /\ D = {t.row.exp : t \in S}
  BY <1>1 DEF Votes
<1>4. S \subseteq G /\ IsFiniteSet(S)
  <2>1. S \subseteq G
    BY DEF SettledOf
  <2> QED BY <2>1, FS_Subset
<1>5. IsFiniteSet(D)
  <2>1. [t \in S |-> t.row.exp] \in Surjection(S, D)
    BY <1>3 DEF Surjection
  <2> QED BY <1>4, <2>1, FS_Surjection
<1>6. \A e \in D : exps[e].n \in Nat /\ exps[e].n > 0 /\ exps[e].claims \in Nat /\ exps[e].sev \in Nat
  <2> SUFFICES ASSUME NEW e \in D
               PROVE  exps[e].n \in Nat /\ exps[e].n > 0 /\ exps[e].claims \in Nat /\ exps[e].sev \in Nat
    OBVIOUS
  <2> DEFINE V == {t \in S : t.row.exp = e}
             a == [t \in V |-> t.claim]
             b == [t \in V |-> t.sev]
  <2>1. exps[e] = [n |-> Cardinality(V), claims |-> TotalOf(a), sev |-> TotalOf(b)]
    BY <1>1, <1>3 DEF Votes, Vote
  <2>2. IsFiniteSet(V) /\ V # {} /\ V \subseteq G
    BY <1>3, <1>4, FS_Subset
  <2>3. a \in [V -> Nat] /\ b \in [V -> Nat]
    BY <2>2 DEF IsTrial
  <2>4. TotalOf(a) \in Nat
    <3> HIDE DEF V, a, b
    <3> QED BY <2>2, <2>3, TotalIsNat
  <2>5. TotalOf(b) \in Nat
    <3> HIDE DEF V, a, b
    <3> QED BY <2>2, <2>3, TotalIsNat
  <2>6. Cardinality(V) \in Nat /\ Cardinality(V) > 0
    <3> HIDE DEF V
    <3>1. Cardinality(V) \in Nat /\ Cardinality(V) # 0
      BY <2>2, FS_EmptySet, FS_CardinalityType
    <3> QED BY <3>1
  <2> HIDE DEF V, a, b
  <2> QED BY <2>1, <2>4, <2>5, <2>6
<1> DEFINE claims == [e \in D |-> (60 * exps[e].claims) \div exps[e].n]
           sevs == [e \in D |-> (60 * exps[e].sev) \div exps[e].n]
           num == [e \in D |-> exps[e].n]
<1>7. claims \in [D -> Nat] /\ sevs \in [D -> Nat]
  <2>1. ASSUME NEW e \in D PROVE (60 * exps[e].claims) \div exps[e].n \in Nat /\ (60 * exps[e].sev) \div exps[e].n \in Nat
    <3>1. PICK n \in Nat, x \in Nat, y \in Nat : n = exps[e].n /\ x = 60 * exps[e].claims /\ y = 60 * exps[e].sev /\ n > 0
      BY <1>6
    <3>2. x \div n \in Nat /\ y \div n \in Nat
      BY <3>1, DivIsNat
    <3> QED BY <3>1, <3>2
  <2> QED BY <2>1
<1>8. exps # <<>>
  <2>1. ASSUME exps = <<>> PROVE Summary(exps, cr, w, l, d, f, g, h).exps = {}
    BY <2>1 DEF Summary
  <2> QED BY <1>2, <2>1
<1>9. /\ StatsOf(G).exps = {<<e, num[e], claims[e], sevs[e]>> : e \in D}
      /\ StatsOf(G).loss = LossOf(claims, sevs)
  <2> DEFINE claims2 == [e \in DOMAIN exps |-> (60 * exps[e].claims) \div exps[e].n]
             sevs2 == [e \in DOMAIN exps |-> (60 * exps[e].sev) \div exps[e].n]
  <2>1. Summary(exps, cr, w, l, d, f, g, h).exps = {<<e, exps[e].n, claims2[e], sevs2[e]>> : e \in DOMAIN exps}
    BY <1>8 DEF Summary
  <2>2. Summary(exps, cr, w, l, d, f, g, h).loss = LossOf(claims2, sevs2)
    BY <1>8 DEF Summary
  <2>3. claims2 = claims /\ sevs2 = sevs
    BY <1>3
  <2>4. {<<e, exps[e].n, claims[e], sevs[e]>> : e \in D} = {<<e, num[e], claims[e], sevs[e]>> : e \in D}
    OBVIOUS
  <2> HIDE DEF claims2, sevs2, claims, sevs, num
  <2> QED BY <1>2, <1>3, <2>1, <2>2, <2>3, <2>4
<1> HIDE DEF claims, sevs, num
<1> QED BY <1>5, <1>7, <1>9 DEF IsMeasured

LEMMA SweptAreMeasured ==
  ASSUME NEW T, IsFiniteSet(T), \A t \in T : IsTrial(t)
  PROVE  AreMeasured(ClassStats(T))
<1> SUFFICES ASSUME NEW c \in DOMAIN ClassStats(T), ClassStats(T)[c].exps # {}
             PROVE  \E D, num, claims, sevs : IsMeasured(ClassStats(T)[c], D, num, claims, sevs)
  BY DEF AreMeasured
<1>1. PICK G : G = {t \in T : t.class = c}
  OBVIOUS
<1>2. ClassStats(T)[c] = StatsOf(G)
  BY <1>1 DEF ClassStats
<1>3. IsFiniteSet(G) /\ \A t \in G : IsTrial(t)
  BY <1>1, FS_Subset
<1>4. \E D, num, claims, sevs : IsMeasured(StatsOf(G), D, num, claims, sevs)
  BY <1>2, <1>3, StatsAreMeasured
<1> QED BY <1>2, <1>4

(* No claim measures no price.                                               *)
LEMMA NoClaimNoLoss ==
  ASSUME NEW x, NEW D, NEW num, NEW claims, NEW sevs, IsMeasured(x, D, num, claims, sevs), \A y \in x.exps : y[3] = 0
  PROVE  x.loss = Unknown
<1>1. \A e \in D : claims[e] = 0
  <2>1. \A e \in D : <<e, num[e], claims[e], sevs[e]>> \in x.exps
    BY DEF IsMeasured
  <2> QED BY <2>1
<1>2. PICK z \in {0} : z \in Int /\ \A e \in D : z <= claims[e] /\ claims[e] <= z
  BY <1>1
<1>3. IsFiniteSet(D) /\ claims \in [D -> Int]
  BY DEF IsMeasured
<1>4. TotalOf(claims) \in Int /\ z * Cardinality(D) <= TotalOf(claims) /\ TotalOf(claims) <= z * Cardinality(D)
      /\ Cardinality(D) \in Nat
  BY <1>2, <1>3, TotalIsBetween
<1>5. TotalOf(claims) = 0
  BY <1>2, <1>4
<1> QED BY <1>5 DEF IsMeasured, LossOf

(* A premium that beats every expiration beats the sum of them.              *)
LEMMA BeatsTheMean ==
  ASSUME NEW x, NEW D, NEW num, NEW claims, NEW sevs, IsMeasured(x, D, num, claims, sevs), x.loss # Unknown,
         NEW p \in Nat, \A y \in x.exps : y[4] < 60 * p, NEW n, n = Cardinality(x.exps), n # 0
  PROVE  n \in Nat /\ x.loss \in Int /\ 60 * n * p - x.loss > 0
<1>1. IsFiniteSet(D) /\ sevs \in [D -> Nat] /\ x.exps = {<<e, num[e], claims[e], sevs[e]>> : e \in D}
  BY DEF IsMeasured
<1>2. n = Cardinality(D) /\ n \in Nat
  <2> DEFINE f == [e \in D |-> <<e, num[e], claims[e], sevs[e]>>]
  <2>1. f \in [D -> x.exps] /\ (\A a, b \in D : f[a] = f[b] => a = b) /\ \A y \in x.exps : \E e \in D : f[e] = y
    BY <1>1
  <2>2. f \in Bijection(D, x.exps)
    <3> HIDE DEF f
    <3> QED BY <2>1 DEF Bijection, Injection, Surjection, IsInjective
  <2>3. Cardinality(x.exps) = Cardinality(D)
    <3> HIDE DEF f
    <3> QED BY <1>1, <2>2, FS_Bijection DEF ExistsBijection
  <2> QED BY <1>1, <2>3, FS_CardinalityType
<1>3. PICK hi \in Int, lo \in {0} : hi = 60 * p - 1 /\ lo \in Int
  OBVIOUS
<1>4. sevs \in [D -> Int] /\ \A e \in D : lo <= sevs[e] /\ sevs[e] <= hi
  <2>1. \A e \in D : <<e, num[e], claims[e], sevs[e]>> \in x.exps
    BY <1>1
  <2>2. \A e \in D : sevs[e] < 60 * p /\ sevs[e] \in Nat
    BY <1>1, <2>1
  <2> QED BY <1>1, <1>3, <2>2
<1>5. TotalOf(sevs) \in Int /\ TotalOf(sevs) <= hi * Cardinality(D)
  BY <1>1, <1>3, <1>4, TotalIsBetween
<1>6. x.loss = TotalOf(sevs)
  BY DEF IsMeasured, LossOf
<1>7. (60 * p - 1) * n = 60 * n * p - n
  BY <1>2
<1>8. PICK q \in Int : q = 60 * n * p
  BY <1>2
<1>9. x.loss <= q - n /\ n > 0
  BY <1>2, <1>3, <1>5, <1>6, <1>7, <1>8
<1>10. x.loss \in Int
  BY <1>5, <1>6
<1> QED BY ONLY <1>2, <1>8, <1>9, <1>10

(* The nearest of some puts is one of them.                                  *)
LEMMA NearestIs ==
  ASSUME NEW S, S # {}, \A r \in S : IsRow(r), NEW anchor \in Nat, NEW spot \in Nat, spot > 0, NEW byDelta
  PROVE  NearestTo(S, anchor, spot, byDelta) \in S
<1> DEFINE Miss(r) == IF byDelta THEN Distance(r.delta, anchor) ELSE Distance(OtmOf(r, spot), anchor)
           Middle(r) == Distance(20 * r.strike, 17 * spot)
           KeyOf(r) == (Miss(r) * 4000 + Middle(r)) * 1000 + r.strike
           keys == {KeyOf(r) : r \in S}
<1>1. \A r \in S : KeyOf(r) \in Nat
  <2> SUFFICES ASSUME NEW r \in S PROVE KeyOf(r) \in Nat
    OBVIOUS
  <2>1. r.strike \in Nat /\ r.delta \in Nat
    BY DEF IsRow
  <2>2. OtmOf(r, spot) \in Int
    BY <2>1 DEF OtmOf
  <2>3. Miss(r) \in Nat /\ Middle(r) \in Nat
    BY <2>1, <2>2 DEF Distance
  <2> HIDE DEF Miss, Middle
  <2> QED BY <2>1, <2>3
<1>2. \E r \in S : \A x \in S : KeyOf(r) <= KeyOf(x)
  <2> HIDE DEF KeyOf
  <2>1. keys \subseteq Nat /\ keys # {}
    BY <1>1
  <2>2. PICK k \in keys : \A y \in keys : k <= y
    <3> HIDE DEF keys
    <3> QED BY <2>1, Least
  <2> QED BY <2>2
<1>3. NearestTo(S, anchor, spot, byDelta) = CHOOSE r \in S : \A x \in S : KeyOf(r) <= KeyOf(x)
  BY DEF NearestTo
<1> HIDE DEF KeyOf
<1> QED BY <1>2, <1>3

(* pick_candidates: each candidate is one of the puts, of its class.         *)
IsPicked(p, puts, spot) ==
  \A c \in DOMAIN p : p[c] \in puts /\ c \in ClassesOf(p[c], [d \in {p[c].date} |-> spot])

LEMMA PickedAre ==
  ASSUME NEW puts, \A r \in puts : IsRow(r), NEW spot \in Nat, spot > 0
  PROVE  IsPicked(PickCandidates(puts, spot), puts, spot)
<1> DEFINE otm == {r \in puts : r.strike < spot}
           known == {r \in otm : r.delta > 0}
           byDelta == known # {}
           Better(r, old, anchor) == byDelta /\ Distance(r.delta, anchor) < Distance(old.delta, anchor)
           Nearest(anchor) == NearestTo(IF byDelta THEN known ELSE otm, anchor, spot, byDelta)
           Class(r) == ClassesOf(r, [d \in {r.date} |-> spot])
           Pick(p, anchor) ==
             [c \in DOMAIN p \cup Class(Nearest(anchor)) |->
                IF c \in Class(Nearest(anchor)) /\ (c \in DOMAIN p => Better(Nearest(anchor), p[c], anchor))
                THEN Nearest(anchor) ELSE p[c]]
<1>1. CASE otm = {}
  <2>1. PickCandidates(puts, spot) = <<>>
    BY <1>1 DEF PickCandidates
  <2> QED BY <2>1 DEF IsPicked
<1>2. CASE otm # {}
  <2>1. PICK anchors : anchors = IF byDelta THEN DELTA_ANCHORS ELSE OTM_ANCHORS
    OBVIOUS
  <2>2. PICK L \in Nat : L = Len(anchors) /\ \A n \in 1 .. L : anchors[n] \in Nat
    <3>1. anchors \in Seq(Nat)
      BY <2>1, InsureAssumption
    <3> QED BY <3>1
  <2> DEFINE Built(g, m) == g = [n \in 0 .. m |-> IF n = 0 THEN <<>> ELSE Pick(g[n - 1], anchors[n])]
             bad == {m \in 0 .. L : ~\E g : Built(g, m)}
  <2>3. PICK f : f = CHOOSE g : Built(g, L)
    OBVIOUS
  <2>4. PickCandidates(puts, spot) = f[L]
    <3> DEFINE A == IF byDelta THEN DELTA_ANCHORS ELSE OTM_ANCHORS
    <3>1. PickCandidates(puts, spot)
            = (CHOOSE g : g = [n \in 0 .. Len(A) |-> IF n = 0 THEN <<>> ELSE Pick(g[n - 1], A[n])])[Len(A)]
      BY <1>2 DEF PickCandidates
    <3> HIDE DEF Pick, byDelta
    <3> QED BY <2>1, <2>2, <2>3, <3>1
  <2>5. ASSUME NEW p, IsPicked(p, puts, spot), NEW n \in 1 .. L PROVE IsPicked(Pick(p, anchors[n]), puts, spot)
    <3>1. PICK r, class : r = Nearest(anchors[n]) /\ class = Class(r)
      OBVIOUS
    <3>2. r \in puts
      <4>1. PICK S, by : S = (IF byDelta THEN known ELSE otm) /\ by = byDelta
        OBVIOUS
      <4>2. S # {} /\ S \subseteq puts
        BY <1>2, <4>1
      <4>3. anchors[n] \in Nat /\ \A x \in S : IsRow(x)
        BY <2>2, <4>2
      <4>4. NearestTo(S, anchors[n], spot, by) \in S
        BY <4>2, <4>3, NearestIs
      <4> QED BY <3>1, <4>1, <4>2, <4>4
    <3> SUFFICES ASSUME NEW c \in DOMAIN Pick(p, anchors[n])
                 PROVE  /\ Pick(p, anchors[n])[c] \in puts
                        /\ c \in Class(Pick(p, anchors[n])[c])
      BY DEF IsPicked
    <3>3. CASE c \in class /\ (c \in DOMAIN p => Better(r, p[c], anchors[n]))
      <4>1. Pick(p, anchors[n])[c] = r
        BY <3>1, <3>3
      <4> QED BY <3>1, <3>2, <3>3, <4>1
    <3>4. CASE ~(c \in class /\ (c \in DOMAIN p => Better(r, p[c], anchors[n])))
      <4>1. c \in DOMAIN p
        BY <3>1, <3>4
      <4>2. PICK q : q = Pick(p, anchors[n])[c] /\ q = p[c]
        BY <3>1, <3>4
      <4>3. q \in puts /\ c \in Class(q)
        BY <2>5, <4>1, <4>2 DEF IsPicked
      <4> HIDE DEF Pick, Class
      <4> QED BY <4>2, <4>3
    <3> QED BY <3>3, <3>4
  <2> HIDE DEF Pick
  <2>6. bad = {}
    <3> SUFFICES ASSUME bad # {} PROVE FALSE
      OBVIOUS
    <3>1. PICK m \in bad : \A o \in bad : m <= o
      <4>1. bad \subseteq Nat
        OBVIOUS
      <4> HIDE DEF bad
      <4> QED BY <4>1, Least
    <3>2. CASE m = 0
      <4>1. Built([n \in 0 .. 0 |-> <<>>], 0)
        OBVIOUS
      <4> QED BY <3>1, <3>2, <4>1
    <3>3. CASE m # 0
      <4>1. m \in 0 .. L /\ m - 1 \in 0 .. L /\ ~(m <= m - 1) /\ m \in Nat /\ m >= 1
        BY <3>1, <3>3
      <4>2. PICK h : Built(h, m - 1)
        BY <3>1, <4>1
      <4> DEFINE g == [n \in 0 .. m |-> IF n = m THEN Pick(h[m - 1], anchors[m]) ELSE h[n]]
      <4>3. \A n \in 0 .. m : n # m => n \in 0 .. m - 1
        BY <4>1
      <4>4. ASSUME NEW n \in 0 .. m PROVE g[n] = IF n = 0 THEN <<>> ELSE Pick(g[n - 1], anchors[n])
        <5>1. CASE n = m
          <6>1. n # 0 /\ n - 1 \in 0 .. m /\ n - 1 # m
            BY <4>1, <5>1
          <6>2. g[n - 1] = h[n - 1] /\ g[n] = Pick(h[n - 1], anchors[n])
            BY <5>1, <6>1
          <6> QED BY <6>1, <6>2
        <5>2. CASE n # m
          <6>1. n \in 0 .. m - 1 /\ g[n] = h[n]
            BY <4>3, <5>2
          <6>2. n # 0 => n - 1 \in 0 .. m /\ n - 1 # m
            BY <4>1, <6>1
          <6>3. h[n] = IF n = 0 THEN <<>> ELSE Pick(h[n - 1], anchors[n])
            BY <4>2, <6>1
          <6> QED BY <6>1, <6>2, <6>3
        <5> QED BY <5>1, <5>2
      <4>5. Built(g, m)
        BY <4>4
      <4> QED BY <3>1, <4>5
    <3> QED BY <3>2, <3>3
  <2>7. Built(f, L)
    <3>1. \E g : Built(g, L)
      BY <2>6
    <3> HIDE DEF Built
    <3> QED BY <2>3, <3>1
  <2>8. f[0] = <<>> /\ \A n \in 1 .. L : f[n] = Pick(f[n - 1], anchors[n])
    BY <2>7
  <2> DEFINE off == {n \in 0 .. L : ~IsPicked(f[n], puts, spot)}
  <2>9. off = {}
    <3> SUFFICES ASSUME off # {} PROVE FALSE
      OBVIOUS
    <3>1. PICK m \in off : \A o \in off : m <= o
      <4>1. off \subseteq Nat
        OBVIOUS
      <4> HIDE DEF off
      <4> QED BY <4>1, Least
    <3>2. m # 0
      <4>1. IsPicked(f[0], puts, spot)
        BY <2>8 DEF IsPicked
      <4> QED BY <3>1, <4>1
    <3>3. m \in 1 .. L /\ m - 1 \in 0 .. L /\ ~(m <= m - 1)
      BY <3>1, <3>2
    <3>4. IsPicked(f[m - 1], puts, spot)
      BY <3>1, <3>3
    <3>5. IsPicked(f[m], puts, spot)
      BY <2>5, <2>8, <3>3, <3>4
    <3> QED BY <3>1, <3>5
  <2> QED BY <2>4, <2>9
<1> QED BY <1>1, <1>2

(* insure_scan: a candidate's edge is over claims that were paid.            *)
LEMMA CandidateEarns ==
  ASSUME NEW r, IsRow(r), NEW class, NEW stats, AreMeasured(stats), NEW c, c = Candidate(r, class, stats)
  PROVE  /\ c.row = r /\ c.class = class
         /\ c.edge # {} => TwoSided(r) /\ \E x \in stats[class].exps : x[3] > 0
         /\ c.edge # {} /\ c.won = {Cardinality(stats[class].exps)} => Max(c.edge) > 0
<1>1. c.row = r /\ c.class = class
  BY DEF Candidate
<1>2. ASSUME c.edge # {}
      PROVE  /\ TwoSided(r) /\ \E x \in stats[class].exps : x[3] > 0
             /\ c.won = {Cardinality(stats[class].exps)} => Max(c.edge) > 0
  <2> DEFINE offered == IF TwoSided(r) THEN ((r.bid + r.ask) * 500) \div r.strike ELSE Unknown
             known == IF class \in DOMAIN stats THEN stats[class].exps ELSE {}
             n == Cardinality(known)
  <2>1. /\ n > 0 /\ offered # Unknown /\ stats[class].loss # Unknown
        /\ c.edge = {60 * n * offered - stats[class].loss}
        /\ c.won = {Cardinality({x \in known : x[4] < 60 * offered})}
    BY <1>2 DEF Candidate
  <2>2. TwoSided(r)
    BY <2>1
  <2>3. PICK p \in Nat : p = offered
    <3>1. PICK a \in Nat, k \in Nat : a = (r.bid + r.ask) * 500 /\ k = r.strike /\ k > 0
      BY DEF IsRow
    <3>2. a \div k \in Nat
      BY <3>1, DivIsNat
    <3> QED BY <2>2, <3>1, <3>2
  <2>4. known # {}
    <3>1. Cardinality({}) = 0
      BY FS_EmptySet
    <3> QED BY <2>1, <3>1
  <2>5. known = stats[class].exps /\ class \in DOMAIN stats
    BY <2>4
  <2>6. PICK x : x = stats[class]
    OBVIOUS
  <2>7. PICK D, num, claims, sevs : IsMeasured(x, D, num, claims, sevs)
    BY <2>4, <2>5, <2>6 DEF AreMeasured
  <2>8. \E y \in x.exps : y[3] > 0
    <3>1. \A y \in x.exps : y[3] \in Nat
      BY <2>7 DEF IsMeasured
    <3>2. ~\A y \in x.exps : y[3] = 0
      <4>1. x.loss # Unknown
        BY <2>1, <2>6
      <4> QED BY <2>7, <4>1, NoClaimNoLoss
    <3> QED BY <3>1, <3>2
  <2>9. ASSUME c.won = {Cardinality(stats[class].exps)} PROVE Max(c.edge) > 0
    <3>1. PICK W, m : W = {y \in x.exps : y[4] < 60 * p} /\ m = Cardinality(x.exps)
      OBVIOUS
    <3>2. Cardinality(W) = m /\ m = n /\ m # 0
      <4>1. n = m /\ c.won = {m}
        BY <2>5, <2>6, <2>9, <3>1
      <4>2. {y \in known : y[4] < 60 * offered} = W
        BY <2>3, <2>5, <2>6, <3>1
      <4>3. c.won = {Cardinality(W)} /\ n > 0
        BY <2>1, <4>2
      <4>4. n # 0
        BY <4>3
      <4> HIDE DEF known, offered, n
      <4> QED BY <4>1, <4>3, <4>4
    <3>3. IsFiniteSet(x.exps)
      <4>1. [e \in D |-> <<e, num[e], claims[e], sevs[e]>>] \in Surjection(D, x.exps)
        BY <2>7 DEF IsMeasured, Surjection
      <4>2. IsFiniteSet(D)
        BY <2>7 DEF IsMeasured
      <4> QED BY <4>1, <4>2, FS_Surjection
    <3>4. W = x.exps
      <4>1. W \in SUBSET x.exps
        BY <3>1
      <4>2. Cardinality(x.exps) = Cardinality(W)
        BY <3>1, <3>2
      <4> QED BY <3>3, <4>1, <4>2, FS_Subset
    <3>5. \A y \in x.exps : y[4] < 60 * p
      BY <3>1, <3>4
    <3>6. x.loss # Unknown
      BY <2>1, <2>6
    <3>7. m \in Nat /\ x.loss \in Int /\ 60 * m * p - x.loss > 0
      BY <2>7, <3>1, <3>2, <3>5, <3>6, BeatsTheMean
    <3>8. PICK d \in Int : d = 60 * m * p - x.loss
      BY <3>7
    <3>9. c.edge = {d} /\ d > 0
      BY <2>1, <2>3, <2>6, <3>2, <3>7, <3>8
    <3>10. Max({d}) = d
      BY DEF Max
    <3> QED BY <3>9, <3>10
  <2> HIDE DEF known, offered, n
  <2> QED BY <2>2, <2>6, <2>8, <2>9
<1> QED BY <1>1, <1>2

(* EdgesAreEarned, of what a scan shows.                                     *)
Earned(shown, stats, spot) ==
  \A c \in shown :
    /\ c.edge # {} => TwoSided(c.row) /\ \E x \in stats[c.class].exps : x[3] > 0
    /\ c.edge # {} /\ c.won = {Cardinality(stats[c.class].exps)} => Max(c.edge) > 0
    /\ c.class \in ClassesOf(c.row, [d \in {c.row.date} |-> spot])
    /\ \A other \in shown : other.class = c.class /\ other.row.exp = c.row.exp => other = c

LEMMA ScansEarn ==
  ASSUME NEW stats, AreMeasured(stats), NEW spot \in Nat, spot > 0, \A r \in Live : IsRow(r)
  PROVE  Earned(Scan(stats, spot), stats, spot)
<1> DEFINE Puts(e) == {r \in Live : r.exp = e /\ 70 * spot <= 100 * r.strike /\ r.strike <= spot}
           Chosen(e) == PickCandidates(Puts(e), spot)
<1>1. ASSUME NEW e
      PROVE  IsPicked(Chosen(e), Puts(e), spot) /\ \A k \in DOMAIN Chosen(e) : IsRow(Chosen(e)[k]) /\ Chosen(e)[k].exp = e
  <2>1. PICK puts : puts = Puts(e)
    OBVIOUS
  <2>2. \A r \in puts : IsRow(r) /\ r.exp = e
    BY <2>1
  <2>3. IsPicked(PickCandidates(puts, spot), puts, spot)
    BY <2>2, PickedAre
  <2>4. \A k \in DOMAIN PickCandidates(puts, spot) : PickCandidates(puts, spot)[k] \in puts
    BY <2>3 DEF IsPicked
  <2> HIDE DEF Puts
  <2> QED BY <2>1, <2>2, <2>3, <2>4
<1>2. Scan(stats, spot) = UNION {{Candidate(Chosen(e)[k], k, stats) : k \in DOMAIN Chosen(e)} : e \in Targets(spot)}
  BY DEF Scan
<1> HIDE DEF Puts, Chosen
<1>3. ASSUME NEW c \in Scan(stats, spot)
      PROVE  \E e \in Targets(spot) : \E k \in DOMAIN Chosen(e) :
               /\ c = Candidate(Chosen(e)[k], k, stats) /\ c.row = Chosen(e)[k] /\ c.class = k /\ c.row.exp = e
  <2>1. PICK e \in Targets(spot) : \E k \in DOMAIN Chosen(e) : c = Candidate(Chosen(e)[k], k, stats)
    BY <1>2
  <2>2. PICK k \in DOMAIN Chosen(e) : c = Candidate(Chosen(e)[k], k, stats)
    BY <2>1
  <2>3. PICK r : r = Chosen(e)[k] /\ IsRow(r) /\ r.exp = e
    BY <1>1
  <2>4. c.row = r /\ c.class = k
    BY <2>2, <2>3 DEF Candidate
  <2> QED BY <2>2, <2>3, <2>4
<1> SUFFICES ASSUME NEW c \in Scan(stats, spot)
             PROVE  /\ c.edge # {} => TwoSided(c.row) /\ \E x \in stats[c.class].exps : x[3] > 0
                    /\ c.edge # {} /\ c.won = {Cardinality(stats[c.class].exps)} => Max(c.edge) > 0
                    /\ c.class \in ClassesOf(c.row, [d \in {c.row.date} |-> spot])
                    /\ \A other \in Scan(stats, spot) :
                         other.class = c.class /\ other.row.exp = c.row.exp => other = c
  BY DEF Earned
<1>4. PICK e \in Targets(spot) : \E k \in DOMAIN Chosen(e) :
        /\ c = Candidate(Chosen(e)[k], k, stats) /\ c.row = Chosen(e)[k] /\ c.class = k /\ c.row.exp = e
  BY <1>3
<1>5. PICK k \in DOMAIN Chosen(e) :
        /\ c = Candidate(Chosen(e)[k], k, stats) /\ c.row = Chosen(e)[k] /\ c.class = k /\ c.row.exp = e
  BY <1>4
<1>6. PICK r : r = Chosen(e)[k] /\ IsRow(r)
  BY <1>1
<1>7. c = Candidate(r, k, stats) /\ c.row = r /\ c.class = k
  BY <1>5, <1>6
<1>8. /\ c.edge # {} => TwoSided(r) /\ \E x \in stats[k].exps : x[3] > 0
      /\ c.edge # {} /\ c.won = {Cardinality(stats[k].exps)} => Max(c.edge) > 0
  BY <1>6, <1>7, CandidateEarns
<1>9. k \in ClassesOf(r, [d \in {r.date} |-> spot])
  <2>1. IsPicked(Chosen(e), Puts(e), spot)
    BY <1>1
  <2> QED BY <1>5, <1>6, <2>1 DEF IsPicked
<1>10. ASSUME NEW other \in Scan(stats, spot), other.class = c.class, other.row.exp = c.row.exp PROVE other = c
  <2>1. PICK a \in Targets(spot) : \E j \in DOMAIN Chosen(a) :
          /\ other = Candidate(Chosen(a)[j], j, stats) /\ other.row = Chosen(a)[j] /\ other.class = j /\ other.row.exp = a
    BY <1>3
  <2>2. a = e
    BY <1>5, <1>10, <2>1
  <2>3. PICK j \in DOMAIN Chosen(e) : other = Candidate(Chosen(e)[j], j, stats) /\ other.class = j
    BY <2>1, <2>2
  <2>4. j = k
    BY <1>5, <1>10, <2>3
  <2> QED BY <1>5, <2>3, <2>4
<1> QED BY <1>7, <1>8, <1>9, <1>10

-----------------------------------------------------------------------------
(* The days of the archive and of the bars are days there are, the closes a  *)
(* sweep holds are bars of sessions, and whatever is kept is measured of     *)
(* trials.                                                                   *)
TrialsInv ==
  /\ archive \subseteq (0 .. LastDay) \cap DOMAIN ChainOf
  /\ BarsInv
  /\ sweep # Idle => AreBars(sweep.closes, LastDay)
  /\ AreMeasured(expected.stats)

LEMMA ArchivedRowsAre ==
  ASSUME archive \subseteq (0 .. LastDay) \cap DOMAIN ChainOf
  PROVE  IsFiniteSet(Rows) /\ \A r \in Rows : IsRow(r)
<1> DEFINE chains == {ChainOf[d] : d \in archive}
<1>1. Rows = UNION chains
  BY DEF Rows
<1>2. IsFiniteSet(archive)
  <2>1. LastDay \in Int /\ 0 \in Int
    BY InsureAssumption
  <2>2. IsFiniteSet(0 .. LastDay)
    BY ONLY <2>1, FS_Interval
  <2>3. archive \in SUBSET (0 .. LastDay)
    OBVIOUS
  <2> QED BY <2>2, <2>3, FS_Subset
<1>3. IsFiniteSet(chains)
  <2>1. [d \in archive |-> ChainOf[d]] \in Surjection(archive, chains)
    BY DEF Surjection
  <2> QED BY <1>2, <2>1, FS_Surjection
<1>4. \A T \in chains : IsFiniteSet(T) /\ \A r \in T : IsRow(r)
  BY InsureAssumption DEF IsRow
<1> HIDE DEF chains
<1>5. IsFiniteSet(UNION chains)
  BY <1>3, <1>4, FS_UNION
<1> QED BY <1>1, <1>4, <1>5

LEMMA TrialsStep == TrialsInv /\ [InsureNext]_insureVars => TrialsInv'
<1> SUFFICES ASSUME TrialsInv, [InsureNext]_insureVars PROVE TrialsInv'
  OBVIOUS
<1>1. BarsInv'
  BY BarsStep DEF TrialsInv
<1>2. CASE UNCHANGED <<archive, expected, sweep>>
  BY <1>1, <1>2 DEF TrialsInv, AreBars
<1>3. CASE SweepFails
  BY <1>1, <1>3 DEF TrialsInv, SweepFails, AreBars
<1>4. ASSUME NEW d \in 0 .. LastDay, AppendDay(d) PROVE TrialsInv'
  BY <1>1, <1>4 DEF TrialsInv, AppendDay, AreBars
<1>5. CASE Ask
  <2>1. AreBars(Closes, LastDay)
    BY ClosesAre DEF TrialsInv
  <2>2. UNCHANGED <<archive, expected>> /\ sweep'.closes = Closes
    BY <1>5 DEF Ask
  <2> QED BY <1>1, <2>1, <2>2 DEF TrialsInv, AreBars
<1>6. CASE SweepEnds
  <2>1. IsFiniteSet(Rows) /\ \A r \in Rows : IsRow(r)
    BY ArchivedRowsAre DEF TrialsInv
  <2>2. PICK rows, closes, T : rows = Rows /\ closes = sweep.closes /\ T = Trials(rows, closes, today)
    OBVIOUS
  <2>3. AreBars(closes, LastDay)
    BY <1>6, <2>2 DEF TrialsInv, SweepEnds
  <2>4. PICK asof : asof = today
    OBVIOUS
  <2>5. IsFiniteSet(Trials(rows, closes, asof)) /\ \A t \in Trials(rows, closes, asof) : IsTrial(t)
    BY <2>1, <2>2, <2>3, TrialsAre
  <2>6. IsFiniteSet(T) /\ \A t \in T : IsTrial(t)
    BY <2>2, <2>4, <2>5
  <2>7. AreMeasured(ClassStats(T))
    BY <2>6, SweptAreMeasured
  <2>8. expected'.stats = ClassStats(T) /\ sweep' = Idle /\ UNCHANGED archive
    BY <1>6, <2>2 DEF SweepEnds
  <2> QED BY <1>1, <2>7, <2>8 DEF TrialsInv
<1>7. CASE \/ NewDay \/ \E keep \in Cutoffs : OthersSweep(keep) \/ PrunesBars(keep)
           \/ \E back \in Reaches, price \in PricesOf(today) :
                Collects(back, price) \/ \E keep \in Cutoffs : CacheStores(back, price, keep)
           \/ \E s \in Stretches : BackfillsBars(s[1], s[2])
  BY <1>2, <1>7 DEF NewDay, OthersSweep, PrunesBars, Collects, CacheStores, BackfillsBars
<1>8. CASE UNCHANGED insureVars
  BY <1>2, <1>8 DEF insureVars
<1> QED BY <1>3, <1>4, <1>5, <1>6, <1>7, <1>8 DEF InsureNext

LEMMA TrialsStart == InsureInit => TrialsInv
<1> SUFFICES ASSUME InsureInit PROVE TrialsInv
  OBVIOUS
<1>1. archive = {} /\ cachedBars = <<>> /\ recBars = <<>> /\ sweep = Idle /\ expected.stats = <<>> /\ today = 0
  BY DEF InsureInit, NoStats
<1>2. AreMeasured(<<>>)
  BY DEF AreMeasured
<1>3. BarsInv
  BY <1>1, InsureAssumption DEF BarsInv, AreBars
<1> QED BY <1>1, <1>2, <1>3 DEF TrialsInv

(* What a page shows is earned, whatever it was told.                        *)
LEMMA ShownIsEarned == TrialsInv => EdgesAreEarned
<1> SUFFICES ASSUME TrialsInv PROVE EdgesAreEarned
  OBVIOUS
<1>1. AreMeasured(<<>>) /\ AreMeasured(expected.stats)
  BY DEF TrialsInv, AreMeasured
<1>2. PICK stats : stats = ToldNow.stats /\ AreMeasured(stats)
  <2>1. ToldNow.stats \in {<<>>, expected.stats}
    BY DEF ToldNow
  <2> QED BY <1>1, <2>1
<1>3. Earned(ShownNow, stats, SpotNow)
  <2>1. CASE Closes = <<>>
    BY <2>1 DEF Earned, ShownNow
  <2>2. CASE Closes # <<>>
    <3>1. PICK m \in Nat : LastCloseIs(Closes, m) /\ Max(DOMAIN Closes) = m
      BY <2>2, LastOfCloses DEF TrialsInv
    <3>2. Closes[m] \in Nat /\ Closes[m] > 0
      BY <3>1, ClosesAre DEF TrialsInv, AreBars, LastCloseIs, IsLast
    <3>3. PICK spot \in Nat : spot = Closes[m] /\ spot > 0
      BY <3>2
    <3>4. SpotNow = spot /\ ShownNow = Scan(stats, spot)
      BY <1>2, <2>2, <3>1, <3>3 DEF SpotNow, ShownNow
    <3>5. \A r \in Live : IsRow(r)
      BY InsureAssumption DEF Live, IsRow
    <3>6. Earned(Scan(stats, spot), stats, spot)
      BY <1>2, <3>3, <3>5, ScansEarn
    <3> QED BY <3>4, <3>6
  <2> QED BY <2>1, <2>2
<1> QED BY <1>2, <1>3 DEF EdgesAreEarned, Earned

LEMMA TrialsHold == TrialsInv => TrialsAreSound
<1> SUFFICES ASSUME TrialsInv PROVE TrialsAreSound
  OBVIOUS
<1>1. IsFiniteSet(Rows) /\ \A r \in Rows : IsRow(r)
  BY ArchivedRowsAre DEF TrialsInv
<1>2. PICK rows, closes, asof, T :
        rows = Rows /\ closes = Closes /\ asof = today /\ T = Trials(rows, closes, asof)
  OBVIOUS
<1>3. AreBars(closes, LastDay)
  BY <1>2, ClosesAre DEF TrialsInv
<1>4. /\ IsFiniteSet(Trials(rows, closes, asof))
      /\ \A t \in Trials(rows, closes, asof) : IsTrial(t) /\ t.row \in rows
      /\ \A t \in Trials(rows, closes, asof) : t = Trial(t.row, closes, asof)
  BY <1>1, <1>2, <1>3, TrialsAre
<1>5. ChunksAgree
  <2>1. ASSUME NEW cut
        PROVE  FinishStats(FoldTrials(FoldTrials(<<>>, {t \in T : t.row.date < cut}), T \ {t \in T : t.row.date < cut}))
                 = ClassStats(T)
    <3>1. PICK early : early = {t \in T : t.row.date < cut} /\ early \in SUBSET T
      OBVIOUS
    <3>2. IsFiniteSet(T) /\ \A t \in T : IsTrial(t)
      BY <1>2, <1>4
    <3>3. FinishStats(FoldTrials(FoldTrials(<<>>, early), T \ early)) = ClassStats(T)
      BY <3>1, <3>2, CutsAgree
    <3> QED BY <3>1, <3>3
  <2> QED BY <1>2, <2>1 DEF ChunksAgree
<1>6. GapSettlesNothing
  <2> SUFFICES ASSUME NEW t \in T, t.status = "settled"
               PROVE  \/ /\ Max({d \in DOMAIN CloseOf : d <= t.row.exp}) \in DOMAIN closes
                         /\ SettleClose(t.row.exp, closes) = closes[Max({d \in DOMAIN CloseOf : d <= t.row.exp})]
                      \/ {WeekdayBefore(t.row.exp), WeekdayAfter(t.row.exp)} \subseteq DOMAIN closes
                      \/ Weekend(t.row.exp)
    BY <1>2 DEF GapSettlesNothing
  <2>1. PICK e \in Nat : e = t.row.exp
    BY <1>2, <1>4 DEF IsTrial
  <2>2. SettleClose(e, closes) # Unknown
    <3>1. t.status = StatusOf(t.row, closes, asof)
      BY <1>2, <1>4 DEF Trial
    <3> QED BY <2>1, <3>1 DEF StatusOf
  <2>3. PICK d \in DOMAIN closes :
          /\ SettleClose(e, closes) = closes[d]
          /\ d = e \/ (e \notin DOMAIN closes /\ NoSession(e, closes))
    BY <1>3, <2>2, SettlesAt
  <2>4. CASE d = e
    <3>1. PICK B : B = {x \in DOMAIN CloseOf : x <= e}
      OBVIOUS
    <3>2. B \subseteq Int /\ IsLast(B, e)
      BY <1>3, <2>3, <2>4, <3>1, InsureAssumption DEF IsLast, AreBars
    <3>3. Max(B) = e
      BY <3>2, LastIsMax
    <3> QED BY <2>1, <2>3, <2>4, <3>1, <3>3
  <2>5. CASE NoSession(e, closes)
    BY <2>1, <2>5 DEF NoSession
  <2> QED BY <2>3, <2>4, <2>5
<1>7. FarWingIsUnpriced
  <2> SUFFICES ASSUME NEW c \in DOMAIN expected.stats, expected.stats[c].exps # {},
                      \A y \in expected.stats[c].exps : y[3] = 0
               PROVE  expected.stats[c].loss = Unknown
    BY DEF FarWingIsUnpriced
  <2>1. PICK x : x = expected.stats[c]
    OBVIOUS
  <2>2. PICK D, num, claims, sevs : IsMeasured(x, D, num, claims, sevs)
    BY <2>1 DEF TrialsInv, AreMeasured
  <2>3. \A y \in x.exps : y[3] = 0
    BY <2>1
  <2> QED BY <2>1, <2>2, <2>3, NoClaimNoLoss
<1>8. EdgesAreEarned
  BY ShownIsEarned
<1> QED BY <1>5, <1>6, <1>7, <1>8 DEF TrialsAreSound

(* What is measured of a put goes by the bars there are (insurance.py, whose *)
(* fold_trials and class_stats must agree), of every archive, whatever bars  *)
(* are missing, are swept or still move, however it is cut and in whatever   *)
(* order its trials come: what is merely missing settles nothing, but for a  *)
(* lone day that looks like a holiday; the zero-claims rule leaves the far   *)
(* wing without a price, and an edge is held over claims of the put's own    *)
(* class that were paid.                                                     *)
THEOREM TrialsStaySound == InsureInit /\ [][InsureNext]_insureVars => []TrialsAreSound
<1> QED BY TrialsStart, TrialsStep, TrialsHold, PTL

-----------------------------------------------------------------------------
(* The charts *)

(* Whose a bar may be; a bar, and a stretch of them.                         *)
Feeds == {"alpaca", "cached", "recorded", "yahoo"}
Bar == [day : Nat \ {0}, source : Feeds]
Stretch == [source : Feeds, from : Nat, to : Nat]

(* Bars of some days, in their order and up to the last of them.             *)
Ascends(bars) == \A i, j \in DOMAIN bars : i < j => bars[i].day < bars[j].day
AreBarsOf(bars, S) ==
  /\ bars \in Seq(Bar) /\ bars # <<>> /\ Ascends(bars)
  /\ \A i \in DOMAIN bars : bars[i].day \in S
  /\ \A m \in S : (\A d \in S : d <= m) => bars[Len(bars)].day = m

(* What lists the bars of some days does that.                               *)
LEMMA BarsAre ==
  ASSUME NEW S \in SUBSET (Nat \ {0}), IsFiniteSet(S), S # {}, NEW f, \A d \in S : f[d] \in Feeds
  PROVE  AreBarsOf(BarsBy(S, f), S) /\ \A i \in DOMAIN BarsBy(S, f) : BarsBy(S, f)[i].source = f[BarsBy(S, f)[i].day]
<1>1. PICK n, s : n = Cardinality(S) /\ s = InOrderOf(S)
  OBVIOUS
<1>0. /\ n \in Nat /\ s \in [1 .. n -> S]
      /\ \A i, j \in 1 .. n : i < j => s[i] < s[j]
      /\ \A d \in S : \E i \in 1 .. n : s[i] = d
  <2>1. S \in SUBSET Int
    OBVIOUS
  <2> QED BY ONLY <1>1, <2>1, IsFiniteSet(S), InOrderIs
<1>2. PICK b : b = BarsBy(S, f)
  OBVIOUS
<1>3. b = [i \in 1 .. n |-> [day |-> s[i], source |-> f[s[i]]]]
  <2>1. DOMAIN s = 1 .. n
    BY <1>0
  <2> QED BY ONLY <1>1, <1>2, <2>1 DEF BarsBy
<1>4. \A i \in 1 .. n : b[i].day = s[i] /\ b[i].source = f[s[i]] /\ b[i] \in Bar /\ s[i] \in S
  BY <1>0, <1>3 DEF Bar
<1>5. b \in Seq(Bar) /\ Len(b) = n /\ DOMAIN b = 1 .. n
  BY <1>0, <1>3, <1>4
<1>6. n > 0
  <2>1. PICK i \in 1 .. n : s[i] \in S
    BY <1>0
  <2> QED BY ONLY <1>0, <2>1
<1>7. b # <<>> /\ Ascends(b)
  BY <1>0, <1>4, <1>5, <1>6 DEF Ascends
<1>8. ASSUME NEW m \in S, \A d \in S : d <= m PROVE b[Len(b)].day = m
  <2>1. PICK i \in 1 .. n : s[i] = m
    BY <1>0
  <2>2. n \in 1 .. n
    BY ONLY <1>0, <1>6
  <2>3. s[n] \in S
    BY <1>0, <2>2
  <2>4. PICK x \in Nat : x = s[n] /\ x <= m
    BY <1>8, <2>3
  <2>5. i = n
    <3>1. i < n => m < x
      BY <1>0, <2>1, <2>2, <2>4
    <3>2. ~(m < x)
      BY ONLY <2>4, m \in S, S \in SUBSET (Nat \ {0})
    <3>3. ~(i < n)
      BY ONLY <3>1, <3>2
    <3> QED BY ONLY <1>0, <2>1, <3>3
  <2> QED BY <1>4, <1>5, <2>1, <2>5
<1> QED BY <1>2, <1>4, <1>5, <1>7, <1>8 DEF AreBarsOf

(* Bars that are all of one source.                                          *)
AllFrom(bars, source) == \A i \in DOMAIN bars : bars[i].source = source

(* The bars of one feed are bars of their days, all from it.                 *)
LEMMA SameBarsAre ==
  ASSUME NEW S \in SUBSET (Nat \ {0}), IsFiniteSet(S), S # {}, NEW source \in Feeds
  PROVE  AreBarsOf(Bars(S, source), S) /\ AllFrom(Bars(S, source), source)
<1>1. PICK f : f = [d \in S |-> source]
  OBVIOUS
<1>2. \A d \in S : f[d] = source
  BY <1>1
<1>3. \A d \in S : f[d] \in Feeds
  BY <1>2
<1>4. PICK b : b = BarsBy(S, f)
  OBVIOUS
<1>5. AreBarsOf(b, S) /\ \A i \in DOMAIN b : b[i].source = f[b[i].day]
  BY ONLY <1>3, <1>4, BarsAre, S \in SUBSET (Nat \ {0}), IsFiniteSet(S), S # {}
<1>6. AllFrom(b, source)
  BY <1>2, <1>5 DEF AllFrom, AreBarsOf
<1> QED BY <1>1, <1>4, <1>5, <1>6 DEF Bars


(* A chart whose days ascend and whose stretches are what they are labelled. *)
Labelled(c) ==
  \A i \in DOMAIN c.bars : c.bars[i].source = IF c.bars[i].day < c.joined THEN "yahoo" ELSE c.source
IsChart(c, source, last) ==
  /\ c = [bars |-> c.bars, source |-> c.source, joined |-> c.joined] /\ c.source = source
  /\ c.bars \in Seq(Bar) /\ c.bars # <<>> /\ Ascends(c.bars) /\ Labelled(c)
  /\ c.bars[Len(c.bars)].day = last

(* What a chart is lengthened by lies before it.                             *)
LEMMA DeepenedIs ==
  ASSUME day \in Nat, NEW r, NEW S, NEW b, AreBarsOf(b, S), NEW source, AllFrom(b, source)
  PROVE  IsChart(Deepened(r, b, source), source, b[Len(b)].day)
<1> DEFINE older == {d \in YahooDays(r) : d < b[1].day}
<1>1. PICK L \in Nat : L = Len(b) /\ L > 0 /\ DOMAIN b = 1 .. L
  BY DEF AreBarsOf
<1>2. /\ b \in Seq(Bar) /\ b # <<>> /\ Ascends(b)
      /\ \A i \in 1 .. L : b[i] \in Bar /\ b[i].day \in Nat \ {0} /\ b[i].source = source
  <2>1. \A i \in 1 .. L : b[i] \in Bar
    BY <1>1 DEF AreBarsOf
  <2> QED BY <1>1, <2>1 DEF AreBarsOf, AllFrom, Bar
<1>3. PICK c : c = Deepened(r, b, source)
  OBVIOUS
<1>4. CASE ~r.all \/ older = {}
  <2>1. c = [bars |-> b, source |-> source, joined |-> 0]
    BY <1>3, <1>4 DEF Deepened
  <2>2. c.bars = b /\ c.source = source /\ c.joined = 0
    BY <2>1
  <2>3. Labelled(c)
    BY <1>1, <1>2, <2>2 DEF Labelled
  <2> QED BY <1>2, <1>3, <2>1, <2>2, <2>3 DEF IsChart
<1>5. CASE r.all /\ older # {}
  <2>1. older \in SUBSET (Nat \ {0}) /\ IsFiniteSet(older)
    <3>1. YahooDays(r) \in SUBSET (1 .. day)
      BY DEF YahooDays
    <3>2. IsFiniteSet(1 .. day)
      <4>1. 1 \in Int /\ day \in Int
        OBVIOUS
      <4> QED BY ONLY <4>1, FS_Interval
    <3>3. older \in SUBSET (1 .. day)
      BY <3>1
    <3> QED BY ONLY <3>2, <3>3, FS_Subset, day \in Nat
  <2>2. PICK o : o = Bars(older, "yahoo")
    OBVIOUS
  <2>3. AreBarsOf(o, older) /\ AllFrom(o, "yahoo")
    <3>1. "yahoo" \in Feeds
      BY DEF Feeds
    <3> HIDE DEF older
    <3> QED BY ONLY <1>5, <2>1, <2>2, <3>1, SameBarsAre
  <2>4. PICK K \in Nat : K = Len(o) /\ DOMAIN o = 1 .. K /\ o \in Seq(Bar)
    BY <2>3 DEF AreBarsOf
  <2>5. PICK j \in Nat : j = b[1].day
    BY <1>1, <1>2
  <2>6. c = [bars |-> o \o b, source |-> source, joined |-> j]
    BY <1>3, <1>5, <2>2, <2>5 DEF Deepened
  <2>7. PICK t : t = o \o b
    OBVIOUS
  <2>8. /\ t \in Seq(Bar) /\ Len(t) = K + L /\ DOMAIN t = 1 .. K + L
        /\ \A i \in 1 .. K : t[i] = o[i]
        /\ \A i \in K + 1 .. K + L : t[i] = b[i - K]
    BY ONLY <1>1, <1>2, <2>4, <2>7
  <2>9. \A i \in 1 .. K : t[i].day \in Nat /\ t[i].day < j /\ t[i].source = "yahoo"
    <3>1. \A i \in 1 .. K : o[i].day \in Nat /\ o[i].day < j /\ o[i].source = "yahoo"
      BY <2>1, <2>3, <2>4, <2>5 DEF AreBarsOf, AllFrom
    <3> QED BY ONLY <2>8, <3>1
  <2>10. \A i \in K + 1 .. K + L : t[i].day \in Nat /\ t[i].day >= j /\ t[i].source = source
    <3> SUFFICES ASSUME NEW i \in K + 1 .. K + L PROVE t[i].day \in Nat /\ t[i].day >= j /\ t[i].source = source
      OBVIOUS
    <3>0. i - K \in 1 .. L
      BY ONLY <1>1, <2>4
    <3>1. PICK k \in 1 .. L : k = i - K
      BY ONLY <3>0
    <3>2. t[i] = b[k] /\ b[k].day \in Nat /\ b[k].source = source
      BY <1>2, <2>8, <3>1
    <3>3. 1 < k => b[1].day < b[k].day
      BY <1>1, <1>2 DEF Ascends
    <3>4. k = 1 \/ 1 < k
      BY ONLY <3>1
    <3>5. b[k].day >= j
      BY ONLY <2>5, <3>2, <3>3, <3>4
    <3> QED BY ONLY <3>2, <3>5
  <2>11. Ascends(t)
    <3> SUFFICES ASSUME NEW i \in 1 .. K + L, NEW k \in 1 .. K + L, i < k PROVE t[i].day < t[k].day
      BY <2>8 DEF Ascends
    <3>1. CASE k <= K
      <4>1. i \in 1 .. K /\ k \in 1 .. K
        BY ONLY <1>1, <2>4, <3>1, i < k
      <4>2. o[i].day < o[k].day
        BY <2>3, <2>4, <4>1 DEF AreBarsOf, Ascends
      <4> QED BY ONLY <2>8, <4>1, <4>2
    <3>2. CASE i <= K /\ k > K
      <4>1. i \in 1 .. K /\ k \in K + 1 .. K + L
        BY ONLY <1>1, <2>4, <3>2
      <4>2. t[i].day \in Nat /\ t[i].day < j /\ t[k].day \in Nat /\ t[k].day >= j
        BY ONLY <2>9, <2>10, <4>1
      <4> QED BY ONLY <2>5, <4>2
    <3>3. CASE i > K
      <4>1. PICK x \in 1 .. L, y \in 1 .. L : x = i - K /\ y = k - K /\ x < y
        BY ONLY <1>1, <2>4, <3>3, i < k
      <4>2. i \in K + 1 .. K + L /\ k \in K + 1 .. K + L
        BY ONLY <1>1, <2>4, <3>3, i < k
      <4>3. b[x].day < b[y].day
        BY <1>1, <1>2, <4>1 DEF Ascends
      <4> QED BY ONLY <2>8, <4>1, <4>2, <4>3
    <3> QED BY ONLY <1>1, <2>4, <3>1, <3>2, <3>3
  <2>12. c.bars = t /\ c.source = source /\ c.joined = j
    BY <2>6, <2>7
  <2>13. Labelled(c)
    <3> SUFFICES ASSUME NEW i \in 1 .. K + L
                 PROVE  t[i].source = IF t[i].day < j THEN "yahoo" ELSE source
      BY <2>8, <2>12 DEF Labelled
    <3>1. i \in 1 .. K \/ i \in K + 1 .. K + L
      BY ONLY <1>1, <2>4
    <3> QED BY ONLY <2>5, <2>9, <2>10, <3>1
  <2>14. t # <<>> /\ t[Len(t)].day = b[Len(b)].day
    <3>1. K + L \in K + 1 .. K + L /\ K + L > 0 /\ (K + L) - K = L
      BY ONLY <1>1, <2>4
    <3>2. t[K + L] = b[L]
      BY ONLY <2>8, <3>1
    <3> QED BY ONLY <1>1, <2>8, <3>1, <3>2
  <2> QED BY <1>3, <2>6, <2>7, <2>8, <2>11, <2>12, <2>13, <2>14 DEF IsChart
<1> QED BY <1>4, <1>5

(* To cut a chart takes its oldest bars away.                                *)
LEMMA CutIs ==
  ASSUME NEW c, NEW source, NEW last, IsChart(c, source, last), NEW n \in Nat \ {0}
  PROVE  IsChart(Cut(c, n), source, last)
<1>1. PICK b, j : b = c.bars /\ j = c.joined /\ c = [bars |-> b, source |-> source, joined |-> j]
  BY DEF IsChart
<1>2. PICK L \in Nat : L = Len(b) /\ L > 0 /\ DOMAIN b = 1 .. L /\ b \in Seq(Bar)
  BY <1>1 DEF IsChart
<1>3. PICK k \in 1 .. L : k = Max({1, L - n + 1})
  <2>1. L - n + 1 \in Int /\ 1 \in Int
    BY ONLY <1>2, n \in Nat \ {0}
  <2>2. Max({1, L - n + 1}) \in {1, L - n + 1} /\ 1 <= Max({1, L - n + 1})
    BY ONLY <2>1, PaddingEnds
  <2> QED BY ONLY <1>2, <2>1, <2>2, n \in Nat \ {0}
<1>4. PICK t : t = SubSeq(b, k, L)
  OBVIOUS
<1>5. PICK N \in Nat : N = L - k + 1 /\ N > 0
  BY ONLY <1>2, <1>3
<1>6. t \in Seq(Bar) /\ Len(t) = N /\ DOMAIN t = 1 .. N /\ \A i \in 1 .. N : t[i] = b[k + i - 1] /\ k + i - 1 \in 1 .. L
  <2>0. k \in Nat /\ k >= 1 /\ k <= L
    BY ONLY <1>2, <1>3
  <2>1. t \in Seq(Bar) /\ Len(t) = N
    BY ONLY <1>2, <1>4, <1>5, <2>0
  <2>2. \A i \in 1 .. N : t[i] = b[k + i - 1]
    <3>1. DOMAIN t = 1 .. N /\ \A i \in 1 .. L - k + 1 : SubSeq(b, k, L)[i] = b[k + i - 1]
      BY ONLY <1>2, <1>4, <1>5, <2>0, <2>1
    <3> QED BY ONLY <1>4, <1>5, <3>1
  <2>3. \A i \in 1 .. N : k + i - 1 \in 1 .. L
    BY ONLY <1>2, <1>3, <1>5
  <2> QED BY ONLY <2>1, <2>2, <2>3
<1>7. PICK d : d = Cut(c, n)
  OBVIOUS
<1>8. d = [bars |-> t, source |-> source, joined |-> j]
  <2>1. d = [c EXCEPT !.bars = SubSeq(c.bars, Max({1, Len(c.bars) - n + 1}), Len(c.bars))]
    BY ONLY <1>7 DEF Cut
  <2>2. SubSeq(c.bars, Max({1, Len(c.bars) - n + 1}), Len(c.bars)) = t
    BY ONLY <1>1, <1>2, <1>3, <1>4
  <2>3. d = [c EXCEPT !.bars = t]
    BY ONLY <2>1, <2>2
  <2> QED BY ONLY <1>1, <2>3
<1>9. d.bars = t /\ d.source = source /\ d.joined = j
  BY <1>8
<1>10. Ascends(t)
  <2> SUFFICES ASSUME NEW x \in 1 .. N, NEW y \in 1 .. N, x < y PROVE t[x].day < t[y].day
    BY <1>6 DEF Ascends
  <2>1. PICK p \in 1 .. L, q \in 1 .. L : p = k + x - 1 /\ q = k + y - 1 /\ p < q
    BY ONLY <1>3, <1>5, <1>6, x < y
  <2>2. b[p].day < b[q].day
    BY <1>1, <1>2, <2>1 DEF IsChart, Ascends
  <2> QED BY ONLY <1>6, <2>1, <2>2
<1>11. Labelled(d)
  BY <1>1, <1>2, <1>6, <1>9 DEF IsChart, Labelled
<1>12. t # <<>> /\ t[Len(t)].day = last
  <2>1. N \in 1 .. N /\ k + N - 1 = L
    BY ONLY <1>2, <1>3, <1>5
  <2>2. t[N] = b[L]
    BY ONLY <1>6, <2>1
  <2> QED BY <1>1, <1>2, <1>5, <1>6, <2>2 DEF IsChart
<1> QED BY <1>6, <1>7, <1>8, <1>9, <1>10, <1>11, <1>12 DEF IsChart


(* A stretch has the bar.                                                    *)
Has(segs, x) == \E k \in DOMAIN segs : segs[k].from <= x.day /\ x.day <= segs[k].to /\ segs[k].source = x.source
EndsAt(segs, x) ==
  segs # <<>> /\ segs[Len(segs)].to = x.day /\ segs[Len(segs)].source = x.source /\ segs[Len(segs)].from <= x.day

(* A bar goes into the last stretch or starts one, and no other is lost.     *)
LEMMA ExtendedHas ==
  ASSUME NEW segs \in Seq(Stretch), NEW x \in Bar,
         segs # <<>> => segs[Len(segs)].to <= x.day /\ segs[Len(segs)].from <= x.day
  PROVE  /\ Extended(segs, x) \in Seq(Stretch) /\ EndsAt(Extended(segs, x), x) /\ Has(Extended(segs, x), x)
         /\ \A y \in Bar : Has(segs, y) => Has(Extended(segs, x), y)
<1>1. PICK n \in Nat : n = Len(segs) /\ DOMAIN segs = 1 .. n
  OBVIOUS
<1>2. x.day \in Nat /\ x.source \in Feeds
  BY DEF Bar
<1>3. PICK e : e = Extended(segs, x)
  OBVIOUS
<1>4. CASE segs # <<>> /\ segs[n].source = x.source
  <2>1. n \in 1 .. n
    BY <1>1, <1>4
  <2>2. e = [segs EXCEPT ![n].to = x.day]
    BY <1>1, <1>3, <1>4 DEF Extended
  <2>3. segs[n] \in Stretch
    BY <1>1, <2>1
  <2>4. PICK s \in Stretch : s = [segs[n] EXCEPT !.to = x.day]
    BY <1>2, <2>3 DEF Stretch
  <2>5. s.to = x.day /\ s.from = segs[n].from /\ s.source = segs[n].source
    BY <2>3, <2>4 DEF Stretch
  <2>6. e = [k \in 1 .. n |-> IF k = n THEN s ELSE segs[k]]
    BY <1>1, <2>1, <2>2, <2>4
  <2>7. e \in Seq(Stretch) /\ Len(e) = n /\ DOMAIN e = 1 .. n /\ e[n] = s /\ \A k \in 1 .. n : k # n => e[k] = segs[k]
    BY <1>1, <2>1, <2>6
  <2>8. EndsAt(e, x)
    BY <1>1, <1>4, <2>1, <2>5, <2>7 DEF EndsAt
  <2>9. Has(e, x)
    BY <1>1, <1>2, <1>4, <2>1, <2>5, <2>7 DEF Has
  <2>10. ASSUME NEW y \in Bar, Has(segs, y) PROVE Has(e, y)
    <3>1. PICK k \in 1 .. n : segs[k].from <= y.day /\ y.day <= segs[k].to /\ segs[k].source = y.source
      BY <1>1, <2>10 DEF Has
    <3>2. CASE k = n
      <4>1. y.day \in Nat /\ segs[n].to \in Nat
        BY <2>3 DEF Bar, Stretch
      <4>2. y.day <= x.day
        BY ONLY <1>1, <1>2, <1>4, <3>1, <3>2, <4>1, segs # <<>> => segs[Len(segs)].to <= x.day /\ segs[Len(segs)].from <= x.day
      <4> QED BY <2>1, <2>5, <2>7, <3>1, <3>2, <4>2 DEF Has
    <3>3. CASE k # n
      BY <2>7, <3>1, <3>3 DEF Has
    <3> QED BY <3>2, <3>3
  <2> QED BY <1>3, <2>7, <2>8, <2>9, <2>10
<1>5. CASE segs = <<>> \/ segs[n].source # x.source
  <2>1. PICK s \in Stretch : s = [source |-> x.source, from |-> x.day, to |-> x.day]
    BY <1>2 DEF Stretch
  <2>2. e = Append(segs, s)
    BY <1>1, <1>3, <1>5, <2>1 DEF Extended
  <2>3. /\ e \in Seq(Stretch) /\ Len(e) = n + 1 /\ DOMAIN e = 1 .. n + 1
        /\ e[n + 1] = s /\ \A k \in 1 .. n : e[k] = segs[k]
    BY ONLY <1>1, <2>1, <2>2, segs \in Seq(Stretch)
  <2>4. s.to = x.day /\ s.from = x.day /\ s.source = x.source /\ n + 1 \in 1 .. n + 1
    BY <1>1, <2>1
  <2>5. EndsAt(e, x)
    BY <1>2, <2>3, <2>4 DEF EndsAt
  <2>6. Has(e, x)
    BY <1>2, <2>3, <2>4 DEF Has
  <2>7. ASSUME NEW y \in Bar, Has(segs, y) PROVE Has(e, y)
    <3>1. PICK k \in 1 .. n : segs[k].from <= y.day /\ y.day <= segs[k].to /\ segs[k].source = y.source
      BY <1>1, <2>7 DEF Has
    <3>2. k \in 1 .. n + 1
      BY <1>1
    <3> QED BY <2>3, <3>1, <3>2 DEF Has
  <2> QED BY <1>3, <2>3, <2>5, <2>6, <2>7
<1> QED BY <1>4, <1>5

(* The stretches there are of the first bars, one bar after the other.       *)
StretchesOf(g, b) == g = [n \in 0 .. Len(b) |-> IF n = 0 THEN <<>> ELSE Extended(g[n - 1], b[n])]
HaveAll(segs, b, n) == (n > 0 => EndsAt(segs, b[n])) /\ \A i \in 1 .. n : Has(segs, b[i])

(* They have every bar.                                                      *)
LEMMA SegmentsHaveAll ==
  ASSUME NEW b \in Seq(Bar), Ascends(b)
  PROVE  \A i \in DOMAIN b : Has(Segments(b), b[i])
<1>1. PICK L \in Nat : L = Len(b) /\ DOMAIN b = 1 .. L
  OBVIOUS
<1>2. \A i \in 1 .. L : b[i] \in Bar /\ b[i].day \in Nat
  <2>1. \A i \in 1 .. L : b[i] \in Bar
    BY <1>1
  <2> QED BY <2>1 DEF Bar
<1> DEFINE V == Seq(Stretch)
           Next1(v, n) == IF Extended(v, b[n]) \in V THEN Extended(v, b[n]) ELSE v
           rule == [n \in 1 .. L |-> [v \in V |-> Next1(v, n)]]
<1>3. PICK f \in [0 .. L -> V] : f[0] = <<>> /\ \A n \in 1 .. L : f[n] = rule[n][f[n - 1]]
  <2>1. PICK W, st : W = V /\ st = rule
    OBVIOUS
  <2>2. rule \in [1 .. L -> [V -> V]] /\ <<>> \in V
    <3> HIDE DEF V
    <3>1. \A n \in 1 .. L, v \in V : Next1(v, n) \in V
      OBVIOUS
    <3>2. <<>> \in V
      BY DEF V
    <3> HIDE DEF Next1
    <3> QED BY <3>1, <3>2
  <2>3. st \in [1 .. L -> [W -> W]]
    BY ONLY <2>1, <2>2
  <2>4. PICK e \in W : e = <<>>
    BY ONLY <2>1, <2>2
  <2>5. \E g \in [0 .. L -> W] : Follows(g, e, L, st)
    BY ONLY <1>1, <2>3, <2>4, Recursion
  <2> HIDE DEF rule, V
  <2> QED BY <2>1, <2>4, <2>5 DEF Follows
<1>4. \A n \in 1 .. L : n - 1 \in 0 .. L /\ f[n - 1] \in V /\ f[n] = Next1(f[n - 1], n)
  <2> SUFFICES ASSUME NEW n \in 1 .. L PROVE n - 1 \in 0 .. L /\ f[n - 1] \in V /\ f[n] = Next1(f[n - 1], n)
    OBVIOUS
  <2>1. n - 1 \in 0 .. L
    BY ONLY <1>1
  <2> HIDE DEF V, Next1
  <2>2. f[n - 1] \in V
    BY <2>1
  <2> QED BY <1>3, <2>1, <2>2
<1> HIDE DEF rule
<1> DEFINE bad == {n \in 0 .. L : ~HaveAll(f[n], b, n)}
<1>5. ASSUME NEW n \in 1 .. L, HaveAll(f[n - 1], b, n - 1)
      PROVE  f[n] = Extended(f[n - 1], b[n]) /\ HaveAll(f[n], b, n)
  <2>1. PICK m \in 0 .. L : m = n - 1
    BY ONLY <1>1
  <2>2. PICK s \in Seq(Stretch) : s = f[m]
    BY <1>4, <2>1
  <2>3. b[n] \in Bar /\ b[n].day \in Nat
    BY <1>2
  <2>4. s # <<>> => s[Len(s)].to <= b[n].day /\ s[Len(s)].from <= b[n].day
    <3>1. CASE m = 0
      BY <1>3, <2>2, <3>1
    <3>2. CASE m # 0
      <4>1. m \in 1 .. L /\ m < n
        BY ONLY <1>1, <2>1, <3>2
      <4>2. EndsAt(s, b[m])
        BY <1>5, <2>1, <2>2, <4>1 DEF HaveAll
      <4>3. b[m].day < b[n].day /\ b[m].day \in Nat
        BY <1>1, <1>2, <4>1 DEF Ascends
      <4>4. s # <<>> => s[Len(s)].from \in Nat
        <5>1. s # <<>> => Len(s) \in 1 .. Len(s)
          OBVIOUS
        <5>2. s # <<>> => s[Len(s)] \in Stretch
          BY <5>1
        <5> QED BY <5>2 DEF Stretch
      <4>5. s[Len(s)].to = b[m].day /\ s[Len(s)].from <= b[m].day
        BY ONLY <4>2 DEF EndsAt
      <4>6. PICK x \in Nat, y \in Nat : x = b[m].day /\ y = b[n].day /\ x < y
        BY ONLY <2>3, <4>3
      <4> SUFFICES ASSUME s # <<>> PROVE s[Len(s)].to <= b[n].day /\ s[Len(s)].from <= b[n].day
        OBVIOUS
      <4>7. PICK z \in Nat : z = s[Len(s)].from
        BY <4>4
      <4>8. z <= x
        BY ONLY <4>5, <4>6, <4>7
      <4>9. z <= y /\ x <= y
        <5>1. \A i, j, k \in Nat : i <= j /\ j < k => i <= k /\ j <= k
          OBVIOUS
        <5>2. x < y
          BY ONLY <4>6
        <5> QED BY ONLY <4>8, <5>1, <5>2
      <4> QED BY ONLY <4>5, <4>6, <4>7, <4>9
    <3> QED BY <3>1, <3>2
  <2>5. PICK x \in Bar : x = b[n]
    BY <2>3
  <2>6. PICK e : e = Extended(s, x)
    OBVIOUS
  <2>7. e \in Seq(Stretch) /\ EndsAt(e, x) /\ Has(e, x) /\ \A y \in Bar : Has(s, y) => Has(e, y)
    BY ONLY <2>4, <2>5, <2>6, ExtendedHas
  <2>8. f[n] = e
    BY <1>4, <2>1, <2>2, <2>5, <2>6, <2>7
  <2>9. ASSUME NEW i \in 1 .. n PROVE Has(e, b[i])
    <3>1. CASE i = n
      BY <2>5, <2>7, <3>1
    <3>2. CASE i # n
      <4>1. i \in 1 .. m /\ i \in 1 .. L
        BY ONLY <1>1, <2>1, <3>2
      <4>2. Has(s, b[i]) /\ b[i] \in Bar
        BY <1>2, <1>5, <2>1, <2>2, <4>1 DEF HaveAll
      <4> QED BY ONLY <2>7, <4>2
    <3> QED BY <3>1, <3>2
  <2> QED BY <2>1, <2>2, <2>5, <2>6, <2>7, <2>8, <2>9 DEF HaveAll
<1>6. HaveAll(f[0], b, 0)
  BY DEF HaveAll
<1>7. bad = {}
  <2> SUFFICES ASSUME bad # {} PROVE FALSE
    OBVIOUS
  <2>1. bad \subseteq Nat
    OBVIOUS
  <2>2. PICK n \in bad : \A m \in bad : n <= m
    <3> HIDE DEF bad
    <3> QED BY ONLY <2>1, bad # {}, Least
  <2>3. n \in 0 .. L /\ ~HaveAll(f[n], b, n)
    OBVIOUS
  <2>4. n \in 1 .. L
    BY ONLY <1>1, <1>6, <2>3
  <2>5. PICK m \in 0 .. L : m = n - 1 /\ ~(n <= m)
    BY ONLY <1>1, <2>4
  <2>6. HaveAll(f[m], b, m)
    BY <2>2, <2>5
  <2> QED BY <1>5, <2>3, <2>4, <2>5, <2>6
<1>8. ASSUME NEW n \in 0 .. L PROVE HaveAll(f[n], b, n)
  BY <1>7
<1>9. ASSUME NEW n \in 0 .. L PROVE f[n] = IF n = 0 THEN <<>> ELSE Extended(f[n - 1], b[n])
  <2>1. CASE n = 0
    BY <1>3, <2>1
  <2>2. CASE n # 0
    <3>1. n \in 1 .. L /\ n - 1 \in 0 .. L
      BY ONLY <1>1, <2>2
    <3>2. HaveAll(f[n - 1], b, n - 1)
      BY <1>8, <3>1
    <3> QED BY <1>5, <2>2, <3>1, <3>2
  <2> QED BY <2>1, <2>2
<1>10. f = [n \in 0 .. L |-> f[n]]
  BY <1>3
<1>11. \E g : StretchesOf(g, b)
  <2>1. f = [n \in 0 .. L |-> IF n = 0 THEN <<>> ELSE Extended(f[n - 1], b[n])]
    BY <1>9, <1>10
  <2> QED BY ONLY <1>1, <2>1 DEF StretchesOf
<1>12. PICK g : StretchesOf(g, b) /\ Segments(b) = g[L]
  <2>1. Segments(b) = (CHOOSE g : StretchesOf(g, b))[L]
    BY ONLY <1>1 DEF Segments, StretchesOf
  <2> QED BY <1>11, <2>1
<1>13. \A n \in 0 .. L : g[n] = f[n]
  <2> DEFINE other == {n \in 0 .. L : g[n] # f[n]}
  <2> SUFFICES ASSUME other # {} PROVE FALSE
    OBVIOUS
  <2>1. other \subseteq Nat
    OBVIOUS
  <2>2. PICK n \in other : \A m \in other : n <= m
    <3> HIDE DEF other
    <3> QED BY ONLY <2>1, other # {}, Least
  <2>3. n \in 0 .. L /\ g[n] # f[n]
    OBVIOUS
  <2>4. \A k \in 0 .. L : g[k] = IF k = 0 THEN <<>> ELSE Extended(g[k - 1], b[k])
    BY ONLY <1>1, <1>12 DEF StretchesOf
  <2>5. n # 0
    BY <1>3, <2>3, <2>4
  <2>6. PICK m \in 0 .. L : m = n - 1 /\ ~(n <= m)
    BY ONLY <1>1, <2>3, <2>5
  <2>7. g[m] = f[m]
    BY <2>2, <2>6
  <2> HIDE DEF other
  <2> QED BY <1>9, <2>3, <2>4, <2>5, <2>6, <2>7
<1>14. HaveAll(Segments(b), b, L)
  BY <1>1, <1>8, <1>12, <1>13
<1> QED BY <1>1, <1>14 DEF HaveAll


(* What the cache has, as of a day: an entry was fetched with all the days   *)
(* from its own to that of the fetch, which are as recent or more, and       *)
(* nothing is missing between two entries.                                   *)
CacheHolds(cache, now) ==
  /\ DOMAIN cache \in SUBSET (BrokerFrom .. now)
  /\ \A d \in DOMAIN cache :
       /\ cache[d] \in d .. now
       /\ \A e \in d .. cache[d] : e \in DOMAIN cache /\ cache[e] >= cache[d]
  /\ \A d, e \in DOMAIN cache : d .. e \subseteq DOMAIN cache

(* The strengthening: the types, and that the cache is without a hole.       *)
ChartInv ==
  /\ day \in Nat \ {0} /\ recorded \in SUBSET (1 .. day)
  /\ DOMAIN permanent \in SUBSET (1 .. day) /\ \A d \in DOMAIN permanent : permanent[d] \in {"alpaca", "yahoo"}
  /\ CacheHolds(barCache, day)

(* What the feed answers reaches today, and back to its own first day or     *)
(* past all that the cache may still have.                                   *)
IsRecent(F) ==
  \/ F = {}
  \/ \E lo \in BrokerFrom .. day : F = lo .. day /\ (lo = BrokerFrom \/ lo <= day - KeepDays + 1)

(* The answer of the feed is such a stretch of days.                         *)
LEMMA FeedIsRecent ==
  ASSUME day \in Nat, NEW r \in ChartRequests
  PROVE  IsRecent(FeedDays(r)) /\ r.limit \in Nat \ {0}
<1>1. r.limit \in Nat \ {0} /\ KeepDays <= r.limit /\ BrokerFrom \in Nat \ {0} /\ KeepDays \in Nat
  <2>1. \E x \in Depths : r.limit = x.limit
    BY DEF ChartRequests
  <2>2. \A x \in Depths : x.limit \in {CardLimit} \cup Candles
    BY DEF Depths
  <2> QED BY <2>1, <2>2, ChartAssumption DEF ChartAssumption
<1>2. CASE ~r.broker \/ BrokerFrom > day
  <2>1. BrokerFrom > day => BrokerFrom .. day = {}
    BY <1>1
  <2>2. FeedDays(r) = {}
    BY <1>2, <2>1 DEF FeedDays, Newest
  <2> QED BY <1>1, <2>2 DEF IsRecent
<1>3. CASE r.broker /\ BrokerFrom <= day
  <2>1. ASSUME NEW d \in BrokerFrom .. day
        PROVE  d \in FeedDays(r) <=> day - d < r.limit
    <3>1. {e \in BrokerFrom .. day : e > d} = d + 1 .. day
      BY <1>1
    <3>2. Cardinality(d + 1 .. day) = day - d
      <4>1. d + 1 \in Int /\ day \in Int /\ d \in Int /\ d <= day
        BY ONLY <1>1, day \in Nat
      <4>2. Cardinality(d + 1 .. day) = IF d + 1 > day THEN 0 ELSE day - (d + 1) + 1
        BY ONLY <4>1, FS_Interval
      <4> QED BY ONLY <4>1, <4>2
    <3> QED BY <1>3, <3>1, <3>2 DEF FeedDays, Newest
  <2>2. FeedDays(r) \subseteq BrokerFrom .. day
    BY DEF FeedDays, Newest
  <2>3. PICK lo \in BrokerFrom .. day :
          lo = IF day - r.limit + 1 >= BrokerFrom THEN day - r.limit + 1 ELSE BrokerFrom
    BY <1>1, <1>3
  <2>4. \A d \in BrokerFrom .. day : day - d < r.limit <=> d >= lo
    BY ONLY <1>1, <2>3, day \in Nat
  <2>5. FeedDays(r) = lo .. day
    <3>1. lo .. day \subseteq BrokerFrom .. day
      BY ONLY <1>1, <2>3
    <3>2. \A d \in BrokerFrom .. day : d \in FeedDays(r) <=> d \in lo .. day
      BY ONLY <1>1, <2>1, <2>3, <2>4, day \in Nat
    <3> QED BY ONLY <2>2, <3>1, <3>2
  <2>6. lo = BrokerFrom \/ lo <= day - KeepDays + 1
    BY ONLY <1>1, <2>3, day \in Nat
  <2> QED BY <1>1, <2>5, <2>6 DEF IsRecent
<1> QED BY <1>1, <1>2, <1>3

(* To store that and to sweep leaves no hole: what is swept is older, and so *)
(* is all before it.                                                         *)
LEMMA CachedHolds ==
  ASSUME ChartInv, NEW F, IsRecent(F)
  PROVE  CacheHolds(Cached(F), day)
<1>1. day \in Nat /\ KeepDays \in Nat /\ BrokerFrom \in Nat
  BY ChartAssumption DEF ChartInv
<1>2. PICK n : n = Cached(F)
  OBVIOUS
<1> DEFINE Kept(d) == d \in DOMAIN barCache /\ barCache[d] >= day - KeepDays
<1>3. \A d \in DOMAIN barCache : d \in BrokerFrom .. day /\ barCache[d] \in d .. day
  BY DEF ChartInv, CacheHolds
<1>4. DOMAIN n = {d \in DOMAIN barCache \cup F : d \in F \/ Kept(d)} /\ \A d \in DOMAIN n : n[d] = IF d \in F THEN day ELSE barCache[d]
  <2>1. PICK m : m = [d \in DOMAIN barCache \cup F |-> IF d \in F THEN day ELSE barCache[d]]
    OBVIOUS
  <2>2. n = [d \in {e \in DOMAIN m : m[e] >= day - KeepDays} |-> m[d]]
    BY <1>2, <2>1 DEF Cached, Swept
  <2>3. day >= day - KeepDays
    BY <1>1
  <2>4. DOMAIN m = DOMAIN barCache \cup F /\ \A d \in DOMAIN m : m[d] = IF d \in F THEN day ELSE barCache[d]
    BY <2>1
  <2>5. \A d \in DOMAIN m : m[d] >= day - KeepDays <=> d \in F \/ Kept(d)
    BY <2>3, <2>4
  <2>6. DOMAIN n = {e \in DOMAIN m : m[e] >= day - KeepDays} /\ \A d \in DOMAIN n : n[d] = m[d]
    BY <2>2
  <2> QED BY <2>4, <2>5, <2>6
<1>5. F \subseteq BrokerFrom .. day /\ \A d \in F : d .. day \subseteq F
  BY <1>1 DEF IsRecent
<1>6. ASSUME NEW d \in DOMAIN n PROVE d \in BrokerFrom .. day /\ n[d] \in d .. day
  <2>1. CASE d \in F
    <3>1. d \in BrokerFrom .. day /\ n[d] = day
      BY <1>4, <1>5, <2>1
    <3> QED BY <1>1, <3>1
  <2>2. CASE d \notin F
    <3>1. Kept(d) /\ n[d] = barCache[d]
      BY <1>4, <2>2
    <3> QED BY <1>3, <3>1
  <2> QED BY <2>1, <2>2
<1>7. ASSUME NEW d \in DOMAIN n, NEW e \in d .. n[d] PROVE e \in DOMAIN n /\ n[e] >= n[d]
  <2>1. CASE d \in F
    <3>1. n[d] = day
      BY <1>4, <2>1
    <3>2. e \in F
      BY <1>5, <2>1, <3>1
    <3> QED BY <1>1, <1>4, <3>1, <3>2
  <2>2. CASE d \notin F
    <3>1. Kept(d) /\ n[d] = barCache[d]
      BY <1>4, <2>2
    <3>2. e \in DOMAIN barCache /\ barCache[e] >= barCache[d]
      BY <3>1 DEF ChartInv, CacheHolds
    <3>3. barCache[e] \in Nat /\ barCache[d] \in Nat /\ barCache[d] <= day
      BY <1>1, <1>3, <3>1, <3>2
    <3>4. Kept(e)
      BY <1>1, <3>1, <3>2, <3>3
    <3> QED BY <1>1, <1>4, <3>1, <3>2, <3>3, <3>4
  <2> QED BY <2>1, <2>2
<1>8. ASSUME NEW d \in DOMAIN n, NEW e \in DOMAIN n, NEW x \in d .. e PROVE x \in DOMAIN n
  <2>0. d \in Nat /\ e \in Nat /\ x \in Nat /\ d <= x /\ x <= e /\ e <= day /\ BrokerFrom <= d
    BY <1>1, <1>6
  <2>1. CASE x \in F
    BY <1>4, <2>1
  <2>2. CASE x \notin F
    <3>1. d \notin F
      <4>1. x \in d .. day
        BY ONLY <1>1, <2>0
      <4> QED BY <1>5, <2>2, <4>1
    <3>2. Kept(d) /\ n[d] = barCache[d] /\ barCache[d] \in Nat
      BY <1>1, <1>3, <1>4, <3>1
    <3>3. CASE x <= barCache[d]
      <4>1. x \in d .. n[d]
        BY ONLY <2>0, <3>2, <3>3
      <4> QED BY <1>7, <4>1
    <3>4. CASE x > barCache[d]
      <4>1. x > day - KeepDays
        BY ONLY <1>1, <2>0, <3>2, <3>4
      <4>2. F = {}
        <5> SUFFICES ASSUME F # {} PROVE FALSE
          OBVIOUS
        <5>1. PICK lo \in BrokerFrom .. day : F = lo .. day /\ (lo = BrokerFrom \/ lo <= day - KeepDays + 1)
          BY DEF IsRecent
        <5>2. lo <= x
          BY ONLY <1>1, <2>0, <4>1, <5>1
        <5>3. x \in lo .. day
          BY ONLY <1>1, <2>0, <5>1, <5>2
        <5> QED BY <2>2, <5>1, <5>3
      <4>3. e \in DOMAIN barCache /\ d \in DOMAIN barCache
        BY <1>4, <4>2
      <4>4. x \in DOMAIN barCache
        BY <4>3 DEF ChartInv, CacheHolds
      <4>5. barCache[x] \in Int /\ barCache[x] >= x
        BY <1>1, <1>3, <4>4
      <4>6. Kept(x)
        BY <1>1, <2>0, <4>1, <4>4, <4>5
      <4> QED BY <1>4, <4>4, <4>6
    <3> QED BY <2>0, <3>2, <3>3, <3>4
  <2> QED BY <2>1, <2>2
<1>9. DOMAIN n \in SUBSET (BrokerFrom .. day)
  BY <1>6
<1>10. \A d, e \in DOMAIN n : d .. e \subseteq DOMAIN n
  BY <1>8
<1>11. \A d \in DOMAIN n : n[d] \in d .. day /\ \A e \in d .. n[d] : e \in DOMAIN n /\ n[e] >= n[d]
  BY <1>6, <1>7
<1> QED BY ONLY <1>2, <1>9, <1>10, <1>11 DEF CacheHolds

(* Each step keeps the invariant.                                            *)
LEMMA ChartStep ==
  ASSUME ChartInv, [ChartNext]_chartVars
  PROVE  ChartInv'
<1>1. day \in Nat \ {0} /\ BrokerFrom \in Nat \ {0} /\ KeepDays \in Nat
  BY ChartAssumption DEF ChartInv
<1>2. ASSUME NEW r \in ChartRequests, OpensChart(r) PROVE ChartInv'
  <2>1. IsRecent(FeedDays(r))
    BY <1>1, FeedIsRecent
  <2>2. CacheHolds(Cached(FeedDays(r)), day)
    BY <2>1, CachedHolds
  <2>3. CacheHolds(barCache', day)
    BY <1>2, <2>2 DEF OpensChart, ChartInv
  <2> QED BY <1>2, <2>3 DEF OpensChart, ChartInv
<1>3. CASE OpensAnother
  <2>1. IsRecent({})
    BY DEF IsRecent
  <2>2. CacheHolds(Cached({}), day)
    BY <2>1, CachedHolds
  <2> QED BY <1>3, <2>2 DEF OpensAnother, ChartInv
<1>4. CASE DayPasses
  <2>1. day' = day + 1 /\ barCache' = barCache /\ permanent' = permanent /\ recorded' \in SUBSET (recorded \cup {day'})
    BY <1>4 DEF DayPasses
  <2>2. day' \in Nat \ {0} /\ 1 .. day \subseteq 1 .. day' /\ day' \in 1 .. day' /\ day <= day'
    BY <1>1, <2>1
  <2>3. CacheHolds(barCache, day')
    <3>1. DOMAIN barCache \in SUBSET (BrokerFrom .. day) /\ \A d \in DOMAIN barCache : barCache[d] \in d .. day
      BY DEF ChartInv, CacheHolds
    <3>2. DOMAIN barCache \in SUBSET (BrokerFrom .. day')
      BY <1>1, <2>2, <3>1
    <3>3. \A d \in DOMAIN barCache : barCache[d] \in d .. day'
      BY <1>1, <2>2, <3>1
    <3> QED BY <3>2, <3>3 DEF ChartInv, CacheHolds
  <2> QED BY <2>1, <2>2, <2>3 DEF ChartInv
<1>5. ASSUME NEW source \in {"alpaca", "yahoo"}, Deepens(source) PROVE ChartInv'
  <2> DEFINE all == (IF source = "alpaca" THEN BrokerFrom ELSE 1) .. day
  <2>1. PICK days \in SUBSET all :
          permanent' = [d \in DOMAIN permanent \cup days |-> IF d \in days THEN source ELSE permanent[d]]
    BY <1>5 DEF Deepens
  <2>2. all \subseteq 1 .. day
    BY <1>1
  <2>3. DOMAIN permanent' \in SUBSET (1 .. day) /\ \A d \in DOMAIN permanent' : permanent'[d] \in {"alpaca", "yahoo"}
    <3> HIDE DEF all
    <3> QED BY <2>1, <2>2 DEF ChartInv
  <2> QED BY <1>5, <2>3 DEF Deepens, ChartInv
<1>6. CASE UNCHANGED chartVars
  BY <1>6 DEF chartVars, ChartInv
<1> QED BY <1>2, <1>3, <1>4, <1>5, <1>6 DEF ChartNext

(* A chart as it should be, of ChartIsSound.                                 *)
DrawnSoundly(c) ==
  /\ \A i, j \in DOMAIN c.bars : i < j => c.bars[i].day < c.bars[j].day
  /\ c.source = "alpaca" => c.bars[Len(c.bars)].day = day
  /\ c.source # "segments" =>
       \A i \in DOMAIN c.bars :
         c.bars[i].source = IF c.bars[i].day < c.joined THEN "yahoo" ELSE c.source
  /\ c.source = "segments" =>
       \A i \in DOMAIN c.bars : \E s \in ToSet(Segments(c.bars)) :
         s.from <= c.bars[i].day /\ c.bars[i].day <= s.to /\ s.source = c.bars[i].source
  /\ c.source = "cached" =>
       \A d \in Min(DOMAIN barCache) .. Max(DOMAIN barCache) : d \in DOMAIN barCache

(* A chart of one feed, which a live one ends today, is drawn soundly.       *)
LEMMA ChartIs ==
  ASSUME NEW c, NEW source, NEW last, IsChart(c, source, last), source # "segments",
         source = "alpaca" => last = day,
         source = "cached" => \A d \in Min(DOMAIN barCache) .. Max(DOMAIN barCache) : d \in DOMAIN barCache
  PROVE  DrawnSoundly(c)
BY DEF IsChart, Ascends, Labelled, DrawnSoundly

(* Whatever a request finds, its chart is so.                                *)
LEMMA AnyChartIs ==
  ASSUME ChartInv, NEW r \in ChartRequests
  PROVE  DrawnSoundly(ChartOf(r))
<1>1. /\ day \in Nat \ {0} /\ BrokerFrom \in Nat \ {0} /\ r.limit \in Nat \ {0} /\ IsRecent(FeedDays(r))
      /\ DOMAIN barCache \in SUBSET (BrokerFrom .. day)
  BY FeedIsRecent, ChartAssumption DEF ChartInv, CacheHolds
<1>2. ASSUME NEW S, S \subseteq 1 .. day PROVE S \in SUBSET (Nat \ {0}) /\ IsFiniteSet(S)
  <2>1. IsFiniteSet(1 .. day)
    <3>1. 1 \in Int /\ day \in Int
      BY <1>1
    <3> QED BY ONLY <3>1, FS_Interval
  <2>2. S \in SUBSET (1 .. day)
    BY <1>2
  <2>3. IsFiniteSet(S)
    BY ONLY <2>1, <2>2, FS_Subset
  <2> QED BY <1>1, <2>2, <2>3
<1>3. ASSUME NEW S, S \subseteq 1 .. day, S # {}, NEW source \in Feeds
      PROVE  \E last : /\ IsChart(Deepened(r, Bars(S, source), source), source, last)
                       /\ day \in S => last = day
  <2>1. S \in SUBSET (Nat \ {0}) /\ IsFiniteSet(S)
    BY <1>2, <1>3
  <2>2. PICK b : b = Bars(S, source)
    OBVIOUS
  <2>3. AreBarsOf(b, S) /\ AllFrom(b, source)
    BY ONLY <1>3, <2>1, <2>2, SameBarsAre
  <2>4. IsChart(Deepened(r, b, source), source, b[Len(b)].day)
    <3>1. day \in Nat
      BY <1>1
    <3> QED BY ONLY <2>3, <3>1, DeepenedIs
  <2>5. day \in S => b[Len(b)].day = day
    <3>1. \A d \in S : d <= day
      BY <1>1, <1>3
    <3> QED BY <2>3, <3>1 DEF AreBarsOf
  <2> QED BY <2>2, <2>4, <2>5
<1> DEFINE deep == Permanent(r)
           cached == Newest(DOMAIN barCache, r.limit)
           own == Newest(recorded, r.limit)
<1>4. CASE keeping /\ deep # <<>> /\ (r.all \/ Len(deep) >= r.limit)
  <2>1. PICK D : D = Newest(DOMAIN permanent, r.limit)
    OBVIOUS
  <2>2. D \subseteq 1 .. day /\ D \subseteq DOMAIN permanent
    BY <2>1 DEF Newest, ChartInv
  <2>3. D \in SUBSET (Nat \ {0}) /\ IsFiniteSet(D)
    BY <1>2, <2>2
  <2>4. PICK b, f : b = BarsBy(D, f) /\ b = deep /\ f = permanent
    BY <2>1 DEF Permanent
  <2>5. D # {}
    <3> SUFFICES ASSUME D = {} PROVE deep = <<>>
      BY <1>4
    <3>1. Cardinality(D) = 0
      BY FS_EmptySet
    <3>2. b = <<>>
      BY <2>4, <3>1 DEF BarsBy, InOrderOf
    <3> QED BY <2>4, <3>2
  <2>6. \A d \in D : f[d] \in Feeds
    BY <2>2, <2>4 DEF Feeds, ChartInv
  <2>7. AreBarsOf(b, D)
    BY ONLY <2>3, <2>4, <2>5, <2>6, BarsAre
  <2>8. b \in Seq(Bar) /\ Ascends(b)
    BY <2>7 DEF AreBarsOf
  <2>9. \A i \in DOMAIN b : Has(Segments(b), b[i])
    BY ONLY <2>8, SegmentsHaveAll
  <2>10. \A i \in DOMAIN b : \E s \in ToSet(Segments(b)) :
           s.from <= b[i].day /\ b[i].day <= s.to /\ s.source = b[i].source
    BY ONLY <2>9 DEF Has, ToSet
  <2>11. ChartOf(r) = [bars |-> b, source |-> "segments", joined |-> 0]
    BY <1>4, <2>4 DEF ChartOf
  <2> QED BY ONLY <2>8, <2>10, <2>11 DEF DrawnSoundly, Ascends
<1>5. CASE ~(keeping /\ deep # <<>> /\ (r.all \/ Len(deep) >= r.limit))
  <2>1. CASE FeedDays(r) # {}
    <3>1. ChartOf(r) = Cut(Deepened(r, Bars(FeedDays(r), "alpaca"), "alpaca"), r.limit)
      BY <1>5, <2>1 DEF ChartOf
    <3>2. PICK lo \in BrokerFrom .. day : FeedDays(r) = lo .. day
      BY <1>1, <2>1 DEF IsRecent
    <3>3. FeedDays(r) \subseteq 1 .. day /\ day \in FeedDays(r)
      BY <1>1, <3>2
    <3>4. PICK c : c = Deepened(r, Bars(FeedDays(r), "alpaca"), "alpaca") /\ IsChart(c, "alpaca", day)
      <4>1. "alpaca" \in Feeds
        BY DEF Feeds
      <4> QED BY <1>3, <2>1, <3>3, <4>1
    <3>5. IsChart(Cut(c, r.limit), "alpaca", day)
      BY ONLY <1>1, <3>4, CutIs
    <3> QED BY <3>1, <3>4, <3>5, ChartIs
  <2>2. CASE FeedDays(r) = {} /\ cached # {}
    <3>1. ChartOf(r) = Deepened(r, Bars(cached, "cached"), "cached")
      BY <1>5, <2>2 DEF ChartOf
    <3>2. cached \subseteq 1 .. day
      BY <1>1 DEF Newest
    <3>3. PICK c, last : c = Deepened(r, Bars(cached, "cached"), "cached") /\ IsChart(c, "cached", last)
      <4>1. "cached" \in Feeds
        BY DEF Feeds
      <4> HIDE DEF cached
      <4> QED BY <1>3, <2>2, <3>2, <4>1
    <3>4. Min(DOMAIN barCache) \in DOMAIN barCache /\ Max(DOMAIN barCache) \in DOMAIN barCache
      <4>1. PICK S : S = DOMAIN barCache
        OBVIOUS
      <4>2. S # {} /\ S \subseteq 0 .. day /\ S \subseteq Nat
        BY <1>1, <2>2, <4>1 DEF Newest
      <4>3. \E x \in S : \A y \in S : x <= y
        BY ONLY <4>2, Least
      <4>4. \E x \in S : \A y \in S : y <= x
        BY ONLY <1>1, <4>2, Greatest
      <4>5. \E x \in S : \A y \in S : x >= y
        BY ONLY <4>2, <4>4
      <4> QED BY ONLY <4>1, <4>3, <4>5 DEF Min, Max
    <3>5. \A d \in Min(DOMAIN barCache) .. Max(DOMAIN barCache) : d \in DOMAIN barCache
      BY <3>4 DEF ChartInv, CacheHolds
    <3> QED BY <3>1, <3>3, <3>5, ChartIs
  <2>3. CASE FeedDays(r) = {} /\ cached = {} /\ own # {}
    <3>1. ChartOf(r) = Deepened(r, Bars(own, "recorded"), "recorded")
      BY <1>5, <2>3 DEF ChartOf
    <3>2. own \subseteq 1 .. day
      BY DEF Newest, ChartInv
    <3>3. PICK c, last : c = Deepened(r, Bars(own, "recorded"), "recorded") /\ IsChart(c, "recorded", last)
      <4>1. "recorded" \in Feeds
        BY DEF Feeds
      <4> HIDE DEF own
      <4> QED BY <1>3, <2>3, <3>2, <4>1
    <3> QED BY <3>1, <3>3, ChartIs
  <2>4. CASE FeedDays(r) = {} /\ cached = {} /\ own = {} /\ YahooDays(r) # {}
    <3>1. PICK b, S : b = Bars(S, "yahoo") /\ S = YahooDays(r)
      OBVIOUS
    <3>2. PICK c : c = [bars |-> b, source |-> "yahoo", joined |-> 0]
      OBVIOUS
    <3>3. ChartOf(r) = Cut(c, r.limit)
      BY <1>5, <2>4, <3>1, <3>2 DEF ChartOf
    <3>4. S \subseteq 1 .. day /\ S # {}
      BY <2>4, <3>1 DEF YahooDays
    <3>5. S \in SUBSET (Nat \ {0}) /\ IsFiniteSet(S) /\ "yahoo" \in Feeds
      BY <1>2, <3>4 DEF Feeds
    <3>6. AreBarsOf(b, S) /\ AllFrom(b, "yahoo")
      BY ONLY <3>1, <3>4, <3>5, SameBarsAre
    <3>7. PICK last : last = b[Len(b)].day
      OBVIOUS
    <3>8. IsChart(c, "yahoo", last)
      BY ONLY <3>2, <3>6, <3>7 DEF IsChart, AreBarsOf, AllFrom, Labelled
    <3>9. IsChart(Cut(c, r.limit), "yahoo", last)
      BY ONLY <1>1, <3>8, CutIs
    <3> QED BY <3>3, <3>9, ChartIs
  <2>5. CASE FeedDays(r) = {} /\ cached = {} /\ own = {} /\ YahooDays(r) = {}
    <3>1. ChartOf(r) = NoChart
      BY <1>5, <2>5 DEF ChartOf
    <3> QED BY <3>1 DEF NoChart, DrawnSoundly
  <2> QED BY <2>1, <2>2, <2>3, <2>4, <2>5
<1> QED BY <1>4, <1>5

(* A chart does not lie about where its candles came from (symbol_bars), for *)
(* any calendar, depths and settings: whichever source is there to draw it   *)
(* from, its days ascend, its stretches are what they are labelled, a live   *)
(* one reaches today, and the cache that stands in for the feed has no hole, *)
(* though every chart of whatever symbol sweeps it.                          *)
THEOREM ChartsAreSound == ChartInit /\ [][ChartNext]_chartVars => []ChartIsSound
<1>1. ChartInit => ChartInv
  BY DEF ChartInit, ChartInv, CacheHolds
<1>2. ChartInv /\ [ChartNext]_chartVars => ChartInv'
  BY ChartStep
<1>3. ChartInv => ChartIsSound
  BY AnyChartIs DEF ChartIsSound, DrawnSoundly
<1> QED BY <1>1, <1>2, <1>3, PTL

-----------------------------------------------------------------------------
(* The answers of the omnibox.                                               *)

(* Lists of rows, each with a weight, that can be fused.                     *)
CanFuse(groups, n, R) ==
  /\ n \in Nat /\ DOMAIN groups = 1 .. n
  /\ \A g \in 1 .. n : groups[g].rows \in Seq(R) /\ groups[g].weight \in Int

(* There are so many places in them.                                         *)
LEMMA PlacesAreFinite ==
  ASSUME NEW n, NEW R, NEW groups, CanFuse(groups, n, R)
  PROVE  /\ IsFiniteSet(PlacesIn(groups))
         /\ \A p \in PlacesIn(groups) :
              /\ p = <<p[1], p[2]>> /\ p[1] \in 1 .. n /\ p[2] \in Nat \ {0} /\ RowAt(groups, p) \in R
              /\ groups[p[1]].weight \in Int
<1>1. n \in Nat /\ DOMAIN groups = 1 .. n /\ \A g \in 1 .. n : groups[g].rows \in Seq(R) /\ groups[g].weight \in Int
  BY DEF CanFuse
<1> DEFINE Places(g) == {g} \X DOMAIN groups[g].rows
           F == [g \in 1 .. n |-> Places(g)]
           T == {Places(g) : g \in 1 .. n}
<1>2. \A g \in 1 .. n : IsFiniteSet(Places(g))
  <2> SUFFICES ASSUME NEW g \in 1 .. n PROVE IsFiniteSet(Places(g))
    OBVIOUS
  <2>1. Len(groups[g].rows) \in Nat /\ DOMAIN groups[g].rows = 1 .. Len(groups[g].rows)
    BY <1>1
  <2>2. IsFiniteSet(DOMAIN groups[g].rows)
    BY <2>1, FS_Interval
  <2>3. IsFiniteSet({g})
    BY FS_Singleton
  <2> QED BY <2>2, <2>3, FS_Product
<1>3. IsFiniteSet(T)
  <2>1. F \in Surjection(1 .. n, T)
    BY DEF Surjection
  <2>2. IsFiniteSet(1 .. n)
    BY <1>1, FS_Interval
  <2> HIDE DEF F, T
  <2> QED BY <2>1, <2>2, FS_Surjection
<1>4. IsFiniteSet(UNION T)
  <2>1. \A S \in T : IsFiniteSet(S)
    BY <1>2
  <2> HIDE DEF T
  <2> QED BY <1>3, <2>1, FS_UNION
<1>5. PlacesIn(groups) = UNION T
  BY <1>1 DEF PlacesIn
<1>6. ASSUME NEW p \in PlacesIn(groups)
      PROVE  /\ p = <<p[1], p[2]>> /\ p[1] \in 1 .. n /\ p[2] \in Nat \ {0} /\ RowAt(groups, p) \in R
             /\ groups[p[1]].weight \in Int
  <2>1. PICK g \in 1 .. n : \E k \in DOMAIN groups[g].rows : p = <<g, k>>
    BY <1>1 DEF PlacesIn
  <2>4. PICK k \in DOMAIN groups[g].rows : p = <<g, k>>
    BY <2>1
  <2>2. groups[g].rows \in Seq(R) /\ groups[g].weight \in Int
    BY <1>1
  <2>3. k \in Nat \ {0} /\ groups[g].rows[k] \in R
    BY <2>2
  <2> QED BY <2>2, <2>3, <2>4 DEF RowAt
<1> QED BY <1>4, <1>5, <1>6

(* Scores are numbers, so they order the rows.                               *)
LEMMA ScoresAreNumbers ==
  ASSUME NEW n, NEW R, NEW groups, CanFuse(groups, n, R), NEW r
  PROVE  FoldFunction(+, 0, Shares(groups, r)) \in Int
<1> DEFINE D == {q \in PlacesIn(groups) : RowAt(groups, q) = r}
<1>1. IsFiniteSet(D)
  <2>1. D \in SUBSET PlacesIn(groups)
    OBVIOUS
  <2>2. IsFiniteSet(PlacesIn(groups))
    BY PlacesAreFinite
  <2> HIDE DEF D
  <2> QED BY <2>1, <2>2, FS_Subset
<1>2. \A p \in D : groups[p[1]].weight * (Scale \div (RRF_K + p[2])) \in Int
  <2> SUFFICES ASSUME NEW p \in D PROVE groups[p[1]].weight * (Scale \div (RRF_K + p[2])) \in Int
    OBVIOUS
  <2>1. PICK w \in Int, k \in Nat \ {0} : w = groups[p[1]].weight /\ k = p[2]
    BY PlacesAreFinite
  <2>2. Scale \div (RRF_K + k) \in Int
    BY RoomAssumption
  <2> QED BY <2>1, <2>2
<1>3. PICK f \in [D -> Int] : f = Shares(groups, r)
  BY <1>2 DEF Shares
<1> HIDE DEF D
<1>4. FoldFunction(+, 0, f) \in Int
  BY <1>1, TotalIsNumber
<1> QED BY <1>3, <1>4

(* Nothing is in a list twice.                                               *)
Once(rows) == \A i, j \in 1 .. Len(rows) : rows[i] = rows[j] => i = j

(* Lists are fused into one that shows nothing twice, and only what is in    *)
(* one of them.                                                              *)
LEMMA FusedIs ==
  ASSUME NEW n, NEW R, NEW groups, CanFuse(groups, n, R)
  PROVE  Fused(groups) \in Seq(R) /\ Once(Fused(groups))
<1> DEFINE F == FirstsIn(groups)
           S == Scored(groups)
           Of(p) == [at |-> p, score |-> FoldFunction(+, 0, Shares(groups, RowAt(groups, p)))]
           ahead == [x \in S |-> {y \in S : y.score > x.score \/ (y.score = x.score /\ Earlier(y.at, x.at))}]
<1>1. \A p \in F : /\ p = <<p[1], p[2]>> /\ p[1] \in Int /\ p[2] \in Int /\ RowAt(groups, p) \in R
                   /\ p \in PlacesIn(groups)
  <2>1. n \in Nat
    BY DEF CanFuse
  <2> QED BY <2>1, PlacesAreFinite DEF FirstsIn
<1>2. IsFiniteSet(S)
  <2>1. F \in SUBSET PlacesIn(groups)
    BY DEF FirstsIn
  <2>2. IsFiniteSet(PlacesIn(groups))
    BY PlacesAreFinite
  <2>3. IsFiniteSet(F)
    <3> HIDE DEF F
    <3> QED BY <2>1, <2>2, FS_Subset
  <2>4. PICK f : f = [p \in F |-> Of(p)]
    OBVIOUS
  <2>5. f \in Surjection(F, S)
    BY <2>4 DEF Surjection, Scored
  <2> HIDE DEF F, S
  <2> QED BY <2>3, <2>5, FS_Surjection
<1>3. \A x \in S : x.at \in F /\ x = Of(x.at) /\ x.score \in Int
  <2> SUFFICES ASSUME NEW p \in F PROVE Of(p).at = p /\ Of(p).score \in Int
    BY DEF Scored
  <2> QED BY ScoresAreNumbers
<1> HIDE DEF S, F, Of
<1>5. \A x, y \in S : x # y => Earlier(x.at, y.at) \/ Earlier(y.at, x.at)
  <2> SUFFICES ASSUME NEW x \in S, NEW y \in S, x # y PROVE Earlier(x.at, y.at) \/ Earlier(y.at, x.at)
    OBVIOUS
  <2>1. PICK p \in F, q \in F : p = x.at /\ q = y.at /\ p # q
    BY <1>3
  <2> QED BY <1>1, <2>1 DEF Earlier
<1>6. /\ \A x \in S : ~Earlier(x.at, x.at)
      /\ \A x, y, z \in S : Earlier(x.at, y.at) /\ Earlier(y.at, z.at) => Earlier(x.at, z.at)
  BY <1>1, <1>3 DEF Earlier
<1>7. ahead \in [S -> SUBSET S]
  OBVIOUS
<1>8. \A x \in S : x \notin ahead[x]
  BY <1>3, <1>6
<1>9. \A x, y \in S : x # y => x \in ahead[y] \/ y \in ahead[x]
  BY <1>3, <1>5
<1>10. \A x, y \in S : x \in ahead[y] => ahead[x] \subseteq ahead[y]
  <2> SUFFICES ASSUME NEW x \in S, NEW y \in S, NEW z \in S, x \in ahead[y], z \in ahead[x] PROVE z \in ahead[y]
    BY <1>7
  <2>1. x.score \in Int /\ y.score \in Int /\ z.score \in Int
    BY <1>3
  <2>2. x.score > y.score \/ (x.score = y.score /\ Earlier(x.at, y.at))
    OBVIOUS
  <2>3. z.score > x.score \/ (z.score = x.score /\ Earlier(z.at, x.at))
    OBVIOUS
  <2>4. z.score > y.score \/ (z.score = y.score /\ Earlier(z.at, y.at))
    BY <1>6, <2>1, <2>2, <2>3
  <2> QED BY <2>4
<1>16. Fused(groups) = [i \in DOMAIN SortedBy(ahead) |-> RowAt(groups, SortedBy(ahead)[i].at)]
  BY DEF Fused, S
<1> HIDE DEF ahead
<1>11. PICK m, order :
         /\ m \in Nat /\ order = SortedBy(ahead) /\ order \in [1 .. m -> S]
         /\ \A i, j \in 1 .. m : i < j => order[i] \in ahead[order[j]]
  <2>1. /\ Cardinality(S) \in Nat
        /\ SortedBy(ahead) \in [1 .. Cardinality(S) -> S]
        /\ \A i, j \in 1 .. Cardinality(S) : i < j => SortedBy(ahead)[i] \in ahead[SortedBy(ahead)[j]]
    BY ONLY <1>2, <1>7, <1>8, <1>9, <1>10, SortedByIs
  <2> QED BY ONLY <2>1
<1>12. Fused(groups) = [i \in 1 .. m |-> RowAt(groups, order[i].at)]
  BY <1>11, <1>16
<1>17. \A i \in 1 .. m : RowAt(groups, order[i].at) \in R
  BY <1>1, <1>3, <1>11
<1>13. Fused(groups) \in Seq(R) /\ Len(Fused(groups)) = m
  BY <1>11, <1>12, <1>17
<1>14. ASSUME NEW i \in 1 .. m, NEW j \in 1 .. m, i < j PROVE Fused(groups)[i] # Fused(groups)[j]
  <2>1. PICK x \in S, y \in S : x = order[i] /\ y = order[j] /\ x \in ahead[y]
    BY <1>11, <1>14
  <2>2. x # y
    BY <1>8, <2>1
  <2>3. Earlier(x.at, y.at) \/ Earlier(y.at, x.at)
    BY <1>5, <2>2
  <2>4. PICK p \in F, q \in F : p = x.at /\ q = y.at
    BY <1>3
  <2>5. RowAt(groups, p) # RowAt(groups, q)
    BY <1>1, <2>3, <2>4 DEF F, FirstsIn
  <2> QED BY <1>12, <2>1, <2>4, <2>5
<1>15. \A i, j \in 1 .. m : Fused(groups)[i] = Fused(groups)[j] => i = j
  <2> SUFFICES ASSUME NEW i \in 1 .. m, NEW j \in 1 .. m, i # j PROVE Fused(groups)[i] # Fused(groups)[j]
    OBVIOUS
  <2>1. i < j \/ j < i
    OBVIOUS
  <2> QED BY <1>14, <2>1
<1> QED BY <1>13, <1>15 DEF Once

(* A list that leads with what is named: see NamesLead.                      *)
Leading(q, hit, rows) ==
  /\ rows = [i \in 1 .. Len(rows) |-> rows[i]] /\ Len(rows) \in Nat
  /\ q.named # <<>> /\ q.named[2] => Len(rows) >= 1 /\ rows[1] \in PageNamed(q)
  /\ hit =>
       /\ \A r \in {Row("symbol", q.token)} \cup PageNamed(q) : \E i \in 1 .. Len(rows) : i <= 2 /\ rows[i] = r
       /\ (q.named = <<>> \/ ~q.named[2]) => Len(rows) >= 1 /\ rows[1] = Row("symbol", q.token)

(* One row is a list.                                                        *)
LEMMA OneRow ==
  ASSUME NEW R, NEW r \in R
  PROVE  <<r>> \in Seq(R) /\ Len(<<r>>) = 1 /\ <<r>>[1] = r /\ <<r>> # <<>> /\ Once(<<r>>)
BY DEF Once

(* So do the pins.                                                           *)
LEMMA PinsLead ==
  ASSUME NEW q \in Queries, NEW hit \in BOOLEAN
  PROVE  /\ Pins(q, hit) \in Seq({Row("symbol", q.token)} \cup PageNamed(q))
         /\ Once(Pins(q, hit)) /\ Leading(q, hit, Pins(q, hit))
<1> DEFINE s == Row("symbol", q.token)
           p == Row("page", q.named[1])
<1>1. s # p
  BY DEF Row
<1>2. q.named = <<>> \/ (q.named # <<>> /\ q.named[2] \in BOOLEAN)
  BY QueriesAssumption
<1>3. ExactOf(q, hit) = IF hit THEN <<s>> ELSE <<>>
  BY DEF ExactOf
<1>4. NamedBy(q) = (IF q.named = <<>> THEN <<>> ELSE <<p>>) /\ PageNamed(q) = IF q.named = <<>> THEN {} ELSE {p}
  BY DEF NamedBy, PageNamed
<1> HIDE DEF s, p
<1>10. ASSUME NEW x PROVE <<>> \o <<x>> = <<x>> /\ <<x>> \o <<>> = <<x>>
  <2>1. <<x>> \in Seq({x}) /\ <<>> \in Seq({x})
    OBVIOUS
  <2>2. \A t \in Seq({x}) : <<>> \o t = t /\ t \o <<>> = t
    BY ConcatEmptySeq
  <2> QED BY <2>1, <2>2
<1>11. ASSUME NEW x, NEW y PROVE <<x>> \o <<y>> = <<x, y>>
  <2>1. PICK V, a, b : V = {x, y} /\ a = <<x>> /\ b = <<y>>
    OBVIOUS
  <2>2. a \in Seq(V) /\ b \in Seq(V) /\ Len(a) = 1 /\ Len(b) = 1
    BY <2>1
  <2>3. /\ a \o b \in Seq(V) /\ Len(a \o b) = Len(a) + Len(b)
        /\ \A i \in 1 .. Len(a) + Len(b) : (a \o b)[i] = IF i <= Len(a) THEN a[i] ELSE b[i - Len(a)]
    BY ONLY <2>2, ConcatProperties, Zenon
  <2>8. PICK c \in Seq(V) : c = a \o b
    BY ONLY <2>3
  <2>4. Len(c) = 2 /\ \A i \in 1 .. 2 : c[i] = IF i <= 1 THEN a[i] ELSE b[i - 1]
    <3>1. Len(c) = 2 /\ 1 \in 1 .. 2 /\ 2 \in 1 .. 2
      BY ONLY <2>2, <2>3, <2>8
    <3> QED BY ONLY <2>2, <2>3, <2>8, <3>1
  <2>5. c[1] = x /\ c[2] = y
    BY <2>1, <2>4
  <2>6. <<x, y>> \in Seq(V) /\ Len(<<x, y>>) = 2
    BY <2>1
  <2>7. c = <<x, y>>
    BY <2>4, <2>5, <2>6
  <2> QED BY <2>1, <2>7, <2>8
<1>12. <<>> \o <<>> = <<>>
  OBVIOUS
<1>13. PICK e, o, u : e = ExactOf(q, hit) /\ o = NamedBy(q) /\ u = q.named
  OBVIOUS
<1>14. Pins(q, hit) = IF u # <<>> /\ u[2] THEN o \o e ELSE e \o o
  BY <1>13 DEF Pins
<1>5. Pins(q, hit) = IF q.named = <<>> THEN IF hit THEN <<s>> ELSE <<>>
                ELSE IF ~hit THEN <<p>>
                ELSE IF q.named[2] THEN <<p, s>> ELSE <<s, p>>
  <2>1. CASE u = <<>>
    <3>1. o = <<>> /\ Pins(q, hit) = e \o o
      BY <1>4, <1>13, <1>14, <2>1
    <3> QED BY <1>3, <1>10, <1>12, <1>13, <2>1, <3>1
  <2>2. CASE u # <<>> /\ u[2]
    <3>1. o = <<p>> /\ Pins(q, hit) = o \o e
      BY <1>4, <1>13, <1>14, <2>2
    <3> QED BY <1>3, <1>10, <1>11, <1>13, <2>2, <3>1
  <2>3. CASE u # <<>> /\ ~u[2]
    <3>1. o = <<p>> /\ Pins(q, hit) = e \o o
      BY <1>4, <1>13, <1>14, <2>3
    <3> QED BY <1>3, <1>10, <1>11, <1>13, <2>3, <3>1
  <2> QED BY <2>1, <2>2, <2>3
<1>6. CASE q.named = <<>> /\ hit
  BY <1>1, <1>4, <1>5, <1>6 DEF Once, Leading, s
<1>7. CASE q.named = <<>> /\ ~hit
  BY <1>1, <1>4, <1>5, <1>7 DEF Once, Leading, s
<1>8. CASE q.named # <<>> /\ ~hit
  BY <1>1, <1>2, <1>4, <1>5, <1>8 DEF Once, Leading, s
<1>9. CASE q.named # <<>> /\ hit
  <2>1. CASE q.named[2]
    <3>1. Pins(q, hit) = <<p, s>>
      BY <1>5, <1>9, <2>1
    <3>2. PICK l : l = Pins(q, hit) /\ l = [i \in 1 .. 2 |-> l[i]] /\ l[1] = p /\ l[2] = s /\ Len(l) = 2
      BY <3>1
    <3>3. Once(l)
      BY ONLY <1>1, <3>2 DEF Once
    <3>4. \A r \in {s} \cup PageNamed(q) : \E i \in 1 .. 2 : i <= 2 /\ l[i] = r
      <4>1. PageNamed(q) = {p}
        BY ONLY <1>4, <1>9
      <4> QED BY ONLY <3>2, <4>1
    <3>5. Leading(q, hit, l)
      <4>1. (q.named # <<>> /\ q.named[2] => l[1] \in PageNamed(q)) /\ (q.named = <<>> \/ ~q.named[2] => l[1] = s)
        <5>1. PageNamed(q) = {p}
          BY ONLY <1>4, <1>9
        <5> QED BY <1>9, <2>1, <3>2, <5>1
      <4> QED BY ONLY <3>2, <3>4, <4>1 DEF Leading, s
    <3>6. l \in Seq({s} \cup PageNamed(q))
      <4>1. PageNamed(q) = {p}
        BY ONLY <1>4, <1>9
      <4> QED BY ONLY <3>2, <4>1
    <3> QED BY <3>2, <3>3, <3>5, <3>6 DEF s
  <2>2. CASE ~q.named[2]
    <3>1. Pins(q, hit) = <<s, p>>
      BY <1>5, <1>9, <2>2
    <3>2. PICK l : l = Pins(q, hit) /\ l = [i \in 1 .. 2 |-> l[i]] /\ l[1] = s /\ l[2] = p /\ Len(l) = 2
      BY <3>1
    <3>3. Once(l)
      BY ONLY <1>1, <3>2 DEF Once
    <3>4. \A r \in {s} \cup PageNamed(q) : \E i \in 1 .. 2 : i <= 2 /\ l[i] = r
      <4>1. PageNamed(q) = {p}
        BY ONLY <1>4, <1>9
      <4> QED BY ONLY <3>2, <4>1
    <3>5. Leading(q, hit, l)
      <4>1. (q.named # <<>> /\ q.named[2] => l[1] \in PageNamed(q)) /\ (q.named = <<>> \/ ~q.named[2] => l[1] = s)
        <5>1. PageNamed(q) = {p}
          BY ONLY <1>4, <1>9
        <5> QED BY <1>9, <2>2, <3>2, <5>1
      <4> QED BY ONLY <3>2, <3>4, <4>1 DEF Leading, s
    <3>6. l \in Seq({s} \cup PageNamed(q))
      <4>1. PageNamed(q) = {p}
        BY ONLY <1>4, <1>9
      <4> QED BY ONLY <3>2, <4>1
    <3> QED BY <3>2, <3>3, <3>5, <3>6 DEF s
  <2> QED BY <2>1, <2>2
<1> QED BY <1>6, <1>7, <1>8, <1>9

(* And what is pinned, of a query of any kind.                               *)
LEMMA PinsOfLead ==
  ASSUME NEW q \in Queries, NEW hit \in BOOLEAN
  PROVE  /\ PinsOf(q, hit) \in Seq({Row("symbol", q.token)} \cup PageNamed(q))
         /\ Once(PinsOf(q, hit)) /\ (q.kind = "plain" => Leading(q, hit, PinsOf(q, hit)))
<1>1. CASE q.kind = "plain"
  <2>1. PinsOf(q, hit) = Pins(q, hit)
    BY <1>1 DEF PinsOf
  <2> QED BY <2>1, PinsLead
<1>2. CASE q.kind # "plain"
  <2>1. PICK R : R = {Row("symbol", q.token)} \cup PageNamed(q)
    OBVIOUS
  <2>2. PICK o : o = NamedBy(q) /\ PinsOf(q, hit) = o
    BY <1>2 DEF PinsOf
  <2>3. CASE q.named = <<>>
    <3>1. o = <<>>
      BY <2>2, <2>3 DEF NamedBy
    <3> QED BY <1>2, <2>2, <3>1 DEF Once
  <2>4. CASE q.named # <<>>
    <3>1. PICK r \in R : r = Row("page", q.named[1])
      BY <2>1, <2>4 DEF PageNamed
    <3>2. <<r>> \in Seq(R) /\ Once(<<r>>)
      BY OneRow
    <3>3. o = <<r>>
      BY <2>2, <2>4, <3>1 DEF NamedBy
    <3> QED BY <1>2, <2>1, <2>2, <3>2, <3>3
  <2> QED BY <2>3, <2>4
<1> QED BY <1>1, <1>2

(* Two lists that share nothing, one behind the other.                       *)
LEMMA JoinedOnce ==
  ASSUME NEW R, NEW a \in Seq(R), NEW b \in Seq(R), Once(a), Once(b),
         \A i \in 1 .. Len(b), j \in 1 .. Len(a) : b[i] # a[j]
  PROVE  /\ a \o b \in Seq(R) /\ Once(a \o b) /\ Len(a \o b) = Len(a) + Len(b)
         /\ \A i \in 1 .. Len(a) + Len(b) : (a \o b)[i] = IF i <= Len(a) THEN a[i] ELSE b[i - Len(a)]
<1>1. Len(a) \in Nat /\ Len(b) \in Nat
  OBVIOUS
<1>2. /\ a \o b \in Seq(R) /\ Len(a \o b) = Len(a) + Len(b)
      /\ \A i \in 1 .. Len(a) + Len(b) : (a \o b)[i] = IF i <= Len(a) THEN a[i] ELSE b[i - Len(a)]
  BY ConcatProperties, Zenon
<1>3. PICK u : u = a \o b
  OBVIOUS
<1>4. Once(u)
  <2> SUFFICES ASSUME NEW i \in 1 .. Len(u), NEW j \in 1 .. Len(u), u[i] = u[j] PROVE i = j
    BY DEF Once
  <2>1. /\ i <= Len(a) => i \in 1 .. Len(a) /\ u[i] = a[i]
        /\ j <= Len(a) => j \in 1 .. Len(a) /\ u[j] = a[j]
        /\ ~(i <= Len(a)) => i - Len(a) \in 1 .. Len(b) /\ u[i] = b[i - Len(a)]
        /\ ~(j <= Len(a)) => j - Len(a) \in 1 .. Len(b) /\ u[j] = b[j - Len(a)]
    BY <1>1, <1>2, <1>3
  <2>2. CASE i <= Len(a) /\ j <= Len(a)
    BY <2>1, <2>2 DEF Once
  <2>3. CASE ~(i <= Len(a)) /\ ~(j <= Len(a))
    <3>1. i - Len(a) = j - Len(a)
      BY <2>1, <2>3 DEF Once
    <3> QED BY <1>1, <3>1
  <2> QED BY <2>1, <2>2, <2>3
<1> QED BY <1>2, <1>3, <1>4

(* A list behind them leads as they do, and shows nothing twice.             *)
LEMMA PinnedLeads ==
  ASSUME NEW q \in Queries, NEW hit \in BOOLEAN, NEW R, NEW rows \in Seq(R), Once(rows),
         NEW P, NEW pins \in Seq(P), Once(pins)
  PROVE  /\ Pinned(rows, pins) \in Seq(R \cup P) /\ Once(Pinned(rows, pins))
         /\ Leading(q, hit, pins) => Leading(q, hit, Pinned(rows, pins))
<1> DEFINE S == ToSet(rows) \ ToSet(pins)
<1>1. PICK t \in Seq(R) : t = Only(rows, S)
  BY OnlyIs
<1>2. PICK held \in [1 .. Len(t) -> 1 .. Len(rows)] :
        /\ \A i \in 1 .. Len(t) : t[i] = rows[held[i]] /\ rows[held[i]] \in S
        /\ \A i, j \in 1 .. Len(t) : i < j => held[i] < held[j]
  <2> HIDE DEF S
  <2>1. rows \in Seq(R)
    OBVIOUS
  <2>2. PICK held \in [1 .. Len(Only(rows, S)) -> 1 .. Len(rows)] :
          /\ \A i \in 1 .. Len(Only(rows, S)) : Only(rows, S)[i] = rows[held[i]] /\ rows[held[i]] \in S
          /\ \A i, j \in 1 .. Len(Only(rows, S)) : i < j => held[i] < held[j]
    BY ONLY <2>1, OnlyIs
  <2> QED BY ONLY <1>1, <2>2
<1>3. Once(t)
  <2> SUFFICES ASSUME NEW i \in 1 .. Len(t), NEW j \in 1 .. Len(t), t[i] = t[j], i # j PROVE FALSE
    BY DEF Once
  <2>1. held[i] = held[j]
    <3>1. t[i] = rows[held[i]] /\ t[j] = rows[held[j]]
      BY <1>2
    <3>2. held[i] \in 1 .. Len(rows) /\ held[j] \in 1 .. Len(rows)
      BY <1>2
    <3>3. \A a, b \in 1 .. Len(rows) : rows[a] = rows[b] => a = b
      BY DEF Once
    <3> QED BY <3>1, <3>2, <3>3
  <2>2. i < j \/ j < i
    OBVIOUS
  <2>3. held[i] \in Int /\ held[j] \in Int
    BY <1>2
  <2>4. held[i] < held[j] \/ held[j] < held[i]
    BY <1>2, <2>2
  <2> QED BY ONLY <2>1, <2>3, <2>4
<1>4. \A i \in 1 .. Len(t), j \in 1 .. Len(pins) : t[i] # pins[j]
  <2> SUFFICES ASSUME NEW i \in 1 .. Len(t), NEW j \in 1 .. Len(pins), t[i] = pins[j] PROVE FALSE
    OBVIOUS
  <2>1. t[i] \in S
    BY ONLY <1>2
  <2>2. pins[j] \in ToSet(pins)
    <3>1. DOMAIN pins = 1 .. Len(pins)
      OBVIOUS
    <3> QED BY ONLY <3>1 DEF ToSet
  <2> QED BY ONLY <2>1, <2>2, t[i] = pins[j] DEF S
<1> HIDE DEF S
<1>5. PICK u : u = pins \o t /\ Pinned(rows, pins) = u
  BY <1>1 DEF Pinned, S
<1>6. Len(pins) \in Nat /\ Len(t) \in Nat
  OBVIOUS
<1>7. /\ u \in Seq(R \cup P) /\ Len(u) = Len(pins) + Len(t) /\ Once(u)
      /\ \A i \in 1 .. Len(u) : u[i] = IF i <= Len(pins) THEN pins[i] ELSE t[i - Len(pins)]
  <2>1. PICK V : V = R \cup P
    OBVIOUS
  <2>2. pins \in Seq(V) /\ t \in Seq(V)
    BY <2>1
  <2>3. PICK v : v = pins \o t
    OBVIOUS
  <2>4. /\ v \in Seq(V) /\ Len(v) = Len(pins) + Len(t) /\ Once(v)
        /\ \A i \in 1 .. Len(pins) + Len(t) : v[i] = IF i <= Len(pins) THEN pins[i] ELSE t[i - Len(pins)]
    BY <1>3, <1>4, <2>2, <2>3, JoinedOnce
  <2> QED BY <1>5, <2>1, <2>3, <2>4
<1>9. ASSUME Leading(q, hit, pins) PROVE Leading(q, hit, u)
  <2>1. \A i \in 1 .. Len(pins) : i \in 1 .. Len(u) /\ u[i] = pins[i]
    BY <1>6, <1>7
  <2>2. Len(u) \in Nat /\ Len(pins) <= Len(u) /\ u = [i \in 1 .. Len(u) |-> u[i]]
    BY <1>6, <1>7
  <2>3. Len(pins) >= 1 => Len(u) >= 1 /\ 1 \in 1 .. Len(pins)
    BY <1>6, <2>2
  <2> QED BY <1>9, <2>1, <2>2, <2>3 DEF Leading
<1> QED BY <1>5, <1>7, <1>9

(* The lesser of two numbers.                                                *)
LEMMA LesserOfTwo ==
  ASSUME NEW a \in Int, NEW b \in Int
  PROVE  Min({a, b}) = IF a <= b THEN a ELSE b
<1>1. \E x \in {a, b} : \A y \in {a, b} : x <= y
  OBVIOUS
<1>2. Min({a, b}) \in {a, b} /\ \A y \in {a, b} : Min({a, b}) <= y
  BY <1>1 DEF Min
<1> QED BY <1>2

(* Nor does what is cut off behind the second row change it.                 *)
LEMMA CutLeads ==
  ASSUME NEW q \in Queries, NEW hit \in BOOLEAN, NEW R, NEW rows \in Seq(R), Once(rows), NEW n \in Nat \ {0, 1}
  PROVE  LET cut == SubSeq(rows, 1, Min({n, Len(rows)}))
         IN  /\ cut \in Seq(R) /\ Once(cut) /\ Len(cut) = Min({n, Len(rows)})
             /\ (rows # <<>> => cut # <<>>)
             /\ Leading(q, hit, rows) => Leading(q, hit, cut)
<1>1. PICK l \in Nat : l = Len(rows)
  OBVIOUS
<1>2. PICK m \in Nat : m = Min({n, l}) /\ m = IF n <= l THEN n ELSE l
  <2>1. Min({n, l}) = IF n <= l THEN n ELSE l
    BY LesserOfTwo
  <2> QED BY <2>1
<1>3. PICK c : c = SubSeq(rows, 1, m)
  OBVIOUS
<1>4. m <= l /\ (l >= 1 => m >= 1) /\ (l >= 2 => m >= 2)
  BY <1>2
<1>5. c \in Seq(R) /\ Len(c) = m /\ \A i \in 1 .. m : i \in 1 .. l /\ c[i] = rows[i]
  <2>1. c = [i \in 1 .. m |-> rows[i]]
    BY <1>1, <1>3, <1>4
  <2>2. \A i \in 1 .. m : i \in 1 .. l /\ rows[i] \in R
    BY <1>1, <1>4
  <2> QED BY <2>1, <2>2
<1>6. Once(c)
  BY <1>1, <1>5 DEF Once
<1>7. rows # <<>> => c # <<>>
  <2>1. rows # <<>> => l >= 1
    BY <1>1
  <2> QED BY <1>4, <1>5, <2>1
<1>8. ASSUME Leading(q, hit, rows) PROVE Leading(q, hit, c)
  <2>1. c = [i \in 1 .. Len(c) |-> c[i]] /\ Len(c) \in Nat
    BY <1>5
  <2>2. l >= 1 => 1 \in 1 .. m
    BY <1>4
  <2>3. ASSUME NEW i \in 1 .. l, i <= 2 PROVE i \in 1 .. m /\ c[i] = rows[i]
    <3>1. i \in 1 .. m
      BY <1>2, <2>3
    <3> QED BY <1>5, <3>1
  <2> QED BY <1>1, <1>4, <1>5, <1>8, <2>1, <2>2, <2>3 DEF Leading
<1> QED BY <1>1, <1>2, <1>3, <1>5, <1>6, <1>7, <1>8

(* What a query can show.                                                    *)
ValuesOf(q) ==
  ToSet(q.prefix) \cup ToSet(q.fuzzy) \cup ToSet(q.sure) \cup ToSet(q.news) \cup ToSet(q.latest) \cup ToSet(q.pages)
    \cup ToSet(q.help) \cup ToSet(q.web) \cup ToSet(q.webnews) \cup {q.token, q.named[1], "accounts"}
InHouseRows(q) == [kind : {"symbol", "news", "page", "help"}, of : ValuesOf(q)]
AnyRows(q) == [kind : {"symbol", "news", "page", "help", "web", "opt", "news of"}, of : ValuesOf(q)]

(* Its lists are of that,                                                    *)
LEMMA ListsAre ==
  ASSUME NEW q \in Queries
  PROVE  {q.prefix, q.fuzzy, q.sure, q.news, q.latest, q.pages, q.help, q.web, q.webnews} \subseteq Seq(ValuesOf(q))
<1>1. PICK V : V = ValuesOf(q)
  OBVIOUS
<1>2. ASSUME NEW s, IsList(s), ToSet(s) \subseteq V PROVE s \in Seq(V)
  <2>1. PICK W : W = ToSet(s)
    OBVIOUS
  <2>2. s \in Seq(W) /\ W \subseteq V
    BY <1>2, <2>1 DEF IsList
  <2> QED BY ONLY <2>2
<1>3. {q.prefix, q.fuzzy, q.sure, q.news, q.latest, q.pages, q.help, q.web, q.webnews} \subseteq Seq(V)
  <2>1. /\ ToSet(q.prefix) \subseteq V /\ ToSet(q.fuzzy) \subseteq V /\ ToSet(q.sure) \subseteq V
        /\ ToSet(q.news) \subseteq V /\ ToSet(q.latest) \subseteq V /\ ToSet(q.pages) \subseteq V
        /\ ToSet(q.help) \subseteq V /\ ToSet(q.web) \subseteq V /\ ToSet(q.webnews) \subseteq V
    BY <1>1 DEF ValuesOf
  <2> QED BY <1>2, <2>1, QueriesAssumption
<1> QED BY <1>1, <1>3

(* and so are the rows that are made of them.                                *)
LEMMA RowsAre ==
  ASSUME NEW K, NEW kind \in K, NEW V, NEW s \in Seq(V)
  PROVE  /\ RowsOf(kind, s) \in Seq([kind : K, of : V]) /\ Len(RowsOf(kind, s)) = Len(s)
         /\ \A i \in 1 .. Len(s) : RowsOf(kind, s)[i] = Row(kind, s[i])
<1>1. PICK n \in Nat : n = Len(s) /\ DOMAIN s = 1 .. n
  OBVIOUS
<1>2. \A i \in 1 .. n : Row(kind, s[i]) \in [kind : K, of : V]
  BY <1>1 DEF Row
<1>3. RowsOf(kind, s) = [i \in 1 .. n |-> Row(kind, s[i])]
  BY <1>1 DEF RowsOf
<1> QED BY <1>1, <1>2, <1>3

(* Lists of equal weight can be fused.                                       *)
LEMMA EqualFuses ==
  ASSUME NEW R, NEW n \in Nat, NEW lists \in [1 .. n -> Seq(R)]
  PROVE  CanFuse(Equal(lists), n, R)
BY DEF CanFuse, Equal

(* What the houses know of a query, fused.                                   *)
LEMMA LocalIs ==
  ASSUME NEW q \in Queries, NEW prefix \in Seq(ValuesOf(q)), NEW fuzzy \in Seq(ValuesOf(q))
  PROVE  LET local == Fused(Equal(<<RowsOf("symbol", prefix), RowsOf("symbol", fuzzy),
                                    RowsOf("news", q.news), RowsOf("page", q.pages), RowsOf("help", q.help)>>))
         IN local \in Seq(AnyRows(q)) /\ Once(local)
<1>1. PICK V, K, R : V = ValuesOf(q) /\ K = {"symbol", "news", "page", "help", "web", "opt", "news of"}
                     /\ R = [kind : K, of : V] /\ R = AnyRows(q)
  BY DEF AnyRows
<1>2. PICK a \in Seq(V), b \in Seq(V), c \in Seq(V), d \in Seq(V), e \in Seq(V) :
        a = prefix /\ b = fuzzy /\ c = q.news /\ d = q.pages /\ e = q.help
  BY <1>1, ListsAre
<1>3. PICK g \in Seq(R), h \in Seq(R), i \in Seq(R), j \in Seq(R), k \in Seq(R) :
        g = RowsOf("symbol", a) /\ h = RowsOf("symbol", b) /\ i = RowsOf("news", c) /\ j = RowsOf("page", d) /\ k = RowsOf("help", e)
  <2>1. "symbol" \in K /\ "news" \in K /\ "page" \in K /\ "help" \in K
    BY <1>1
  <2>2. RowsOf("symbol", a) \in Seq(R) /\ RowsOf("symbol", b) \in Seq(R)
    BY <1>1, <2>1, RowsAre
  <2>3. RowsOf("news", c) \in Seq(R) /\ RowsOf("page", d) \in Seq(R) /\ RowsOf("help", e) \in Seq(R)
    BY <1>1, <2>1, RowsAre
  <2> QED BY <2>2, <2>3
<1>4. PICK lists \in [1 .. 5 -> Seq(R)] : lists = <<g, h, i, j, k>>
  <2>1. PICK W, l : W = Seq(R) /\ l = <<g, h, i, j, k>>
    OBVIOUS
  <2>2. g \in W /\ h \in W /\ i \in W /\ j \in W /\ k \in W
    BY <2>1
  <2>3. l \in [1 .. 5 -> W]
    <3>1. l = [x \in 1 .. 5 |-> l[x]]
      BY <2>1
    <3>2. \A x \in 1 .. 5 : l[x] \in W
      <4>1. l[1] \in W /\ l[2] \in W /\ l[3] \in W /\ l[4] \in W /\ l[5] \in W
        BY ONLY <2>1, <2>2
      <4>2. \A x \in 1 .. 5 : x = 1 \/ x = 2 \/ x = 3 \/ x = 4 \/ x = 5
        OBVIOUS
      <4> QED BY ONLY <4>1, <4>2
    <3> QED BY ONLY <3>1, <3>2
  <2> QED BY <2>1, <2>3
<1>5. CanFuse(Equal(lists), 5, R)
  BY EqualFuses
<1>6. PICK groups : groups = Equal(lists) /\ CanFuse(groups, 5, R)
  BY <1>5
<1>7. Fused(groups) \in Seq(R) /\ Once(Fused(groups))
  BY <1>6, FusedIs
<1> QED BY <1>1, <1>2, <1>3, <1>4, <1>6, <1>7

(* What a search that is under way holds.                                    *)
SearchFields == {"query", "page", "at", "hit", "sure", "prefix", "fuzzy", "moved"}
Searching(f) ==
  /\ f = [x \in SearchFields |-> f[x]]
  /\ f.query \in Queries /\ f.page \in 0 .. MaxPage /\ f.hit \in BOOLEAN /\ f.moved \in BOOLEAN
  /\ {f.sure, f.prefix, f.fuzzy} \subseteq Seq(ValuesOf(f.query))

(* The list below the omnibox leads with what is named, where no symbol or   *)
(* contract is asked for; it shows nothing twice, and is empty only where    *)
(* more symbols are known than those that are built in.                      *)
LEMMA AnswerLeads ==
  ASSUME NEW held, Searching(held), NEW q \in Queries, q = held.query, NEW hit \in BOOLEAN, hit = held.hit
  PROVE  /\ Answer(held) \in Seq(AnyRows(q)) /\ Once(Answer(held))
         /\ q.kind = "plain" => Leading(q, hit, Answer(held))
         /\ (Answer(held) = <<>> => universe \ SUPPLEMENT # {})
<1> DEFINE local == Fused(Equal(<<RowsOf("symbol", held.prefix), RowsOf("symbol", held.fuzzy),
                                  RowsOf("news", q.news), RowsOf("page", q.pages), RowsOf("help", q.help)>>))
           both == <<[rows |-> local, weight |-> 2], [rows |-> RowsOf("web", q.web), weight |-> 1]>>
           plain == Pinned(Fused(both), PinsOf(q, hit))
           heads == <<Row("news of", q.token)>> \o ExactOf(q, TRUE) \o RowsOf("news", q.news)
           opt == <<Row("opt", q.token)>> \o ExactOf(q, TRUE)
           whole == CASE q.kind = "news" /\ hit -> heads [] q.kind = "opt" /\ hit -> opt [] OTHER -> plain
<1>1. PICK V, R : V = ValuesOf(q) /\ R = AnyRows(q)
                  /\ R = [kind : {"symbol", "news", "page", "help", "web", "opt", "news of"}, of : V]
  BY DEF AnyRows
<1>2. Row("symbol", q.token) \in R /\ Row("page", q.named[1]) \in R /\ Row("page", "accounts") \in R
      /\ Row("news of", q.token) \in R /\ Row("opt", q.token) \in R
  BY <1>1 DEF Row, ValuesOf
<1>3. plain \in Seq(R) /\ Once(plain) /\ (q.kind = "plain" => Leading(q, hit, plain))
  <2>1. PICK l \in Seq(R) : l = local /\ Once(l)
    <3>1. PICK a \in Seq(ValuesOf(q)), b \in Seq(ValuesOf(q)) : a = held.prefix /\ b = held.fuzzy
      BY DEF Searching
    <3> QED BY <1>1, <3>1, LocalIs
  <2>2. PICK w \in Seq(R) : w = RowsOf("web", q.web)
    <3>1. PICK t \in Seq(V) : t = q.web
      BY <1>1, ListsAre
    <3>2. PICK K : K = {"symbol", "news", "page", "help", "web", "opt", "news of"}
      OBVIOUS
    <3>3. "web" \in K
      BY <3>2
    <3>4. RowsOf("web", t) \in Seq([kind : K, of : V])
      BY <3>3, RowsAre
    <3> QED BY <1>1, <3>1, <3>2, <3>4
  <2>3. PICK groups : groups = <<[rows |-> l, weight |-> 2], [rows |-> w, weight |-> 1]>>
    OBVIOUS
  <2>4. CanFuse(groups, 2, R)
    BY <2>3 DEF CanFuse
  <2>5. PICK f \in Seq(R) : f = Fused(groups) /\ Once(f)
    BY <2>4, FusedIs
  <2>6. PICK P : P = {Row("symbol", q.token)} \cup PageNamed(q)
    OBVIOUS
  <2>10. PICK pins \in Seq(P) : pins = PinsOf(q, hit)
    BY <2>6, PinsOfLead
  <2>7. Once(pins) /\ (q.kind = "plain" => Leading(q, hit, pins))
    BY <2>10, PinsOfLead
  <2>8. Pinned(f, pins) \in Seq(R \cup P) /\ Once(Pinned(f, pins)) /\ (q.kind = "plain" => Leading(q, hit, Pinned(f, pins)))
    BY <2>5, <2>7, PinnedLeads
  <2>9. R \cup P = R
    BY <1>2, <2>6 DEF PageNamed
  <2> QED BY <2>1, <2>2, <2>3, <2>5, <2>8, <2>9, <2>10
<1>4. /\ heads \in Seq(R) /\ Once(heads) /\ heads # <<>>
      /\ opt \in Seq(R) /\ Once(opt) /\ opt # <<>>
  <2>1. PICK x, y, z : x = <<Row("news of", q.token)>> /\ y = <<Row("symbol", q.token)>> /\ z = <<Row("opt", q.token)>>
    OBVIOUS
  <2>2. /\ x \in Seq(R) /\ Len(x) = 1 /\ x[1] = Row("news of", q.token)
        /\ y \in Seq(R) /\ Len(y) = 1 /\ y[1] = Row("symbol", q.token)
        /\ z \in Seq(R) /\ Len(z) = 1 /\ z[1] = Row("opt", q.token)
        /\ Once(x) /\ Once(y) /\ Once(z)
    <3>1. PICK a \in R, b \in R, c \in R :
            a = Row("news of", q.token) /\ b = Row("symbol", q.token) /\ c = Row("opt", q.token)
      BY <1>2
    <3>2. <<a>> \in Seq(R) /\ Len(<<a>>) = 1 /\ <<a>>[1] = a /\ Once(<<a>>)
      BY OneRow
    <3>3. <<b>> \in Seq(R) /\ Len(<<b>>) = 1 /\ <<b>>[1] = b /\ Once(<<b>>)
      BY OneRow
    <3>4. <<c>> \in Seq(R) /\ Len(<<c>>) = 1 /\ <<c>>[1] = c /\ Once(<<c>>)
      BY OneRow
    <3> QED BY <2>1, <3>1, <3>2, <3>3, <3>4
  <2>3. ExactOf(q, TRUE) = y
    BY <2>1 DEF ExactOf
  <2>4. PICK t \in Seq(V) : t = q.news
    BY <1>1, ListsAre
  <2>5. \A i, j \in 1 .. Len(t) : t[i] = t[j] => i = j
    BY <2>4, QueriesAssumption
  <2>6. PICK n \in Seq(R) : /\ n = RowsOf("news", t) /\ Len(n) = Len(t)
                            /\ \A i \in 1 .. Len(t) : n[i] = Row("news", t[i])
    <3>1. PICK K : K = {"symbol", "news", "page", "help", "web", "opt", "news of"}
      OBVIOUS
    <3>5. PICK k \in K : k = "news"
      BY <3>1
    <3>2. RowsOf(k, t) \in Seq([kind : K, of : V])
      BY RowsAre
    <3>3. Len(RowsOf(k, t)) = Len(t)
      BY RowsAre
    <3>4. \A i \in 1 .. Len(t) : RowsOf(k, t)[i] = Row(k, t[i])
      <4>1. DOMAIN t = 1 .. Len(t)
        OBVIOUS
      <4> QED BY <4>1 DEF RowsOf
    <3> QED BY <1>1, <3>1, <3>2, <3>3, <3>4, <3>5
  <2>7. Once(n)
    <3>1. \A x1, x2 : Row("news", x1) = Row("news", x2) => x1 = x2
      BY DEF Row
    <3> QED BY <2>5, <2>6, <3>1 DEF Once
  <2>8. \A k1, k2, v1, v2 : k1 # k2 => Row(k1, v1) # Row(k2, v2)
    BY DEF Row
  <2>9. PICK h \in Seq(R) : h = x \o y /\ Once(h) /\ Len(h) = 2
                            /\ \A i \in 1 .. 2 : h[i] = IF i <= 1 THEN x[i] ELSE y[i - 1]
    <3>1. \A i \in 1 .. Len(y), j \in 1 .. Len(x) : y[i] # x[j]
      <4>1. y[1] # x[1]
        <5>1. Row("symbol", q.token) # Row("news of", q.token)
          BY DEF Row
        <5>2. y[1] = Row("symbol", q.token) /\ x[1] = Row("news of", q.token)
          BY <2>2
        <5> QED BY ONLY <5>1, <5>2
      <4>2. \A i \in 1 .. 1 : i = 1
        OBVIOUS
      <4>3. Len(x) = 1 /\ Len(y) = 1
        BY <2>2
      <4> QED BY ONLY <4>1, <4>2, <4>3
    <3>2. /\ x \o y \in Seq(R) /\ Once(x \o y) /\ Len(x \o y) = Len(x) + Len(y)
          /\ \A i \in 1 .. Len(x) + Len(y) : (x \o y)[i] = IF i <= Len(x) THEN x[i] ELSE y[i - Len(x)]
      BY ONLY <2>2, <3>1, JoinedOnce
    <3>3. Len(x) + Len(y) = 2 /\ Len(x) = 1
      <4>1. Len(x) = 1 /\ Len(y) = 1
        BY <2>2
      <4> QED BY ONLY <4>1
    <3> QED BY ONLY <3>2, <3>3
  <2>10. \A i \in 1 .. 2 : h[i] = Row("news of", q.token) \/ h[i] = Row("symbol", q.token)
    <3>1. \A i \in 1 .. 2 : i = 1 \/ i = 2
      OBVIOUS
    <3>2. h[1] = x[1] /\ h[2] = y[1]
      BY ONLY <2>9
    <3> QED BY ONLY <2>2, <3>1, <3>2
  <2>11. \A i \in 1 .. Len(n), j \in 1 .. Len(h) : n[i] # h[j]
    <3> SUFFICES ASSUME NEW i \in 1 .. Len(n), NEW j \in 1 .. 2 PROVE n[i] # h[j]
      BY <2>9
    <3>1. h[j] = Row("news of", q.token) \/ h[j] = Row("symbol", q.token)
      BY <2>10
    <3>2. n[i] = Row("news", t[i])
      BY <2>6
    <3>3. "news of" # "news" /\ "symbol" # "news"
      OBVIOUS
    <3> QED BY ONLY <2>8, <3>1, <3>2, <3>3
  <2>12. h \o n \in Seq(R) /\ Once(h \o n) /\ Len(h \o n) = Len(h) + Len(n)
    BY <2>7, <2>9, <2>11, JoinedOnce
  <2>13. \A i \in 1 .. Len(y), j \in 1 .. Len(z) : y[i] # z[j]
    <3>1. y[1] # z[1]
      <4>1. Row("symbol", q.token) # Row("opt", q.token)
        BY DEF Row
      <4>2. y[1] = Row("symbol", q.token) /\ z[1] = Row("opt", q.token)
        BY <2>2
      <4> QED BY ONLY <4>1, <4>2
    <3>2. \A i \in 1 .. 1 : i = 1
      OBVIOUS
    <3>3. Len(z) = 1 /\ Len(y) = 1
      BY <2>2
    <3> QED BY ONLY <3>1, <3>2, <3>3
  <2>14. z \o y \in Seq(R) /\ Once(z \o y) /\ Len(z \o y) = Len(z) + Len(y)
    BY <2>2, <2>13, JoinedOnce
  <2>15. heads = h \o n /\ opt = z \o y
    BY <2>1, <2>3, <2>4, <2>6, <2>9
  <2>16. Len(n) \in Nat /\ Len(h \o n) # 0 /\ Len(z \o y) # 0
    <3>1. Len(n) \in Nat
      OBVIOUS
    <3>2. Len(h) = 2 /\ Len(z) = 1 /\ Len(y) = 1
      BY <2>2, <2>9
    <3>3. Len(h \o n) = Len(h) + Len(n) /\ Len(z \o y) = Len(z) + Len(y)
      BY <2>12, <2>14
    <3> QED BY ONLY <3>1, <3>2, <3>3
  <2> HIDE DEF heads, opt
  <2> QED BY <2>12, <2>14, <2>15, <2>16
<1> HIDE DEF heads, opt, plain, local, both
<1>5. /\ whole \in Seq(R) /\ Once(whole) /\ (q.kind = "plain" => Leading(q, hit, whole))
  <2>1. CASE q.kind = "news" /\ hit
    BY <1>4, <2>1
  <2>2. CASE q.kind = "opt" /\ hit
    BY <1>4, <2>2
  <2>3. CASE ~(q.kind = "news" /\ hit) /\ ~(q.kind = "opt" /\ hit)
    <3>1. whole = plain
      BY <2>3
    <3> QED BY <1>3, <3>1
  <2> QED BY <2>1, <2>2, <2>3
<1>6. Answer(held) = IF whole = <<>> /\ NoneSynced THEN <<Row("page", "accounts")>>
                     ELSE SubSeq(whole, 1, Min({LIMIT, Len(whole)}))
  <2>1. RowsFor(held) = whole
    BY DEF RowsFor, local, both, plain, heads, opt
  <2> HIDE DEF whole
  <2> QED BY <2>1 DEF Answer
<1> HIDE DEF whole
<1>9. universe \subseteq SUPPLEMENT => NoneSynced
  <2> SUFFICES ASSUME universe \subseteq SUPPLEMENT PROVE NoneSynced
    OBVIOUS
  <2>1. PICK U : U = universe
    OBVIOUS
  <2>2. IsFiniteSet(SUPPLEMENT) /\ HINT_SLACK \in Nat
    BY RoomAssumption
  <2>3. Cardinality(U) <= Cardinality(SUPPLEMENT)
    BY <2>1, <2>2, FS_Subset
  <2>4. IsFiniteSet(U)
    BY <2>1, <2>2, FS_Subset
  <2>5. Cardinality(U) \in Nat /\ Cardinality(SUPPLEMENT) \in Nat
    BY <2>2, <2>4, FS_CardinalityType
  <2>6. Cardinality(U) <= Cardinality(SUPPLEMENT) + HINT_SLACK
    BY ONLY <2>2, <2>3, <2>5
  <2> QED BY <2>1, <2>6 DEF NoneSynced
<1>7. CASE whole = <<>> /\ NoneSynced
  <2>1. PICK a : a = Answer(held) /\ a = <<Row("page", "accounts")>>
    BY <1>6, <1>7
  <2>2. a \in Seq(R) /\ Once(a) /\ a # <<>> /\ Len(a) = 1 /\ a = [i \in 1 .. 1 |-> a[i]]
    <3>1. PICK r \in R : r = Row("page", "accounts") /\ a = <<r>>
      BY <1>2, <2>1
    <3>2. <<r>> \in Seq(R) /\ Len(<<r>>) = 1 /\ <<r>> # <<>> /\ Once(<<r>>)
      BY OneRow
    <3> QED BY <3>1, <3>2
  <2>3. ASSUME Leading(q, hit, whole) PROVE Leading(q, hit, a)
    <3>1. Len(whole) = 0
      BY <1>7
    <3>2. ~(q.named # <<>> /\ q.named[2]) /\ ~hit
      BY <2>3, <3>1 DEF Leading
    <3> QED BY <2>2, <3>2 DEF Leading
  <2> QED BY <1>1, <1>5, <2>1, <2>2, <2>3
<1>8. CASE ~(whole = <<>> /\ NoneSynced)
  <2>1. PICK n \in Nat \ {0, 1} : n = LIMIT
    BY RoomAssumption
  <2>2. PICK w \in Seq(R) : w = whole
    BY <1>5
  <2>3. Once(w)
    BY <1>5, <2>2
  <2>4. PICK a : a = SubSeq(w, 1, Min({n, Len(w)}))
    OBVIOUS
  <2>5. a \in Seq(R) /\ Once(a) /\ (w # <<>> => a # <<>>) /\ (Leading(q, hit, w) => Leading(q, hit, a))
    BY <2>3, <2>4, CutLeads
  <2>6. Answer(held) = a
    BY <1>6, <1>8, <2>1, <2>2, <2>4
  <2> QED BY <1>1, <1>5, <1>8, <1>9, <2>2, <2>5, <2>6
<1> QED BY <1>7, <1>8

(* What the house has, on the first page: the same, and nothing of the web.  *)
LEMMA InHouseLeads ==
  ASSUME NEW held, Searching(held), NEW q \in Queries, q = held.query, NEW hit \in BOOLEAN, hit = (q.token \in universe)
  PROVE  /\ InHouse(held) \in Seq(InHouseRows(q)) /\ Once(InHouse(held))
         /\ q.kind = "plain" => Leading(q, hit, InHouse(held))
<1> DEFINE symbols == IF q.kind = "news" THEN <<>>
                      ELSE held.prefix \o Only(held.fuzzy, ToSet(held.fuzzy) \ ToSet(held.prefix))
           more == IF Featured(held) = <<>> THEN <<>> ELSE Only(q.latest, ToSet(q.latest) \ ToSet(q.news))
           heads == IF q.kind = "news" /\ held.hit THEN q.latest ELSE q.news \o more
           pins == PinsOf(q, hit)
<1>1. PICK V, K, R : V = ValuesOf(q) /\ K = {"symbol", "news", "page", "help"} /\ R = [kind : K, of : V] /\ R = InHouseRows(q)
  BY DEF InHouseRows
<1>2. <<>> \in Seq(V)
  OBVIOUS
<1>3. symbols \in Seq(V)
  <2>1. PICK a \in Seq(V), b \in Seq(V) : a = held.prefix /\ b = held.fuzzy
    BY <1>1 DEF Searching
  <2>2. Only(b, ToSet(b) \ ToSet(a)) \in Seq(V)
    BY OnlyIs
  <2>3. PICK c \in Seq(V) : c = Only(held.fuzzy, ToSet(held.fuzzy) \ ToSet(held.prefix))
    BY <2>1, <2>2
  <2>4. a \o c \in Seq(V)
    OBVIOUS
  <2> QED BY <1>2, <2>1, <2>3, <2>4
<1>4. heads \in Seq(V)
  <2>1. PICK a \in Seq(V), b \in Seq(V) : a = q.news /\ b = q.latest
    BY <1>1, ListsAre
  <2>2. Only(b, ToSet(q.latest) \ ToSet(q.news)) \in Seq(V)
    BY OnlyIs
  <2>3. PICK c \in Seq(V) : c = more
    BY <1>2, <2>1, <2>2
  <2>4. a \o c \in Seq(V)
    OBVIOUS
  <2> QED BY <2>1, <2>3, <2>4
<1>5. PICK a \in Seq(V), b \in Seq(V), c \in Seq(V), d \in Seq(V) : a = symbols /\ b = heads /\ c = q.pages /\ d = q.help
  <2> HIDE DEF symbols, heads
  <2> QED BY <1>1, <1>3, <1>4, ListsAre
<1>6. PICK g \in Seq(R), h \in Seq(R), i \in Seq(R), j \in Seq(R) :
        g = RowsOf("symbol", a) /\ h = RowsOf("news", b) /\ i = RowsOf("page", c) /\ j = RowsOf("help", d)
  <2>1. "symbol" \in K /\ "news" \in K /\ "page" \in K /\ "help" \in K
    BY <1>1
  <2>2. RowsOf("symbol", a) \in Seq(R) /\ RowsOf("news", b) \in Seq(R)
    BY <1>1, <2>1, RowsAre
  <2>3. RowsOf("page", c) \in Seq(R) /\ RowsOf("help", d) \in Seq(R)
    BY <1>1, <2>1, RowsAre
  <2> QED BY <2>2, <2>3
<1>7. PICK lists \in [1 .. 4 -> Seq(R)] : lists = <<g, h, i, j>>
  <2>1. PICK W, l : W = Seq(R) /\ l = <<g, h, i, j>>
    OBVIOUS
  <2>2. g \in W /\ h \in W /\ i \in W /\ j \in W
    BY <2>1
  <2>3. l \in [1 .. 4 -> W]
    <3>1. l = [x \in 1 .. 4 |-> l[x]]
      BY <2>1
    <3>2. \A x \in 1 .. 4 : l[x] \in W
      <4>1. l[1] \in W /\ l[2] \in W /\ l[3] \in W /\ l[4] \in W
        BY ONLY <2>1, <2>2
      <4>2. \A x \in 1 .. 4 : x = 1 \/ x = 2 \/ x = 3 \/ x = 4
        OBVIOUS
      <4> QED BY ONLY <4>1, <4>2
    <3> QED BY ONLY <3>1, <3>2
  <2> QED BY <2>1, <2>3
<1>8. CanFuse(Equal(lists), 4, R)
  BY EqualFuses
<1>9. PICK groups : groups = Equal(lists) /\ CanFuse(groups, 4, R)
  BY <1>8
<1>10. PICK f \in Seq(R) : f = Fused(groups) /\ Once(f)
  BY <1>9, FusedIs
<1>11. Row("symbol", q.token) \in R /\ Row("page", q.named[1]) \in R
  BY <1>1 DEF Row, ValuesOf
<1>12. pins \in Seq(R) /\ Once(pins) /\ (q.kind = "plain" => Leading(q, hit, pins))
  <2>1. PICK P : P = {Row("symbol", q.token)} \cup PageNamed(q) /\ P \subseteq R
    BY <1>11 DEF PageNamed
  <2>2. PICK p \in Seq(P) : p = PinsOf(q, hit) /\ Once(p) /\ (q.kind = "plain" => Leading(q, hit, p))
    BY <2>1, PinsOfLead
  <2>3. p \in Seq(R)
    BY <2>1
  <2> QED BY <2>2, <2>3
<1> HIDE DEF pins
<1>13. PICK t \in Seq(R) : t = pins /\ Once(t)
  BY <1>12
<1>14. Pinned(f, t) \in Seq(R \cup R) /\ Once(Pinned(f, t)) /\ (Leading(q, hit, t) => Leading(q, hit, Pinned(f, t)))
  BY <1>10, <1>13, PinnedLeads
<1>15. InHouse(held) = Pinned(f, t)
  <2>1. InHouse(held) = Pinned(Fused(Equal(<<RowsOf("symbol", symbols), RowsOf("news", heads),
                                          RowsOf("page", q.pages), RowsOf("help", q.help)>>)), pins)
    BY DEF InHouse, pins
  <2> HIDE DEF symbols, heads
  <2> QED BY <1>5, <1>6, <1>7, <1>9, <1>10, <1>13, <2>1
<1>16. R \cup R = R
  OBVIOUS
<1> QED BY <1>1, <1>12, <1>13, <1>14, <1>15, <1>16

(* The surest of the symbols that are found is one of them.                  *)
LEMMA SurestIs ==
  ASSUME NEW V, NEW s \in Seq(V), NEW U
  PROVE  SurestOf(Only(s, U)) \in Seq(V) /\ ToSet(SurestOf(Only(s, U))) \subseteq U
<1>3. PICK k \in Seq(V) : k = Only(s, U) /\ \A i \in 1 .. Len(k) : k[i] \in U
  <2>2. PICK k \in Seq(V) : k = Only(s, U)
    BY OnlyIs
  <2>3. \E held \in [1 .. Len(k) -> 1 .. Len(s)] : \A i \in 1 .. Len(k) : k[i] = s[held[i]] /\ s[held[i]] \in U
    <3>1. \E held \in [1 .. Len(Only(s, U)) -> 1 .. Len(s)] :
            /\ \A i \in 1 .. Len(Only(s, U)) : Only(s, U)[i] = s[held[i]] /\ s[held[i]] \in U
            /\ \A i, j \in 1 .. Len(Only(s, U)) : i < j => held[i] < held[j]
            /\ \A i \in 1 .. Len(s) : s[i] \in U => \E n \in 1 .. Len(Only(s, U)) : held[n] = i
      BY OnlyIs
    <3> QED BY <2>2, <3>1
  <2> QED BY <2>2, <2>3
<1>4. PICK m : m = Min({1, Len(k)}) /\ m \in 0 .. Len(k)
  <2>1. PICK l \in Nat : l = Len(k)
    OBVIOUS
  <2>2. Min({1, l}) = IF 1 <= l THEN 1 ELSE l
    BY LesserOfTwo
  <2> QED BY <2>1, <2>2
<1>5. SubSeq(k, 1, m) = [i \in 1 .. m |-> k[i]] /\ \A i \in 1 .. m : i \in 1 .. Len(k)
  <2>1. PICK l \in Nat : l = Len(k)
    OBVIOUS
  <2>2. m \in Nat /\ m <= l /\ \A i \in 1 .. m : i \in 1 .. l
    <3>1. m \in 0 .. l
      BY <1>4, <2>1
    <3> QED BY ONLY l \in Nat, <3>1
  <2>3. SubSeq(k, 1, m) = [i \in 1 .. m |-> k[i]]
    <3>1. SubSeq(k, 1, m) = [i \in 1 .. m - 1 + 1 |-> k[1 + i - 1]]
      BY SubSeqProperties, <2>1, <2>2
    <3> QED BY <2>2, <3>1
  <2> QED BY <2>1, <2>2, <2>3
<1>6. PICK f : f = SurestOf(Only(s, U)) /\ f = [i \in 1 .. m |-> k[i]]
  BY <1>3, <1>4, <1>5 DEF SurestOf
<1>7. \A i \in 1 .. m : f[i] \in U /\ f[i] \in V
  <2>1. \A i \in 1 .. m : f[i] = k[i] /\ i \in 1 .. Len(k)
    BY <1>5, <1>6
  <2> QED BY <1>3, <2>1
<1>8. m \in Nat /\ DOMAIN f = 1 .. m
  BY <1>4, <1>6
<1>9. f \in Seq(V)
  BY <1>6, <1>7, <1>8
<1> QED BY <1>6, <1>7, <1>8, <1>9 DEF ToSet

(* So what is named leads, as the property says it.                          *)
LEMMA LeadingIs ==
  ASSUME NEW q \in Queries, NEW hit \in BOOLEAN, NEW R, NEW rows \in Seq(R), Once(rows)
  PROVE  /\ \A i, j \in DOMAIN rows : rows[i] = rows[j] => i = j
         /\ Leading(q, hit, rows) => LeadWithNamed(q, hit, rows)
<1>1. PICK l \in Nat : l = Len(rows) /\ DOMAIN rows = 1 .. l
  OBVIOUS
<1>2. \A i, j \in DOMAIN rows : rows[i] = rows[j] => i = j
  BY <1>1 DEF Once
<1>3. Min({2, l}) = IF 2 <= l THEN 2 ELSE l
  BY LesserOfTwo
<1>4. \A i \in 1 .. l : i <= 2 => i \in 1 .. Min({2, l})
  BY <1>3
<1>5. ASSUME Leading(q, hit, rows), q.named # <<>> /\ q.named[2] PROVE Head(rows) \in PageNamed(q)
  <2>1. rows[1] \in PageNamed(q) /\ l >= 1
    BY <1>1, <1>5 DEF Leading
  <2>2. Head(rows) = rows[1]
    BY <1>1, <2>1
  <2> QED BY <2>1, <2>2
<1>6. ASSUME Leading(q, hit, rows), hit
      PROVE  /\ {Row("symbol", q.token)} \cup PageNamed(q) \subseteq {rows[i] : i \in 1 .. Min({2, Len(rows)})}
             /\ (q.named = <<>> \/ ~q.named[2]) => rows[1] = Row("symbol", q.token)
  <2>1. \A r \in {Row("symbol", q.token)} \cup PageNamed(q) : \E i \in 1 .. l : i <= 2 /\ rows[i] = r
    BY <1>1, <1>6 DEF Leading
  <2>2. \A r \in {Row("symbol", q.token)} \cup PageNamed(q) : \E i \in 1 .. Min({2, l}) : rows[i] = r
    BY <1>4, <2>1
  <2>3. (q.named = <<>> \/ ~q.named[2]) => rows[1] = Row("symbol", q.token)
    BY <1>6 DEF Leading
  <2> QED BY <1>1, <2>2, <2>3
<1> QED BY <1>2, <1>5, <1>6 DEF LeadWithNamed

(* What a search holds while it is under way; and unless the index became    *)
(* another, that is what the index says.                                     *)
SearchInv ==
  found.at # "done" =>
    /\ Searching(found)
    /\ ~found.moved => (found.hit <=> found.query.token \in universe) /\ ToSet(found.sure) \subseteq universe

(* What there is to hold.                                                    *)
LEMMA FieldsAre == {"query", "page", "at", "hit", "sure", "prefix", "fuzzy", "moved"} \subseteq SearchFields
BY DEF SearchFields

(* A search that looked one thing up.                                        *)
NowHolds(f, x, v, at) == [f EXCEPT !.at = at, ![x] = v]
LEMMA LookedUp ==
  ASSUME NEW f, Searching(f), NEW x \in {"sure", "prefix", "fuzzy"},
         NEW V, V = Seq(ValuesOf(f.query)), NEW v \in V, NEW at, NEW g, g = NowHolds(f, x, v, at)
  PROVE  /\ Searching(g) /\ g.query = f.query /\ g.hit = f.hit /\ g.moved = f.moved /\ g[x] = v
         /\ (x # "sure" => g.sure = f.sure)
<1>1. PICK h : h = [f EXCEPT !.at = at]
  OBVIOUS
<1>2. g = [h EXCEPT ![x] = v]
  BY <1>1 DEF NowHolds
<1>3. /\ h = [y \in SearchFields |-> h[y]]
      /\ \A y \in SearchFields \ {"at"} : h[y] = f[y]
  BY <1>1, FieldsAre DEF Searching
<1>4. x \in SearchFields /\ x # "at"
  BY DEF SearchFields
<1>5. /\ g = [y \in SearchFields |-> g[y]] /\ g[x] = v
      /\ \A y \in SearchFields \ {x} : g[y] = h[y]
  BY <1>2, <1>3, <1>4
<1>6. /\ g.query = f.query /\ g.page = f.page /\ g.hit = f.hit /\ g.moved = f.moved
      /\ (x # "sure" => g.sure = f.sure) /\ (x # "prefix" => g.prefix = f.prefix) /\ (x # "fuzzy" => g.fuzzy = f.fuzzy)
  BY <1>3, <1>5, FieldsAre
<1>7. {g.sure, g.prefix, g.fuzzy} \subseteq Seq(ValuesOf(g.query))
  BY <1>5, <1>6 DEF Searching
<1>8. Searching(g)
  BY <1>5, <1>6, <1>7 DEF Searching
<1> QED BY <1>2, <1>5, <1>6, <1>8

(* The next look-up.                                                         *)
LEMMA LookUpKeeps ==
  ASSUME SearchInv, LooksUp
  PROVE  SearchInv'
<1>1. PICK f : f = found /\ f.at # "done"
  BY DEF LooksUp
<1>2. Searching(f) /\ (~f.moved => (f.hit <=> f.query.token \in universe) /\ ToSet(f.sure) \subseteq universe)
  BY <1>1 DEF SearchInv
<1>3. PICK V, q : q = f.query /\ V = ValuesOf(q) /\ q \in Queries
  BY <1>2 DEF Searching
<1>4. PICK U : U = universe
  OBVIOUS
<1>5. PICK a \in Seq(V), b \in Seq(V), c \in Seq(V) : a = q.sure /\ b = q.prefix /\ c = q.fuzzy
  BY <1>3, ListsAre
<1>6. universe' = universe
  BY DEF LooksUp
<1>7. CASE found' = [f EXCEPT !.at = "prefix", !.sure = SurestOf(Only(a, U))]
  <2>1. PICK v \in Seq(V) : v = SurestOf(Only(a, U)) /\ ToSet(v) \subseteq U
    BY SurestIs
  <2>2. PICK x \in {"sure", "prefix", "fuzzy"}, at \in {"prefix", "fuzzy", "out"} : x = "sure" /\ at = "prefix"
    OBVIOUS
  <2>3. PICK g : g = found' /\ g = NowHolds(f, x, v, at)
    BY <1>7, <2>1, <2>2 DEF NowHolds
  <2>4. Searching(g) /\ g.query = f.query /\ g.hit = f.hit /\ g.moved = f.moved /\ g["sure"] = v
    <3>1. PICK W : W = Seq(ValuesOf(f.query)) /\ v \in W /\ Searching(f)
      BY <1>2, <1>3
    <3>2. Searching(g) /\ g.query = f.query /\ g.hit = f.hit /\ g.moved = f.moved /\ g[x] = v
      BY <2>3, <3>1, LookedUp
    <3> QED BY <2>2, <3>2
  <2> QED BY <1>2, <1>4, <1>5, <1>6, <2>1, <2>3, <2>4 DEF SearchInv
<1>8. CASE found' = [f EXCEPT !.at = "fuzzy", !.prefix = Only(b, U)]
  <2>1. PICK v \in Seq(V) : v = Only(b, U)
    BY OnlyIs
  <2>2. PICK x \in {"sure", "prefix", "fuzzy"}, at \in {"prefix", "fuzzy", "out"} : x = "prefix" /\ at = "fuzzy"
    OBVIOUS
  <2>3. PICK g : g = found' /\ g = NowHolds(f, x, v, at)
    BY <1>8, <2>1, <2>2 DEF NowHolds
  <2>4. Searching(g) /\ g.query = f.query /\ g.hit = f.hit /\ g.moved = f.moved /\ g.sure = f.sure
    <3>1. x # "sure"
      BY <2>2
    <3>2. PICK W : W = Seq(ValuesOf(f.query)) /\ v \in W /\ Searching(f)
      BY <1>2, <1>3
    <3> QED BY <2>3, <3>1, <3>2, LookedUp
  <2> QED BY <1>2, <1>4, <1>5, <1>6, <2>1, <2>3, <2>4 DEF SearchInv
<1>9. CASE found' = [f EXCEPT !.at = "out", !.fuzzy = Only(c, U)]
  <2>1. PICK v \in Seq(V) : v = Only(c, U)
    BY OnlyIs
  <2>2. PICK x \in {"sure", "prefix", "fuzzy"}, at \in {"prefix", "fuzzy", "out"} : x = "fuzzy" /\ at = "out"
    OBVIOUS
  <2>3. PICK g : g = found' /\ g = NowHolds(f, x, v, at)
    BY <1>9, <2>1, <2>2 DEF NowHolds
  <2>4. Searching(g) /\ g.query = f.query /\ g.hit = f.hit /\ g.moved = f.moved /\ g.sure = f.sure
    <3>1. x # "sure"
      BY <2>2
    <3>2. PICK W : W = Seq(ValuesOf(f.query)) /\ v \in W /\ Searching(f)
      BY <1>2, <1>3
    <3> QED BY <2>3, <3>1, <3>2, LookedUp
  <2> QED BY <1>2, <1>4, <1>5, <1>6, <2>1, <2>3, <2>4 DEF SearchInv
<1> QED BY <1>1, <1>3, <1>4, <1>5, <1>7, <1>8, <1>9 DEF LooksUp

(* A swap marks the search that it comes upon.                               *)
LEMMA SwapKeeps ==
  ASSUME SearchInv, NEW t, Swaps(t)
  PROVE  SearchInv'
<1>1. CASE found.at = "done"
  BY <1>1 DEF Swaps, SearchInv
<1>2. CASE found.at # "done"
  <2>1. PICK f : f = found
    OBVIOUS
  <2>2. Searching(f) /\ f.moved \in BOOLEAN
    BY <1>2, <2>1 DEF SearchInv, Searching
  <2>6. PICK m \in BOOLEAN : m = (f.moved \/ universe' # universe)
    OBVIOUS
  <2>3. PICK g : g = found' /\ g = [f EXCEPT !["moved"] = m]
    BY <1>2, <2>1, <2>6 DEF Swaps
  <2>4. /\ g = [y \in SearchFields |-> g[y]] /\ g["moved"] = m
        /\ \A y \in SearchFields \ {"moved"} : g[y] = f[y]
    BY <2>2, <2>3, FieldsAre DEF Searching
  <2>5. /\ g.query = f.query /\ g.page = f.page /\ g.hit = f.hit /\ g.sure = f.sure /\ g.prefix = f.prefix
        /\ g.fuzzy = f.fuzzy /\ g.moved = m
    BY <2>4, FieldsAre
  <2>7. Searching(g)
    BY <2>2, <2>4, <2>5 DEF Searching
  <2>8. ~m => ~f.moved /\ universe' = universe
    BY <2>2, <2>6
  <2>9. ~f.moved => (f.hit <=> f.query.token \in universe) /\ ToSet(f.sure) \subseteq universe
    BY <1>2, <2>1 DEF SearchInv
  <2> QED BY <2>3, <2>5, <2>7, <2>8, <2>9 DEF SearchInv
<1> QED BY <1>1, <1>2

(* Every search that is answered shows such a list,                          *)
LEMMA SearchLeads ==
  ASSUME SearchInv, Searches
  PROVE  found'.at = "done" /\ AnswerIsInOrder(found')
<1>1. PICK f : f = found /\ f.at # "done" /\ f.page = 0
  BY DEF Searches
<1>2. Searching(f) /\ (~f.moved => (f.hit <=> f.query.token \in universe))
  BY <1>1 DEF SearchInv
<1>3. PICK q \in Queries, hit \in BOOLEAN : q = f.query /\ hit = f.hit
  BY <1>2 DEF Searching
<1>4. PICK R : R = AnyRows(q)
  OBVIOUS
<1>5. PICK rows \in Seq(R) : rows = Answer(f) /\ Once(rows)
  BY <1>2, <1>3, <1>4, AnswerLeads
<1>6. (q.kind = "plain" => Leading(q, hit, rows)) /\ (rows = <<>> => universe \ SUPPLEMENT # {})
  BY <1>2, <1>3, <1>5, AnswerLeads
<1>7. /\ \A i, j \in DOMAIN rows : rows[i] = rows[j] => i = j
      /\ Leading(q, hit, rows) => LeadWithNamed(q, hit, rows)
  BY <1>5, LeadingIs
<1>8. PICK g : g = found' /\ g = Answered(f, rows, <<>>, <<>>)
  BY <1>1, <1>5 DEF Searches
<1>9. g.query = q /\ g.rows = rows /\ g.page = 0 /\ g.hit = hit /\ g.at = "done" /\ g.moved = f.moved /\ g.featured = <<>>
  BY <1>1, <1>3, <1>8 DEF Answered
<1>10. ~(0 > 0) /\ ToSet(<<>>) = {} /\ universe' = universe
  BY DEF ToSet, Searches
<1>11. AnswerIsInOrder(g)
  <2>1. ~g.moved => (g.hit <=> g.query.token \in universe)
    BY <1>2, <1>3, <1>9
  <2>2. ToSet(g.featured) \subseteq universe
    BY <1>9, <1>10
  <2> QED BY ONLY <1>6, <1>7, <1>9, <1>10, <2>1, <2>2 DEF AnswerIsInOrder
<1> QED BY <1>8, <1>9, <1>11

(* and so does every page.                                                   *)
LEMMA PageLeads ==
  ASSUME SearchInv, TurnsTo
  PROVE  found'.at = "done" /\ AnswerIsInOrder(found')
<1>1. PICK f : f = found /\ f.at # "done" /\ f.page > 0
  BY DEF TurnsTo
<1>2. Searching(f) /\ (~f.moved => (f.hit <=> f.query.token \in universe) /\ ToSet(f.sure) \subseteq universe)
  BY <1>1 DEF SearchInv
<1>20. PICK q \in Queries : q = f.query
  BY <1>2 DEF Searching
<1>3. PICK hit \in BOOLEAN : hit = (q.token \in universe) /\ q = f.query
  <2>1. CASE q.token \in universe
    <3>1. TRUE = (q.token \in universe)
      BY <2>1
    <3> QED BY <1>20, <3>1
  <2>2. CASE q.token \notin universe
    <3>1. FALSE = (q.token \in universe)
      BY <2>2
    <3> QED BY <1>20, <3>1
  <2> QED BY <2>1, <2>2
<1>4. PICK n \in Nat \ {0} : n = f.page
  <2>1. f.page \in 0 .. MaxPage /\ MaxPage \in Nat /\ f.page > 0
    BY <1>1, <1>2, RoomAssumption DEF Searching
  <2> QED BY ONLY <2>1
<1>5. PICK R : R = InHouseRows(q)
  OBVIOUS
<1>6. PICK house \in Seq(R) : house = InHouse(f) /\ Once(house)
  BY <1>2, <1>3, <1>5, InHouseLeads
<1>7. PICK rows : rows = (IF n = 1 THEN SubSeq(house, 1, Min({QUOTA, Len(house)})) ELSE <<>>)
  OBVIOUS
<1>8. PICK m \in Nat \ {0, 1} : m = QUOTA
  BY RoomAssumption
<1>9. /\ SubSeq(house, 1, Min({m, Len(house)})) \in Seq(R) /\ Once(SubSeq(house, 1, Min({m, Len(house)})))
      /\ Leading(q, hit, house) => Leading(q, hit, SubSeq(house, 1, Min({m, Len(house)})))
  BY <1>6, CutLeads
<1>10. rows \in Seq(R) /\ Once(rows) /\ (q.kind = "plain" /\ n = 1 => Leading(q, hit, rows))
  <2>1. <<>> \in Seq(R) /\ Once(<<>>)
    BY DEF Once
  <2>2. q.kind = "plain" => Leading(q, hit, house)
    BY <1>2, <1>3, <1>6, InHouseLeads
  <2> QED BY <1>7, <1>8, <1>9, <2>1, <2>2
<1>11. PICK g, w : g = found' /\ g = Answered(f, rows, w, Featured(f))
  BY <1>1, <1>4, <1>6, <1>7 DEF TurnsTo
<1>12. /\ g.query = q /\ g.page = n /\ g.rows = rows /\ g.featured = Featured(f) /\ g.hit = f.hit /\ g.at = "done"
       /\ g.moved = f.moved
  BY <1>3, <1>4, <1>11 DEF Answered
<1>13. PICK s \in Seq(R) : s = rows /\ Once(s)
  BY <1>10
<1>14. /\ \A i, j \in DOMAIN s : s[i] = s[j] => i = j
       /\ Leading(q, hit, s) => LeadWithNamed(q, hit, s)
  BY <1>13, LeadingIs
<1>15. \A i \in DOMAIN s : s[i].kind # "web"
  <2> SUFFICES ASSUME NEW i \in DOMAIN s PROVE s[i].kind # "web"
    OBVIOUS
  <2>1. s[i] \in R
    OBVIOUS
  <2> QED BY <1>5, <2>1 DEF InHouseRows
<1>16. n # 0 /\ (n <= 1 => n = 1) /\ n > 0
  OBVIOUS
<1>17. g.hit => g.featured = <<q.token>>
  BY <1>3, <1>12 DEF Featured
<1>18. ~g.moved => (g.hit <=> q.token \in universe) /\ ToSet(g.featured) \subseteq universe
  <2> SUFFICES ASSUME ~f.moved PROVE (f.hit <=> q.token \in universe) /\ ToSet(Featured(f)) \subseteq universe
    BY <1>12
  <2>1. (f.hit <=> q.token \in universe) /\ ToSet(f.sure) \subseteq universe
    BY <1>2, <1>3
  <2>2. CASE f.hit
    <3>1. Featured(f) = <<q.token>>
      BY <1>3, <2>2 DEF Featured
    <3>2. ToSet(<<q.token>>) = {q.token}
      BY DEF ToSet
    <3> QED BY <2>1, <2>2, <3>1, <3>2
  <2>3. CASE ~f.hit
    BY <2>1, <2>3 DEF Featured
  <2> QED BY <2>2, <2>3
<1>19. AnswerIsInOrder(g)
  BY ONLY <1>3, <1>10, <1>12, <1>13, <1>14, <1>15, <1>16, <1>17, <1>18 DEF AnswerIsInOrder
<1> QED BY <1>11, <1>12, <1>19

(* A search that begins has found what the index says.                       *)
LEMMA SeekKeeps ==
  ASSUME NEW q \in Queries, NEW n \in 0 .. MaxPage, Seeks(q, n)
  PROVE  SearchInv' /\ found'.at # "done"
<1>6. PICK hit \in BOOLEAN : hit = (q.token \in universe)
  <2>1. CASE q.token \in universe
    <3>1. TRUE = (q.token \in universe)
      BY <2>1
    <3> QED BY <3>1
  <2>2. CASE q.token \notin universe
    <3>1. FALSE = (q.token \in universe)
      BY <2>2
    <3> QED BY <3>1
  <2> QED BY <2>1, <2>2
<1>1. PICK f :
        /\ f = found' /\ hit = (q.token \in universe)
        /\ f = [query |-> q, page |-> n, at |-> "sure", hit |-> hit, sure |-> <<>>, prefix |-> <<>>, fuzzy |-> <<>>,
                moved |-> FALSE]
  BY <1>6 DEF Seeks
<1>2. <<>> \in Seq(ValuesOf(q)) /\ ToSet(<<>>) = {} /\ universe' = universe
  BY DEF ToSet, Seeks
<1>3. f.query = q /\ f.page = n /\ f.hit = hit /\ f.sure = <<>> /\ f.prefix = <<>> /\ f.fuzzy = <<>> /\ f.at = "sure"
  BY <1>1
<1>4. f = [x \in SearchFields |-> f[x]] /\ f.moved = FALSE
  BY <1>1 DEF SearchFields
<1>5. Searching(f)
  BY <1>2, <1>3, <1>4 DEF Searching
<1> QED BY <1>1, <1>2, <1>3, <1>5 DEF SearchInv

(* What is named leads, for any index, queries and results and however the   *)
(* index is swapped under a search: in the list below the omnibox and on the *)
(* page, and nothing is shown twice; and the chart is of the ticker that     *)
(* leads unless the index became another between them.                       *)
THEOREM WhatIsNamedLeads == SymbolInit /\ [][SymbolNext]_symbolVars => NamesLead
<1> DEFINE Ordered == found' # found /\ found'.at = "done" => AnswerIsInOrder(found')
<1>1. SymbolInit => SearchInv
  BY DEF SymbolInit, SearchInv
<1>2. SearchInv /\ [SymbolNext]_symbolVars => SearchInv' /\ [Ordered]_found
  <2> SUFFICES ASSUME SearchInv, [SymbolNext]_symbolVars PROVE SearchInv' /\ Ordered
    OBVIOUS
  <2>1. ASSUME NEW t \in SyncThreads, Starts(t) \/ Downloads(t) \/ SwapsAssets(t) \/ Reads(t) \/ BrokerFails(t)
        PROVE  SearchInv' /\ Ordered
    <3>1. UNCHANGED <<found, universe>>
      BY <2>1 DEF Starts, Downloads, SwapsAssets, Reads, BrokerFails
    <3> QED BY <3>1 DEF SearchInv
  <2>2. ASSUME NEW t \in SyncThreads, Swaps(t) PROVE SearchInv' /\ Ordered
    <3>1. found' # found => found'.at # "done"
      <4>1. CASE found.at = "done"
        BY <2>2, <4>1 DEF Swaps
      <4>2. CASE found.at # "done"
        <5>1. PICK f, m : f = found /\ found' = [f EXCEPT !["moved"] = m] /\ Searching(f)
          BY <2>2, <4>2 DEF Swaps, SearchInv
        <5>2. [f EXCEPT !["moved"] = m]["at"] = f["at"]
          BY <5>1 DEF Searching, SearchFields
        <5> QED BY <4>2, <5>1, <5>2
      <4> QED BY <4>1, <4>2
    <3> QED BY <2>2, <3>1, SwapKeeps
  <2>3. ASSUME NEW q \in Queries, NEW n \in 0 .. MaxPage, Seeks(q, n) PROVE SearchInv' /\ Ordered
    BY <2>3, SeekKeeps
  <2>4. CASE LooksUp
    <3>1. found'.at # "done"
      <4>1. PICK f : f = found /\ Searching(f)
        BY <2>4 DEF LooksUp, SearchInv
      <4>2. "at" \in DOMAIN f
        BY <4>1 DEF Searching, SearchFields
      <4> QED BY <2>4, <4>1, <4>2 DEF LooksUp
    <3> QED BY <2>4, <3>1, LookUpKeeps
  <2>5. CASE Searches
    BY <2>5, SearchLeads DEF SearchInv
  <2>6. CASE TurnsTo
    BY <2>6, PageLeads DEF SearchInv
  <2>7. CASE UNCHANGED symbolVars
    BY <2>7 DEF symbolVars, SearchInv
  <2> HIDE DEF Ordered
  <2> QED BY <2>1, <2>2, <2>3, <2>4, <2>5, <2>6, <2>7 DEF SymbolNext
<1>3. NamesLead <=> [][Ordered]_found
  BY PTL DEF NamesLead
<1> HIDE DEF Ordered
<1> QED BY <1>1, <1>2, <1>3, PTL

-----------------------------------------------------------------------------
(* The page of futures options.                                              *)

(* Contracts of one expiration each, told apart by what they are.            *)
AreContracts(S) ==
  /\ IsFiniteSet(S)
  /\ \A c \in S : c.exp \in Nat /\ c.strike \in Int /\ c.right \in {"C", "P"}
  /\ \A c, d \in S : c.exp = d.exp /\ c.strike = d.strike /\ c.right = d.right => c = d

(* From the middle out, an expiration is in order.                           *)
LEMMA MiddleOut ==
  ASSUME NEW S, AreContracts(S)
  PROVE  /\ \A c \in S : ~Nearer(c, c)
         /\ \A c, d \in S : c.exp = d.exp /\ c # d => Nearer(c, d) \/ Nearer(d, c)
         /\ \A b, c, d \in S : Nearer(b, c) /\ Nearer(c, d) => Nearer(b, d)
<1>1. \A c \in S : c.exp \in Nat /\ c.strike \in Int /\ c.right \in {"C", "P"}
  BY DEF AreContracts
<1>2. \A c \in S : FromMiddle(c) \in Int
  BY <1>1, ListingsAssumption DEF FromMiddle
<1>3. \A c \in S : ~Nearer(c, c)
  BY <1>1, <1>2 DEF Nearer
<1>4. ASSUME NEW c \in S, NEW d \in S, c.exp = d.exp, c # d PROVE Nearer(c, d) \/ Nearer(d, c)
  <2>1. c.strike # d.strike \/ c.right # d.right
    BY <1>4 DEF AreContracts
  <2>2. \/ FromMiddle(c) < FromMiddle(d) \/ FromMiddle(d) < FromMiddle(c) \/ FromMiddle(c) = FromMiddle(d)
    BY <1>2
  <2>3. c.strike < d.strike \/ d.strike < c.strike \/ c.strike = d.strike
    BY <1>1
  <2>4. c.right # d.right => (c.right = "C" /\ d.right = "P") \/ (c.right = "P" /\ d.right = "C")
    BY <1>1
  <2> QED BY <2>1, <2>2, <2>3, <2>4 DEF Nearer
<1>5. ASSUME NEW b \in S, NEW c \in S, NEW d \in S, Nearer(b, c), Nearer(c, d) PROVE Nearer(b, d)
  <2>1. PICK x \in Int, y \in Int, z \in Int : x = FromMiddle(b) /\ y = FromMiddle(c) /\ z = FromMiddle(d)
    BY <1>2
  <2>2. PICK s \in Int, t \in Int, u \in Int : s = b.strike /\ t = c.strike /\ u = d.strike
    BY <1>1
  <2>3. x < y \/ (x = y /\ s < t) \/ (x = y /\ s = t /\ b.right = "C" /\ c.right = "P")
    BY <1>5, <2>1, <2>2 DEF Nearer
  <2>4. y < z \/ (y = z /\ t < u) \/ (y = z /\ t = u /\ c.right = "C" /\ d.right = "P")
    BY <1>5, <2>1, <2>2 DEF Nearer
  <2>5. x < z \/ (x = z /\ s < u)
    BY <2>3, <2>4
  <2> QED BY <2>1, <2>2, <2>5 DEF Nearer
<1> QED BY <1>3, <1>4, <1>5

(* How deep a contract is tells it from the others of its expiration, and    *)
(* no more of those are as near as it is deep.                               *)
LEMMA DepthsAre ==
  ASSUME NEW S, AreContracts(S)
  PROVE  /\ \A c \in S : Depth(S)[c] \in Nat /\ Depth(S)[c] = Cardinality({x \in S : x.exp = c.exp /\ Nearer(x, c)})
         /\ \A c, d \in S : c.exp = d.exp /\ Nearer(c, d) => Depth(S)[c] < Depth(S)[d]
         /\ \A e, m \in Nat : Cardinality({c \in S : c.exp = e /\ Depth(S)[c] < m}) <= m
<1>1. \A c \in S : Depth(S)[c] = Cardinality({x \in S : x.exp = c.exp /\ Nearer(x, c)})
  BY DEF Depth
<1>2. \A c \in S : IsFiniteSet({x \in S : x.exp = c.exp /\ Nearer(x, c)})
  <2> SUFFICES ASSUME NEW c \in S PROVE IsFiniteSet({x \in S : x.exp = c.exp /\ Nearer(x, c)})
    OBVIOUS
  <2>1. IsFiniteSet(S)
    BY DEF AreContracts
  <2>2. {x \in S : x.exp = c.exp /\ Nearer(x, c)} \in SUBSET S
    OBVIOUS
  <2> QED BY ONLY <2>1, <2>2, FS_Subset
<1>3. \A c \in S : Depth(S)[c] \in Nat
  BY <1>1, <1>2, FS_CardinalityType
<1>4. ASSUME NEW c \in S, NEW d \in S, c.exp = d.exp, Nearer(c, d) PROVE Depth(S)[c] < Depth(S)[d]
  <2>1. PICK A \in SUBSET S, B \in SUBSET S :
          /\ A = {x \in S : x.exp = c.exp /\ Nearer(x, c)} /\ B = {x \in S : x.exp = d.exp /\ Nearer(x, d)}
    OBVIOUS
  <2>2. A \in SUBSET B /\ c \in B /\ c \notin A
    BY <1>4, <2>1, MiddleOut
  <2>3. IsFiniteSet(A) /\ IsFiniteSet(B) /\ Cardinality(A) = Depth(S)[c] /\ Cardinality(B) = Depth(S)[d]
    BY <1>1, <1>2, <2>1
  <2>4. Cardinality(A) <= Cardinality(B) /\ Cardinality(A) # Cardinality(B)
    BY ONLY <2>2, <2>3, FS_Subset
  <2> QED BY <1>3, <2>3, <2>4
<1>5. ASSUME NEW e \in Nat, NEW m \in Nat PROVE Cardinality({c \in S : c.exp = e /\ Depth(S)[c] < m}) <= m
  <2> DEFINE E == {c \in S : c.exp = e}
             near == [c \in E |-> {x \in E : Nearer(x, c)}]
             T == {c \in E : Cardinality(near[c]) < m}
  <2>1. IsFiniteSet(E)
    <3>1. IsFiniteSet(S) /\ E \in SUBSET S
      BY DEF AreContracts
    <3> QED BY ONLY <3>1, FS_Subset
  <2>2. near \in [E -> SUBSET E]
    OBVIOUS
  <2>3. \A c \in E : c \notin near[c]
    BY MiddleOut
  <2>4. \A c, d \in E : c # d => c \in near[d] \/ d \in near[c]
    BY MiddleOut
  <2>5. \A c, d \in E : c \in near[d] => near[c] \subseteq near[d]
    BY MiddleOut
  <2>6. \A c \in E : near[c] = {x \in S : x.exp = c.exp /\ Nearer(x, c)}
    OBVIOUS
  <2>7. T = {c \in S : c.exp = e /\ Depth(S)[c] < m}
    BY <1>1, <2>6
  <2>8. Cardinality(E) \in Nat /\ Cardinality(T) = IF m <= Cardinality(E) THEN m ELSE Cardinality(E)
    <3>1. T = {c \in E : Cardinality(near[c]) < m}
      OBVIOUS
    <3> HIDE DEF E, near, T
    <3> QED BY ONLY <2>1, <2>2, <2>3, <2>4, <2>5, <3>1, m \in Nat, FirstsAre
  <2> HIDE DEF E, near, T
  <2> QED BY <2>7, <2>8
<1> QED BY <1>1, <1>3, <1>4, <1>5

(* What of a window is shown, and how it is put in order.                    *)
FirstOnPage(S, m) == {c \in S : Cardinality({x \in S : Before(Depth(S), x, c)}) < m}

(* The contract that is taken before another is of as many, or more.         *)
LEMMA OrderOfPage ==
  ASSUME NEW S, AreContracts(S)
  PROVE  /\ \A c \in S : ~Before(Depth(S), c, c)
         /\ \A c, d \in S : c # d => Before(Depth(S), c, d) \/ Before(Depth(S), d, c)
         /\ \A b, c, d \in S : Before(Depth(S), b, c) /\ Before(Depth(S), c, d) => Before(Depth(S), b, d)
<1> DEFINE depth == Depth(S)
<1>1. \A c \in S : depth[c] \in Nat /\ c.exp \in Nat
  BY DepthsAre DEF AreContracts
<1>2. \A c, d \in S : c.exp = d.exp /\ c # d => depth[c] < depth[d] \/ depth[d] < depth[c]
  BY DepthsAre, MiddleOut
<1> HIDE DEF depth
<1>3. \A c \in S : ~Before(depth, c, c)
  BY <1>1 DEF Before
<1>4. ASSUME NEW c \in S, NEW d \in S, c # d PROVE Before(depth, c, d) \/ Before(depth, d, c)
  BY <1>1, <1>2, <1>4 DEF Before
<1>5. ASSUME NEW b \in S, NEW c \in S, NEW d \in S, Before(depth, b, c), Before(depth, c, d) PROVE Before(depth, b, d)
  BY <1>1, <1>5 DEF Before
<1> QED BY <1>3, <1>4, <1>5 DEF depth

(* The budget is shared: it is used up, no expiration is two contracts ahead *)
(* of one that lacks any, and each has those nearest the middle.             *)
LEMMA ShareIsFair ==
  ASSUME NEW S, AreContracts(S), NEW m \in Nat
  PROVE  /\ Cardinality(S) \in Nat
         /\ Cardinality(FirstOnPage(S, m)) = IF m <= Cardinality(S) THEN m ELSE Cardinality(S)
         /\ \A e, f \in Nat :
              {c \in FirstOnPage(S, m) : c.exp = e} # {c \in S : c.exp = e} =>
                Cardinality({c \in FirstOnPage(S, m) : c.exp = f}) <= Cardinality({c \in FirstOnPage(S, m) : c.exp = e}) + 1
         /\ \A c \in FirstOnPage(S, m), d \in S \ FirstOnPage(S, m) : c.exp = d.exp => Nearer(c, d)
<1> DEFINE ahead == [c \in S |-> {x \in S : Before(Depth(S), x, c)}]
<1>1. IsFiniteSet(S)
  BY DEF AreContracts
<1>2. /\ ahead \in [S -> SUBSET S] /\ \A c \in S : c \notin ahead[c]
      /\ \A c, d \in S : c # d => c \in ahead[d] \/ d \in ahead[c]
      /\ \A c, d \in S : c \in ahead[d] => ahead[c] \subseteq ahead[d]
  <2>1. ahead \in [S -> SUBSET S]
    OBVIOUS
  <2>2. \A c \in S : c \notin ahead[c]
    BY OrderOfPage
  <2>3. \A c, d \in S : c # d => c \in ahead[d] \/ d \in ahead[c]
    BY OrderOfPage
  <2>4. \A c, d \in S : c \in ahead[d] => ahead[c] \subseteq ahead[d]
    BY OrderOfPage
  <2> QED BY <2>1, <2>2, <2>3, <2>4
<1>3. PICK T : T = FirstOnPage(S, m)
  OBVIOUS
<1>4. T = {c \in S : Cardinality(ahead[c]) < m}
  BY <1>3 DEF FirstOnPage
<1>5. \A c, d \in S : c \in ahead[d] <=> Before(Depth(S), c, d)
  OBVIOUS
<1> HIDE DEF ahead
<1>6. /\ Cardinality(S) \in Nat
      /\ Cardinality(T) = IF m <= Cardinality(S) THEN m ELSE Cardinality(S)
      /\ \A c \in T, d \in S : d \notin T => c \in ahead[d]
  <2>1. \A x \in S : x \notin ahead[x]
    BY <1>2
  <2>2. \A x, y \in S : x # y => x \in ahead[y] \/ y \in ahead[x]
    BY <1>2
  <2>3. \A x, y \in S : x \in ahead[y] => ahead[x] \subseteq ahead[y]
    BY <1>2
  <2>4. ahead \in [S -> SUBSET S] /\ m \in Nat
    BY <1>2
  <2>5. \A x, y \in S : Cardinality(ahead[x]) < m /\ ~(Cardinality(ahead[y]) < m) => x \in ahead[y]
    BY ONLY <1>1, <1>4, <2>1, <2>2, <2>3, <2>4, FirstsAre
  <2>6. Cardinality(S) \in Nat /\ Cardinality(T) = IF m <= Cardinality(S) THEN m ELSE Cardinality(S)
    BY ONLY <1>1, <1>4, <2>1, <2>2, <2>3, <2>4, FirstsAre
  <2> QED BY <1>4, <2>5, <2>6
<1>7. \A c \in T, d \in S : d \notin T => Before(Depth(S), c, d)
  BY <1>4, <1>5, <1>6
<1>8. T \subseteq S
  BY <1>4
<1>9. \A c \in S : Depth(S)[c] \in Nat /\ c.exp \in Nat
  BY DepthsAre DEF AreContracts
<1>10. ASSUME NEW c \in T, NEW d \in S \ T, c.exp = d.exp PROVE Nearer(c, d)
  <2>1. c \in S /\ c # d /\ Depth(S)[c] <= Depth(S)[d]
    BY <1>7, <1>8, <1>9, <1>10 DEF Before
  <2>2. ~Nearer(d, c)
    BY <1>9, <1>10, <2>1, DepthsAre
  <2> QED BY <1>10, <2>1, <2>2, MiddleOut
<1>11. ASSUME NEW e \in Nat, NEW f \in Nat, {c \in T : c.exp = e} # {c \in S : c.exp = e}
       PROVE  Cardinality({c \in T : c.exp = f}) <= Cardinality({c \in T : c.exp = e}) + 1
  <2> DEFINE lacks == {Depth(S)[d] : d \in {c \in S : c.exp = e /\ c \notin T}}
  <2>1. PICK k \in lacks : \A x \in lacks : k <= x
    <3>1. lacks # {} /\ lacks \subseteq Nat
      BY <1>8, <1>9, <1>11
    <3> HIDE DEF lacks
    <3> QED BY ONLY <3>1, Least
  <2>2. PICK d \in S : d.exp = e /\ d \notin T /\ Depth(S)[d] = k
    BY <2>1
  <2>3. k \in Nat
    BY <1>9, <2>2
  <2>4. Cardinality({c \in T : c.exp = f}) <= k + 1 /\ Cardinality({c \in T : c.exp = f}) \in Nat
    <3>1. PICK U : U = {c \in S : c.exp = f /\ Depth(S)[c] < k + 1}
      OBVIOUS
    <3>2. Cardinality(U) <= k + 1
      BY <2>3, <3>1, DepthsAre
    <3>3. IsFiniteSet(U) /\ Cardinality(U) \in Nat
      <4>1. U \in SUBSET S
        BY <3>1
      <4> QED BY ONLY <1>1, <4>1, FS_Subset, FS_CardinalityType
    <3>4. PICK V \in SUBSET U : V = {c \in T : c.exp = f}
      <4>1. ASSUME NEW c \in T PROVE Depth(S)[c] < k + 1
        <5>1. Before(Depth(S), c, d)
          BY <1>7, <2>2
        <5> QED BY <1>8, <1>9, <2>2, <5>1 DEF Before
      <4> QED BY <1>8, <3>1, <4>1
    <3>5. Cardinality(V) <= Cardinality(U) /\ Cardinality(V) \in Nat
      BY ONLY <3>3, <3>4, FS_Subset, FS_CardinalityType
    <3> QED BY <2>3, <3>2, <3>3, <3>4, <3>5
  <2>5. k <= Cardinality({c \in T : c.exp = e}) /\ Cardinality({c \in T : c.exp = e}) \in Nat
    <3>1. PICK U \in SUBSET S : U = {x \in S : x.exp = d.exp /\ Nearer(x, d)}
      OBVIOUS
    <3>2. Cardinality(U) = k
      BY <2>2, <3>1, DepthsAre
    <3>3. PICK V \in SUBSET S : V = {c \in T : c.exp = e}
      BY <1>8
    <3>4. IsFiniteSet(V) /\ Cardinality(V) \in Nat
      BY ONLY <1>1, <3>3, FS_Subset, FS_CardinalityType
    <3>5. U \in SUBSET V
      <4>1. ASSUME NEW x \in U, x \notin T PROVE FALSE
        <5>1. x \in S /\ x.exp = e /\ Depth(S)[x] < k
          BY <2>2, <3>1, DepthsAre
        <5>2. Depth(S)[x] \in lacks
          BY <4>1, <5>1
        <5>3. k <= Depth(S)[x]
          BY <2>1, <5>2
        <5> QED BY <1>9, <2>3, <5>1, <5>3
      <4> QED BY <2>2, <3>1, <3>3, <4>1
    <3>6. Cardinality(U) <= Cardinality(V)
      BY ONLY <3>4, <3>5, FS_Subset
    <3> QED BY <3>2, <3>3, <3>4, <3>6
  <2> HIDE DEF lacks
  <2> QED BY <2>3, <2>4, <2>5
<1>12. /\ \A e, f \in Nat : {c \in T : c.exp = e} # {c \in S : c.exp = e} =>
            Cardinality({c \in T : c.exp = f}) <= Cardinality({c \in T : c.exp = e}) + 1
       /\ \A c \in T, d \in S \ T : c.exp = d.exp => Nearer(c, d)
  BY <1>10, <1>11
<1> QED BY <1>3, <1>6, <1>12

(* What the listings of a chain come to are contracts.                       *)
LEMMA WantedAre ==
  ASSUME NEW chain \in SUBSET Listings
  PROVE  AreContracts(Wanted(chain)) /\ Dates(chain) \subseteq Nat
<1> DEFINE Of(e) == LET l == BestForDate(chain, e)
                    IN [exp : {e}, strike : l.strikes \cap (StrikeLo .. StrikeHi), right : {"C", "P"}, under : {l.under}]
           D == Dates(chain)
           G == {Of(e) : e \in D}
           F == [e \in D |-> Of(e)]
<1>1. D \subseteq Nat
  BY ListingsAssumption DEF Dates
<1>2. IsFiniteSet(D)
  <2> DEFINE h == [l \in chain |-> l.exp]
  <2>1. h \in Surjection(chain, D)
    BY DEF Surjection, Dates
  <2>2. IsFiniteSet(chain)
    BY ListingsAssumption, FS_Subset
  <2> HIDE DEF h, D
  <2> QED BY ONLY <2>1, <2>2, FS_Surjection
<1>3. \A e \in D : IsFiniteSet(Of(e))
  <2> SUFFICES ASSUME NEW e \in D PROVE IsFiniteSet(Of(e))
    OBVIOUS
  <2>1. PICK l, W : l = BestForDate(chain, e) /\ W = l.strikes \cap (StrikeLo .. StrikeHi)
    OBVIOUS
  <2>2. IsFiniteSet(W)
    <3>1. IsFiniteSet(StrikeLo .. StrikeHi)
      <4>1. StrikeLo \in Int /\ StrikeHi \in Int
        BY ListingsAssumption
      <4> QED BY ONLY <4>1, FS_Interval
    <3>2. W \in SUBSET (StrikeLo .. StrikeHi)
      BY <2>1
    <3> QED BY ONLY <3>1, <3>2, FS_Subset
  <2>3. IsFiniteSet({"C", "P"})
    <3>1. IsFiniteSet({"C"}) /\ IsFiniteSet({"C"} \cup {"P"})
      BY FS_Singleton, FS_AddElement
    <3>2. {"C", "P"} = {"C"} \cup {"P"}
      OBVIOUS
    <3> QED BY <3>1, <3>2
  <2>4. IsFiniteSet(W \X {"C", "P"})
    BY <2>2, <2>3, FS_Product
  <2> DEFINE g == [p \in W \X {"C", "P"} |-> [exp |-> e, strike |-> p[1], right |-> p[2], under |-> l.under]]
  <2>5. Of(e) = [exp : {e}, strike : W, right : {"C", "P"}, under : {l.under}]
    BY <2>1
  <2>6. g \in Surjection(W \X {"C", "P"}, Of(e))
    <3>1. \A p \in W \X {"C", "P"} : g[p] \in Of(e)
      BY <2>5
    <3>2. ASSUME NEW c \in Of(e) PROVE \E p \in W \X {"C", "P"} : g[p] = c
      <4>1. /\ c = [exp |-> c.exp, strike |-> c.strike, right |-> c.right, under |-> c.under]
            /\ c.exp = e /\ c.strike \in W /\ c.right \in {"C", "P"} /\ c.under = l.under
        BY <2>5
      <4>2. PICK p \in W \X {"C", "P"} : p[1] = c.strike /\ p[2] = c.right
        <5>1. <<c.strike, c.right>> \in W \X {"C", "P"}
          BY <4>1
        <5> QED BY <5>1
      <4>3. g[p] = [exp |-> e, strike |-> p[1], right |-> p[2], under |-> l.under]
        OBVIOUS
      <4>4. g[p] = [exp |-> c.exp, strike |-> c.strike, right |-> c.right, under |-> c.under]
        BY <4>1, <4>2, <4>3
      <4> QED BY <4>1, <4>4
    <3> HIDE DEF Of
    <3> QED BY <3>1, <3>2 DEF Surjection
  <2> HIDE DEF g, Of
  <2> QED BY ONLY <2>4, <2>6, FS_Surjection
<1>4. IsFiniteSet(G)
  <2>1. F \in Surjection(D, G)
    BY DEF Surjection
  <2> HIDE DEF F, G, D
  <2> QED BY ONLY <1>2, <2>1, FS_Surjection
<1>5. Wanted(chain) = UNION G
  BY DEF Wanted
<1>6. IsFiniteSet(UNION G)
  <2>1. \A X \in G : IsFiniteSet(X)
    BY <1>3
  <2> HIDE DEF G
  <2> QED BY ONLY <1>4, <2>1, FS_UNION
<1>7. \A c \in Wanted(chain) : \E e \in D : c \in Of(e)
  BY <1>5
<1>8. ASSUME NEW c \in Wanted(chain), NEW e \in D, c \in Of(e)
      PROVE  /\ c = [exp |-> c.exp, strike |-> c.strike, right |-> c.right, under |-> c.under]
             /\ c.exp = e /\ c.strike \in Int /\ c.right \in {"C", "P"} /\ c.under = BestForDate(chain, e).under
  BY <1>8, ListingsAssumption
<1> HIDE DEF Of, G, F
<1>9. \A c \in Wanted(chain) : c.exp \in Nat /\ c.strike \in Int /\ c.right \in {"C", "P"}
  BY <1>1, <1>7, <1>8
<1>10. ASSUME NEW c \in Wanted(chain), NEW d \in Wanted(chain),
              c.exp = d.exp, c.strike = d.strike, c.right = d.right
       PROVE  c = d
  <2>1. PICK e \in D : c \in Of(e)
    BY <1>7
  <2>2. PICK f \in D : d \in Of(f)
    BY <1>7
  <2>3. e = f
    BY <1>8, <1>10, <2>1, <2>2
  <2>4. c.under = d.under
    BY <1>8, <2>1, <2>2, <2>3
  <2>5. /\ c = [exp |-> c.exp, strike |-> c.strike, right |-> c.right, under |-> c.under]
        /\ d = [exp |-> d.exp, strike |-> d.strike, right |-> d.right, under |-> d.under]
    BY <1>8, <2>1, <2>2
  <2> QED BY ONLY <1>10, <2>4, <2>5
<1> QED BY <1>1, <1>5, <1>6, <1>9, <1>10 DEF AreContracts

(* The far expirations are shown.                                            *)
LEMMA FarMonthsAre ==
  ASSUME page.chain \in SUBSET Listings PROVE FarMonthsAreShown
<1>1. PICK chain \in SUBSET Listings, S \in {Wanted(page.chain)}, T \in {Picked(page.chain)} :
        chain = page.chain /\ S = Wanted(chain) /\ T = Picked(chain)
  OBVIOUS
<1>2. AreContracts(S) /\ Dates(chain) \subseteq Nat
  BY <1>1, WantedAre
<1>3. T = FirstOnPage(S, MAX_ROWS)
  BY <1>1 DEF Picked, FirstOnPage
<1>4. PICK m \in Nat : m = MAX_ROWS
  BY ListingsAssumption
<1>5. /\ Cardinality(S) \in Nat
      /\ Cardinality(T) = IF m <= Cardinality(S) THEN m ELSE Cardinality(S)
      /\ \A e, f \in Nat :
           {c \in T : c.exp = e} # {c \in S : c.exp = e} =>
             Cardinality({c \in T : c.exp = f}) <= Cardinality({c \in T : c.exp = e}) + 1
      /\ \A c \in T, d \in S \ T : c.exp = d.exp => Nearer(c, d)
  BY <1>2, <1>3, <1>4, ShareIsFair
<1>6. Cardinality(T) = Min({MAX_ROWS, Cardinality(S)})
  BY <1>4, <1>5, LesserOfTwo
<1> QED BY ONLY <1>1, <1>2, <1>5, <1>6 DEF FarMonthsAreShown

(* The ends of a set of places.                                              *)
LEMMA EndsOf ==
  ASSUME NEW n \in Nat, NEW S \in SUBSET (1 .. n), S # {}
  PROVE  /\ Max(S) \in S /\ \A y \in S : y <= Max(S)
         /\ Min(S) \in S /\ \A y \in S : Min(S) <= y
<1>1. S \subseteq Nat /\ S \subseteq 0 .. n
  OBVIOUS
<1>2. \E x \in S : \A y \in S : x <= y
  BY ONLY <1>1, S # {}, Least
<1>3. \E x \in S : \A y \in S : y <= x
  BY ONLY <1>1, S # {}, n \in Nat, Greatest
<1>4. \E x \in S : \A y \in S : x >= y
  BY <1>1, <1>3
<1>5. Max(S) \in S /\ \A y \in S : Max(S) >= y
  BY ONLY <1>4 DEF Max
<1>6. Min(S) \in S /\ \A y \in S : Min(S) <= y
  BY ONLY <1>2 DEF Min
<1> QED BY <1>1, <1>5, <1>6

(* A ladder of so many rungs, and the same with one mark that jumped.        *)
Rights == {"call", "put"}
Rungs(L, n) == DOMAIN L = 1 .. n /\ \A x \in 1 .. n : \A q \in Rights : L[x][q] \in Nat
Jumped(L, bad, n, i, r) ==
  /\ DOMAIN bad = 1 .. n /\ bad[i][r] = 10 * L[i][r]
  /\ \A x \in 1 .. n : \A q \in Rights : x # i \/ q # r => bad[x][q] = L[x][q]

(* What is next to a mark inside the ladder.                                 *)
LEMMA NextTo ==
  ASSUME NEW n \in Nat, NEW L, Rungs(L, n), NEW q \in Rights, NEW x \in Inner(L, q)
  PROVE  \E lo \in Marked(L, q), hi \in Marked(L, q) :
           /\ lo < x /\ \A k \in Marked(L, q) : k <= lo \/ x <= k
           /\ x < hi /\ \A k \in Marked(L, q) : k <= x \/ hi <= k
           /\ Below(L, q, x) = L[lo][q] /\ Above(L, q, x) = L[hi][q]
<1>1. PICK M \in SUBSET (1 .. n) : M = Marked(L, q)
  BY DEF Marked, Rungs
<1> DEFINE A == {j \in M : j < x}
           B == {j \in M : j > x}
<1>2. x \in M /\ \E j, k \in M : j < x /\ x < k
  BY <1>1 DEF Inner
<1>3. A \in SUBSET (1 .. n) /\ A # {} /\ B \in SUBSET (1 .. n) /\ B # {}
  BY <1>1, <1>2
<1>4. PICK lo \in A : lo = Max(A) /\ \A y \in A : y <= lo
  <2> HIDE DEF A
  <2> QED BY <1>3, EndsOf
<1>5. PICK hi \in B : hi = Min(B) /\ \A y \in B : hi <= y
  <2> HIDE DEF B
  <2> QED BY <1>3, EndsOf
<1>6. Below(L, q, x) = L[lo][q] /\ Above(L, q, x) = L[hi][q]
  BY <1>1, <1>4, <1>5 DEF Below, Above
<1>7. lo \in M /\ lo < x /\ hi \in M /\ x < hi
  OBVIOUS
<1>8. \A k \in M : k <= lo \/ x <= k
  BY <1>1, <1>2, <1>4
<1>9. \A k \in M : k <= x \/ hi <= k
  BY <1>1, <1>2, <1>5
<1> QED BY <1>1, <1>6, <1>7, <1>8, <1>9

(* The marks of the two ladders are in the same places.                      *)
LEMMA JumpKeepsMarks ==
  ASSUME NEW n \in Nat, NEW L, Rungs(L, n), NEW i \in 1 .. n, NEW r \in Rights, L[i][r] > 0,
         NEW bad, Jumped(L, bad, n, i, r)
  PROVE  /\ Rungs(bad, n)
         /\ \A q \in Rights : Marked(bad, q) = Marked(L, q) /\ Inner(bad, q) = Inner(L, q)
         /\ \A x \in 1 .. n : \A q \in Rights : bad[x][q] >= L[x][q]
<1>1. \A x \in 1 .. n : \A q \in Rights :
        L[x][q] \in Nat /\ bad[x][q] = IF x = i /\ q = r THEN 10 * L[i][r] ELSE L[x][q]
  BY DEF Rungs, Jumped
<1>2. \A x \in 1 .. n : \A q \in Rights : bad[x][q] \in Nat /\ bad[x][q] >= L[x][q] /\ (bad[x][q] > 0 <=> L[x][q] > 0)
  BY <1>1
<1>3. DOMAIN bad = 1 .. n /\ DOMAIN L = 1 .. n
  BY DEF Rungs, Jumped
<1>4. \A q \in Rights : Marked(bad, q) = Marked(L, q)
  BY <1>2, <1>3 DEF Marked
<1>5. \A q \in Rights : Inner(bad, q) = Inner(L, q)
  BY <1>4 DEF Inner
<1> QED BY <1>2, <1>3, <1>4, <1>5 DEF Rungs

(* In a ladder that is in order no mark stands out, and the one that jumps   *)
(* does, if it has neighbours.                                               *)
LEMMA SuspectsAre ==
  ASSUME NEW n \in Nat, NEW L, Rungs(L, n), InOrder(L), NEW i \in 1 .. n, NEW r \in Rights, L[i][r] > 0,
         NEW bad, Jumped(L, bad, n, i, r), NEW q \in Rights
  PROVE  Suspects(L, q) = {} /\ Suspects(bad, q) = IF q = r THEN {i} \cap Inner(L, r) ELSE {}
<1>1. /\ Rungs(bad, n) /\ Marked(bad, q) = Marked(L, q) /\ Inner(bad, q) = Inner(L, q)
      /\ \A x \in 1 .. n : bad[x][q] >= L[x][q]
  BY JumpKeepsMarks
<1>2. PICK M \in SUBSET (1 .. n) : M = Marked(L, q)
  BY DEF Marked, Rungs
<1>3. \A x \in M : L[x][q] \in Nat /\ L[x][q] > 0
  BY <1>2 DEF Marked, Rungs
<1>4. \A x \in M : bad[x][q] \in Nat /\ bad[x][q] >= L[x][q]
  BY <1>1, <1>2 DEF Rungs
<1>5. \A j, k \in M : j < k => IF q = "call" THEN L[j][q] >= L[k][q] ELSE L[j][q] <= L[k][q]
  BY <1>2 DEF InOrder, Rights
<1>6. \A j, k \in M : (\A l \in M : l <= j \/ k <= l) /\ j < k => L[j][q] < 8 * L[k][q] /\ L[k][q] < 8 * L[j][q]
  BY <1>2 DEF InOrder, Rights
<1>7. Inner(L, q) \subseteq M
  BY <1>2 DEF Inner
<1>8. ASSUME NEW x \in Inner(L, q) PROVE ~Spike(L, q, x) /\ (Spike(bad, q, x) <=> q = r /\ x = i)
  <2>1. PICK lo \in M, hi \in M :
          /\ lo < x /\ \A k \in M : k <= lo \/ x <= k
          /\ x < hi /\ \A k \in M : k <= x \/ hi <= k
          /\ Below(L, q, x) = L[lo][q] /\ Above(L, q, x) = L[hi][q]
    BY <1>2, NextTo
  <2>2. Below(bad, q, x) = bad[lo][q] /\ Above(bad, q, x) = bad[hi][q]
    <3>1. PICK a \in M, b \in M :
            /\ a < x /\ \A k \in M : k <= a \/ x <= k
            /\ x < b /\ \A k \in M : k <= x \/ b <= k
            /\ Below(bad, q, x) = bad[a][q] /\ Above(bad, q, x) = bad[b][q]
      BY <1>1, <1>2, NextTo
    <3>2. a = lo
      BY <1>2, <1>7, <2>1, <3>1
    <3>3. b = hi
      BY <1>2, <1>7, <2>1, <3>1
    <3> QED BY <3>1, <3>2, <3>3
  <2>3. x \in M /\ x \in 1 .. n /\ lo \in 1 .. n /\ hi \in 1 .. n
    BY <1>2, <1>7
  <2>4. PICK a \in Nat, b \in Nat, c \in Nat : a = L[lo][q] /\ b = L[x][q] /\ c = L[hi][q] /\ b > 0
    BY <1>3, <2>1, <2>3
  <2>5. a >= b \/ c >= b
    BY <1>5, <2>1, <2>3, <2>4
  <2>6. ~Spike(L, q, x)
    BY <2>1, <2>4, <2>5 DEF Spike
  <2>7. ASSUME q = r, x = i PROVE Spike(bad, q, x)
    <3>1. bad[x][q] = 10 * b /\ bad[lo][q] = a /\ bad[hi][q] = c
      BY <2>1, <2>3, <2>4, <2>7 DEF Jumped
    <3>2. a < 8 * b /\ c < 8 * b
      BY <1>6, <2>1, <2>3, <2>4
    <3>3. 4 * (10 * b) > 5 * a /\ 4 * (10 * b) > 5 * c
      BY <3>2
    <3> QED BY <2>2, <3>1, <3>3 DEF Spike
  <2>8. ASSUME ~(q = r /\ x = i) PROVE ~Spike(bad, q, x)
    <3>1. bad[x][q] = b
      BY <2>3, <2>4, <2>8 DEF Jumped
    <3>2. bad[lo][q] \in Nat /\ bad[lo][q] >= a /\ bad[hi][q] \in Nat /\ bad[hi][q] >= c
      BY <1>4, <2>4
    <3> QED BY <2>2, <2>4, <2>5, <3>1, <3>2 DEF Spike
  <2> QED BY <2>6, <2>7, <2>8
<1>9. Suspects(L, q) = {}
  BY <1>8 DEF Suspects
<1>10. Suspects(bad, q) = {x \in Inner(L, q) : q = r /\ x = i}
  BY <1>1, <1>8 DEF Suspects
<1> QED BY <1>9, <1>10

(* The pairs of a ladder, with what the call and the put differ by.          *)
LEMMA PairsAre ==
  ASSUME NEW n \in Nat, NEW L, Rungs(L, n)
  PROVE  /\ Pairs(L) \in SUBSET (1 .. n) /\ IsFiniteSet(Pairs(L)) /\ Cardinality(Pairs(L)) \in Nat
         /\ \A k \in 1 .. n : Gap(L, k) \in Int
         /\ \A k, l \in 1 .. n : k < l => Slope(L, k, l) \in Int
<1>1. \A k \in 1 .. n : L[k].call \in Nat /\ L[k].put \in Nat
  BY DEF Rungs, Rights
<1>2. \A k \in 1 .. n : Gap(L, k) \in Int
  BY <1>1 DEF Gap
<1>3. ASSUME NEW k \in 1 .. n, NEW l \in 1 .. n, k < l PROVE Slope(L, k, l) \in Int
  <2>1. PICK a \in Int, b \in Int : a = Gap(L, l) /\ b = Gap(L, k)
    BY <1>2
  <2>2. PICK m \in Nat \ {0} : m = l - k
    BY <1>3
  <2>3. ((a - b) * 10) \div m \in Int
    OBVIOUS
  <2> QED BY <2>1, <2>2, <2>3 DEF Slope
<1>4. Pairs(L) \in SUBSET (1 .. n)
  BY DEF Pairs, Rungs
<1>5. IsFiniteSet(1 .. n)
  <2>1. 1 \in Int /\ n \in Int
    OBVIOUS
  <2> QED BY ONLY <2>1, FS_Interval
<1>6. IsFiniteSet(Pairs(L)) /\ Cardinality(Pairs(L)) \in Nat
  BY ONLY <1>4, <1>5, FS_Subset, FS_CardinalityType
<1> QED BY <1>2, <1>3, <1>4, <1>6

(* Three pairs at least are nearest the money, if there are as many.         *)
LEMMA NearestAre ==
  ASSUME NEW n \in Nat, NEW L, Rungs(L, n), Cardinality(Pairs(L)) >= 3
  PROVE  /\ NearPairs(L) \in SUBSET Pairs(L) /\ IsFiniteSet(NearPairs(L))
         /\ Cardinality(NearPairs(L)) \in Nat /\ Cardinality(NearPairs(L)) >= 3
<1>1. PICK P \in SUBSET (1 .. n) : P = Pairs(L) /\ IsFiniteSet(P) /\ Cardinality(P) \in Nat /\ Cardinality(P) >= 3
  BY PairsAre
<1>2. P # {}
  <2>1. Cardinality({}) = 0
    BY FS_EmptySet
  <2> QED BY <1>1, <2>1
<1>3. \A k \in P : Size(Gap(L, k)) \in Nat
  <2>1. \A k \in P : Gap(L, k) \in Int
    BY <1>1, PairsAre
  <2> QED BY <2>1 DEF Size
<1>4. PICK m \in P : m = AtMoney(L)
  <2> DEFINE sizes == {Size(Gap(L, k)) : k \in P}
  <2>1. PICK z \in sizes : \A y \in sizes : z <= y
    <3>1. sizes # {} /\ sizes \subseteq Nat
      BY <1>2, <1>3
    <3> HIDE DEF sizes
    <3> QED BY ONLY <3>1, Least
  <2>2. \E k \in P : \A j \in P : Size(Gap(L, k)) <= Size(Gap(L, j))
    BY <2>1
  <2> HIDE DEF sizes
  <2>3. AtMoney(L) \in P
    BY ONLY <1>1, <2>2 DEF AtMoney
  <2> QED BY <2>3
<1> DEFINE away(k) == Size(k - m)
           ahead == [k \in P |-> {j \in P : away(j) < away(k) \/ (away(j) = away(k) /\ j < k)}]
           T == {k \in P : Cardinality(ahead[k]) < NEAREST}
<1>5. \A k \in P : away(k) \in Nat /\ k \in Nat
  BY <1>1 DEF Size
<1>6. ahead \in [P -> SUBSET P]
  OBVIOUS
<1>7. NearPairs(L) = T
  BY <1>1, <1>4 DEF NearPairs
<1>8. \A k, j \in P : j \in ahead[k] <=> away(j) < away(k) \/ (away(j) = away(k) /\ j < k)
  OBVIOUS
<1> HIDE DEF away
<1>9. \A k \in P : k \notin ahead[k]
  BY <1>5, <1>8
<1>10. \A k, j \in P : k # j => k \in ahead[j] \/ j \in ahead[k]
  BY <1>5, <1>8
<1>11. \A k, j \in P : k \in ahead[j] => ahead[k] \subseteq ahead[j]
  <2>1. ASSUME NEW k \in P, NEW j \in P, k \in ahead[j], NEW l \in ahead[k] PROVE l \in ahead[j]
    <3>1. l \in P
      BY <1>6
    <3>2. PICK a \in Nat, b \in Nat, c \in Nat : a = away(l) /\ b = away(k) /\ c = away(j)
      BY <1>5, <3>1
    <3>3. (a < b \/ (a = b /\ l < k)) /\ (b < c \/ (b = c /\ k < j))
      BY <1>8, <2>1, <3>1, <3>2
    <3>4. a < c \/ (a = c /\ l < j)
      BY <1>5, <3>1, <3>3
    <3> QED BY <1>8, <3>1, <3>2, <3>4
  <2> QED BY <2>1
<1>12. PICK N \in Nat : N = NEAREST /\ N >= 3
  BY LaddersAssumption
<1>13. Cardinality(T) = IF N <= Cardinality(P) THEN N ELSE Cardinality(P)
  <2>1. T = {k \in P : Cardinality(ahead[k]) < N}
    BY <1>12
  <2> HIDE DEF ahead, T
  <2> QED BY ONLY <1>1, <1>6, <1>9, <1>10, <1>11, <2>1, N \in Nat, FirstsAre
<1>14. IsFiniteSet(T)
  <2>1. T \in SUBSET P
    OBVIOUS
  <2> HIDE DEF T
  <2> QED BY ONLY <1>1, <2>1, FS_Subset
<1>15. T \subseteq P
  OBVIOUS
<1> HIDE DEF T
<1> QED BY <1>1, <1>7, <1>12, <1>13, <1>14, <1>15

(* A ladder that is even but for one end of it, and what its forward is.     *)
Even(L, s, c, x) ==
  /\ s \in Int /\ s < 0 /\ c \in Int
  /\ \A k, l \in Pairs(L) : k # x /\ l # x /\ k < l => Slope(L, k, l) = s
  /\ \A k \in Pairs(L) : k # x => Implied(L, k, -2 * s) = c
  /\ x \in Pairs(L) => (\A k \in Pairs(L) : k <= x) \/ (\A k \in Pairs(L) : x <= k)
LEMMA ForwardIs ==
  ASSUME NEW n \in Nat, NEW L, Rungs(L, n), Cardinality(Pairs(L)) >= 4, NEW s, NEW c, NEW x, Even(L, s, c, x)
  PROVE  Forward(L) = <<2 * c, -2 * s>>
<1>1. PICK P \in SUBSET (1 .. n), N \in Nat :
        P = Pairs(L) /\ IsFiniteSet(P) /\ Cardinality(P) = N /\ N >= 4 /\ P \in SUBSET Int
  BY PairsAre
<1>2. PICK p \in [1 .. N -> P] :
        /\ p = InOrderOf(P) /\ \A i, j \in 1 .. N : i < j => p[i] < p[j]
        /\ \A k \in P : \E i \in 1 .. N : p[i] = k
  <2>1. /\ InOrderOf(P) \in [1 .. Cardinality(P) -> P]
        /\ \A i, j \in 1 .. Cardinality(P) : i < j => InOrderOf(P)[i] < InOrderOf(P)[j]
        /\ \A k \in P : \E i \in 1 .. Cardinality(P) : InOrderOf(P)[i] = k
    BY <1>1, InOrderIs
  <2> QED BY ONLY <1>1, <2>1
<1>3. s \in Int /\ s < 0 /\ c \in Int
  BY DEF Even
<1>4. Discount(L) = -2 * s
  <2> DEFINE q == [i \in 1 .. N - 1 |-> Slope(L, p[i], p[i + 1])]
  <2>1. Len(p) = N
    BY <1>2
  <2>2. Slopes(L) = q
    BY <1>1, <1>2, <2>1 DEF Slopes
  <2>3. \A i \in 1 .. N - 1 : p[i] \in P /\ p[i + 1] \in P /\ p[i] < p[i + 1] /\ p[i] \in 1 .. n /\ p[i + 1] \in 1 .. n
    BY <1>1, <1>2
  <2>4. q \in Seq(Int) /\ Len(q) = N - 1 /\ \A i \in 1 .. N - 1 : q[i] = Slope(L, p[i], p[i + 1])
    <3>1. \A i \in 1 .. N - 1 : Slope(L, p[i], p[i + 1]) \in Int
      BY <2>3, PairsAre
    <3>2. N - 1 \in Nat
      BY <1>1
    <3> QED BY <3>1, <3>2
  <2>5. PICK y \in Nat : \A i \in 1 .. N - 1 : i # y => p[i] # x /\ p[i + 1] # x
    <3>1. CASE x \notin P
      BY <2>3, <3>1
    <3>2. CASE x \in P /\ \A k \in P : k <= x
      <4>1. \A i \in 1 .. N - 1 : p[i] # x
        BY <1>1, <2>3, <3>2
      <4>2. \A i \in 1 .. N - 1 : i # N - 1 => p[i + 1] # x
        <5>1. \A i \in 1 .. N - 1 : i # N - 1 => i + 1 \in 1 .. N - 1
          BY <1>1
        <5> QED BY <4>1, <5>1
      <4>3. N - 1 \in Nat
        BY <1>1
      <4> QED BY <4>1, <4>2, <4>3
    <3>3. CASE x \in P /\ \A k \in P : x <= k
      <4>1. \A i \in 1 .. N - 1 : p[i + 1] # x
        <5> SUFFICES ASSUME NEW i \in 1 .. N - 1, p[i + 1] = x PROVE FALSE
          OBVIOUS
        <5>1. p[i] \in P /\ p[i] < x /\ p[i] \in 1 .. n
          BY <2>3
        <5>2. x <= p[i]
          BY <3>3, <5>1
        <5>3. x \in Int
          BY <1>1, <3>3
        <5> QED BY ONLY <5>1, <5>2, <5>3
      <4>2. \A i \in 1 .. N - 1 : i # 1 => p[i] # x
        <5>1. \A i \in 1 .. N - 1 : i # 1 => i - 1 \in 1 .. N - 1 /\ (i - 1) + 1 = i
          BY <1>1
        <5> QED BY <4>1, <5>1
      <4> QED BY <4>1, <4>2
    <3> QED BY <1>1, <3>1, <3>2, <3>3 DEF Even
  <2>6. \A i \in 1 .. N - 1 : i # y => q[i] = s
    BY <1>1, <2>3, <2>4, <2>5 DEF Even
  <2> HIDE DEF q
  <2>7. TwiceMedian(q) = 2 * s
    <3>1. \A i \in 1 .. Len(q) : i # y => q[i] = s
      BY <2>4, <2>6
    <3>2. 3 <= Len(q)
      BY <1>1, <2>4
    <3> QED BY ONLY <1>3, <2>4, <3>1, <3>2, TwiceMedianIs
  <2> QED BY <1>3, <2>2, <2>7 DEF Discount
<1>5. PICK K \in SUBSET P, M \in Nat : K = NearPairs(L) /\ IsFiniteSet(K) /\ Cardinality(K) = M /\ M >= 3 /\ K \in SUBSET Int
  BY <1>1, NearestAre
<1>6. PICK o \in [1 .. M -> K] :
        o = InOrderOf(K) /\ \A i, j \in 1 .. M : i < j => o[i] < o[j]
  BY <1>5, InOrderIs
<1> DEFINE v == [i \in 1 .. M |-> Implied(L, o[i], -2 * s)]
<1>7. Forward(L) = <<TwiceMedian(v), -2 * s>>
  <2>1. DOMAIN o = 1 .. M
    BY <1>6
  <2> QED BY <1>4, <1>5, <1>6, <2>1 DEF Forward
<1>8. v \in Seq(Int) /\ Len(v) = M /\ \A i \in 1 .. M : v[i] = Implied(L, o[i], -2 * s)
  <2>1. ASSUME NEW i \in 1 .. M PROVE Implied(L, o[i], -2 * s) \in Int
    <3>1. PICK k \in 1 .. n : k = o[i]
      BY <1>6
    <3>2. PICK g \in Int : g = Gap(L, k)
      BY PairsAre
    <3>3. PICK d \in Int : d = -2 * s
      BY <1>3
    <3>4. (100 + 10 * k) * d + 200 * g \in Int
      OBVIOUS
    <3> QED BY <3>1, <3>2, <3>3, <3>4 DEF Implied, Strike
  <2> QED BY <2>1
<1> HIDE DEF v
<1>9. PICK y \in Nat : \A i \in 1 .. M : i # y => o[i] # x
  <2>1. CASE \E i \in 1 .. M : o[i] = x
    <3>1. PICK y \in 1 .. M : o[y] = x
      BY <2>1
    <3>2. ASSUME NEW i \in 1 .. M, i # y PROVE o[i] # x
      <4>1. i < y \/ y < i
        BY <3>2
      <4>2. o[i] < o[y] \/ o[y] < o[i]
        BY <1>6, <4>1
      <4>3. o[i] \in Int /\ o[y] \in Int
        BY <1>5, <1>6
      <4> QED BY <3>1, <4>2, <4>3
    <3>3. y \in Nat
      OBVIOUS
    <3> QED BY ONLY <3>2, <3>3
  <2>2. CASE ~\E i \in 1 .. M : o[i] = x
    BY <2>2
  <2> QED BY <2>1, <2>2
<1>10. TwiceMedian(v) = 2 * c
  <2>1. \A i \in 1 .. Len(v) : i # y => v[i] = c
    BY <1>1, <1>5, <1>6, <1>8, <1>9 DEF Even
  <2>2. 3 <= Len(v)
    BY <1>5, <1>8
  <2> QED BY ONLY <1>3, <1>8, <2>1, <2>2, TwiceMedianIs
<1> QED BY <1>7, <1>10

(* Two differences over the same stretch.                                    *)
LEMMA SameSlope ==
  ASSUME NEW a \in Int, NEW b \in Int, NEW m \in Nat \ {0}, a * m = b * m
  PROVE  a = b
<1>1. (a - b) * m = 0
  OBVIOUS
<1>2. CASE a > b
  <2>1. a - b >= 1 /\ m >= 1
    BY <1>2
  <2>2. (a - b) * m >= 1
    BY <2>1
  <2> QED BY <1>1, <2>2
<1>3. CASE b > a
  <2>1. b - a >= 1 /\ m >= 1
    BY <1>3
  <2>2. (b - a) * m >= 1
    BY <2>1
  <2> QED BY <1>1, <2>2
<1> QED BY <1>2, <1>3

(* In a ladder that is in order all pairs say the same.                      *)
LEMMA AllSayTheSame ==
  ASSUME NEW n \in Nat, NEW L, Rungs(L, n), InOrder(L), NEW j \in Pairs(L), NEW k \in Pairs(L), j < k
  PROVE  /\ Slope(L, j, k) \in Int /\ Slope(L, j, k) < 0
         /\ \A u, v \in Pairs(L) : u < v => Slope(L, u, v) = Slope(L, j, k)
         /\ Implied(L, j, -2 * Slope(L, j, k)) \in Int
         /\ \A u \in Pairs(L) : Implied(L, u, -2 * Slope(L, j, k)) = Implied(L, j, -2 * Slope(L, j, k))
<1>1. PICK P \in SUBSET (1 .. n) : P = Pairs(L)
  BY PairsAre
<1>2. /\ \A u \in P : Gap(L, u) \in Int
      /\ \A u, v \in P : u < v => Slope(L, u, v) \in Int
  BY <1>1, PairsAre
<1>3. \A u, v, w, x \in P : u < v /\ w < x => 10 * (Gap(L, x) - Gap(L, w)) = Slope(L, u, v) * (x - w)
  BY <1>1 DEF InOrder
<1>4. PICK s \in Int : s = Slope(L, j, k)
  BY <1>1, <1>2
<1>5. s < 0
  BY <1>1, <1>4 DEF InOrder
<1>6. ASSUME NEW u \in P, NEW v \in P, u < v PROVE Slope(L, u, v) = s
  <2>1. PICK t \in Int : t = Slope(L, u, v)
    BY <1>2, <1>6
  <2>2. PICK m \in Nat \ {0} : m = v - u
    BY <1>1, <1>6
  <2>3. 10 * (Gap(L, v) - Gap(L, u)) = s * m /\ 10 * (Gap(L, v) - Gap(L, u)) = t * m
    BY <1>1, <1>3, <1>4, <1>6, <2>1, <2>2
  <2>4. s * m = t * m
    BY <2>3
  <2> QED BY <2>1, <2>4, SameSlope
<1>7. ASSUME NEW u \in P PROVE Implied(L, u, -2 * s) \in Int /\ Implied(L, u, -2 * s) = Implied(L, j, -2 * s)
  <2>1. PICK a \in Int, b \in Int : a = Gap(L, u) /\ b = Gap(L, j)
    BY <1>1, <1>2
  <2>2. 10 * (a - b) = s * (u - j)
    <3>1. CASE j < u
      BY <1>1, <1>3, <1>4, <2>1, <3>1
    <3>2. CASE u < j
      <4>1. 10 * (b - a) = s * (j - u)
        BY <1>1, <1>3, <1>4, <2>1, <3>2
      <4>2. u \in Int /\ j \in Int
        BY <1>1
      <4> QED BY <4>1, <4>2
    <3>3. CASE u = j
      BY <1>1, <2>1, <3>3
    <3> QED BY <1>1, <3>1, <3>2, <3>3
  <2>3. /\ Implied(L, u, -2 * s) = (100 + 10 * u) * (-2 * s) + 200 * a
        /\ Implied(L, j, -2 * s) = (100 + 10 * j) * (-2 * s) + 200 * b
    BY <2>1 DEF Implied, Strike
  <2>4. PICK y \in Int, z \in Int : y = u /\ z = j
    BY <1>1
  <2>5. (100 + 10 * y) * (-2 * s) + 200 * a = (100 + 10 * z) * (-2 * s) + 200 * b
    <3>1. 10 * (a - b) = s * y - s * z
      BY <2>2, <2>4
    <3>2. (100 + 10 * y) * (-2 * s) = -200 * s - 20 * (s * y) /\ (100 + 10 * z) * (-2 * s) = -200 * s - 20 * (s * z)
      OBVIOUS
    <3>3. s * y \in Int /\ s * z \in Int
      OBVIOUS
    <3> QED BY <3>1, <3>2, <3>3
  <2>6. (100 + 10 * y) * (-2 * s) + 200 * a \in Int
    OBVIOUS
  <2> QED BY <2>3, <2>4, <2>5, <2>6
<1> QED BY <1>1, <1>4, <1>5, <1>6, <1>7

(* What is left of the two ladders when the suspects are set aside.          *)
LEMMA CleanIs ==
  ASSUME NEW n \in Nat, NEW L, Rungs(L, n), InOrder(L), NEW i \in 1 .. n, NEW r \in Rights, L[i][r] > 0,
         NEW bad, Jumped(L, bad, n, i, r)
  PROVE  /\ Rungs(Clean(L), n) /\ Rungs(Clean(bad), n)
         /\ \A x \in 1 .. n : \A q \in Rights :
              /\ Clean(L)[x][q] = L[x][q]
              /\ Clean(bad)[x][q] = IF q = r /\ x = i /\ i \in Inner(L, r) THEN 0 ELSE bad[x][q]
<1>1. \A q \in Rights : Suspects(L, q) = {} /\ Suspects(bad, q) = IF q = r THEN {i} \cap Inner(L, r) ELSE {}
  BY SuspectsAre
<1>2. DOMAIN L = 1 .. n /\ DOMAIN bad = 1 .. n
  BY DEF Rungs, Jumped
<1>3. \A x \in 1 .. n : \A q \in Rights : Clean(L)[x][q] = L[x][q]
  BY <1>1, <1>2 DEF Clean, Rights
<1>4. \A x \in 1 .. n : \A q \in Rights :
        Clean(bad)[x][q] = IF q = r /\ x = i /\ i \in Inner(L, r) THEN 0 ELSE bad[x][q]
  BY <1>1, <1>2 DEF Clean, Rights
<1>5. DOMAIN Clean(L) = 1 .. n /\ DOMAIN Clean(bad) = 1 .. n
  BY <1>2 DEF Clean
<1>6. \A x \in 1 .. n : \A q \in Rights : L[x][q] \in Nat /\ bad[x][q] \in Nat
  BY JumpKeepsMarks DEF Rungs
<1>7. \A x \in 1 .. n : \A q \in Rights : Clean(L)[x][q] \in Nat
  BY <1>3, <1>6
<1>8. \A x \in 1 .. n : \A q \in Rights : Clean(bad)[x][q] \in Nat
  BY <1>4, <1>6
<1>9. Rungs(Clean(L), n) /\ Rungs(Clean(bad), n)
  BY ONLY <1>5, <1>7, <1>8 DEF Rungs
<1> QED BY ONLY <1>3, <1>4, <1>9

(* A print that goes bad costs itself.                                       *)
LEMMA JumpCostsItself ==
  ASSUME NEW n \in Nat, NEW L, Rungs(L, n), InOrder(L), NEW i \in 1 .. n, NEW r \in Rights, L[i][r] > 0,
         NEW bad, Jumped(L, bad, n, i, r)
  PROVE  CostsItself(L, bad, i, r)
<1>1. PICK C, B : C = Clean(L) /\ B = Clean(bad)
  OBVIOUS
<1>2. /\ Rungs(C, n) /\ Rungs(B, n)
      /\ \A x \in 1 .. n : \A q \in Rights :
           /\ C[x][q] = L[x][q]
           /\ B[x][q] = IF q = r /\ x = i /\ i \in Inner(L, r) THEN 0 ELSE bad[x][q]
  BY <1>1, CleanIs
<1>3. \A x \in 1 .. n : \A q \in Rights :
        /\ L[x][q] \in Nat /\ bad[x][q] \in Nat /\ (bad[x][q] > 0 <=> L[x][q] > 0)
        /\ x # i \/ q # r => bad[x][q] = L[x][q]
  BY DEF Rungs, Jumped
<1>4. DOMAIN L = 1 .. n /\ DOMAIN bad = 1 .. n /\ DOMAIN C = 1 .. n /\ DOMAIN B = 1 .. n
  BY <1>2 DEF Rungs, Jumped
<1>5. Suspects(bad, r) = {i} \cap Inner(L, r)
  BY SuspectsAre
<1>6. Solved(bad, 1) = Solved(L, 1) \ (({i} \cap Inner(L, r)) \X {r})
  <2>1. Solved(L, 1) = {q \in (1 .. n) \X Rights : C[q[1]][q[2]] > 0}
    BY <1>1, <1>4 DEF Solved, Rights
  <2>2. Solved(bad, 1) = {q \in (1 .. n) \X Rights : B[q[1]][q[2]] > 0}
    BY <1>1, <1>4 DEF Solved, Rights
  <2>3. ASSUME NEW x \in 1 .. n, NEW q \in Rights
        PROVE  B[x][q] > 0 <=> C[x][q] > 0 /\ ~(q = r /\ x = i /\ i \in Inner(L, r))
    BY <1>2, <1>3
  <2>4. ASSUME NEW p \in (1 .. n) \X Rights
        PROVE  p \in Solved(bad, 1) <=> p \in Solved(L, 1) /\ p \notin ({i} \cap Inner(L, r)) \X {r}
    <3>1. PICK x \in 1 .. n, q \in Rights : p = <<x, q>>
      OBVIOUS
    <3>2. p \in ({i} \cap Inner(L, r)) \X {r} <=> q = r /\ x = i /\ i \in Inner(L, r)
      BY <3>1
    <3>3. p[1] = x /\ p[2] = q
      BY <3>1
    <3> QED BY <2>1, <2>2, <2>3, <3>2, <3>3
  <2>5. Solved(bad, 1) \subseteq (1 .. n) \X Rights /\ Solved(L, 1) \subseteq (1 .. n) \X Rights
    BY <2>1, <2>2
  <2> QED BY ONLY <2>4, <2>5
<1>7. ASSUME Cardinality(Pairs(B)) >= 4 PROVE Forward(B) = Forward(C)
  <2>1. PICK P \in SUBSET (1 .. n) : P = Pairs(L) /\ IsFiniteSet(P) /\ Cardinality(P) \in Nat /\ P \in SUBSET Int
    BY PairsAre
  <2>2. Pairs(C) = P
    BY <1>2, <1>4, <2>1 DEF Pairs, Rights
  <2>3. PICK Q \in SUBSET P : Q = Pairs(B) /\ (i \in Inner(L, r) => i \notin Q)
    <3>1. ASSUME NEW x \in Pairs(B) PROVE x \in P /\ (i \in Inner(L, r) => x # i)
      <4>1. x \in 1 .. n /\ B[x]["call"] > 0 /\ B[x]["put"] > 0
        BY <1>4 DEF Pairs
      <4>2. \A q \in Rights : B[x][q] > 0
        BY <4>1 DEF Rights
      <4>3. \A q \in Rights : L[x][q] > 0
        BY <1>2, <1>3, <4>1, <4>2
      <4>4. i \in Inner(L, r) => x # i
        BY <1>2, <4>1, <4>2
      <4> QED BY <1>4, <2>1, <4>1, <4>3, <4>4 DEF Pairs, Rights
    <3> QED BY <3>1
  <2>4. \A x \in P : Gap(C, x) = Gap(L, x)
    BY <1>2, <2>1 DEF Gap, Rights
  <2>5. \A x \in Q : x # i => Gap(B, x) = Gap(L, x)
    <3>1. \A x \in Q : x # i => \A q \in Rights : B[x][q] = L[x][q]
      BY <1>2, <1>3, <2>1
    <3> QED BY <3>1 DEF Gap, Rights
  <2>6. PICK N \in Nat : N >= 4 /\ N = Cardinality(Q) /\ \E o \in [1 .. N -> Q] : \A a, b \in 1 .. N : a < b => o[a] < o[b]
    <3>1. IsFiniteSet(Q) /\ Q \in SUBSET Int /\ Cardinality(Q) \in Nat
      <4>1. Q \in SUBSET P /\ P \in SUBSET Int
        BY <2>1
      <4> QED BY ONLY <2>1, <4>1, FS_Subset, FS_CardinalityType
    <3>2. /\ InOrderOf(Q) \in [1 .. Cardinality(Q) -> Q]
          /\ \A a, b \in 1 .. Cardinality(Q) : a < b => InOrderOf(Q)[a] < InOrderOf(Q)[b]
      BY ONLY <3>1, InOrderIs
    <3>3. Cardinality(Q) >= 4
      BY <1>7, <2>3
    <3> QED BY ONLY <3>1, <3>2, <3>3
  <2>7. Cardinality(P) >= 4
    <3>1. Cardinality(Q) <= Cardinality(P)
      BY ONLY <2>1, <2>3, FS_Subset
    <3> QED BY <2>1, <2>6, <3>1
  <2>8. PICK j \in Q, k \in Q : j < k /\ j # i /\ k # i
    <3> PICK o \in [1 .. N -> Q] : \A a, b \in 1 .. N : a < b => o[a] < o[b]
      BY <2>6
    <3>1. /\ o[1] \in Q /\ o[2] \in Q /\ o[3] \in Q /\ o[4] \in Q
          /\ o[1] < o[2] /\ o[2] < o[3] /\ o[3] < o[4]
      BY <2>6
    <3>2. o[1] \in Int /\ o[2] \in Int /\ o[3] \in Int /\ o[4] \in Int
      BY <2>1, <3>1
    <3>3. CASE i = o[1] \/ i = o[2]
      <4>1. o[3] # i /\ o[4] # i
        BY <3>1, <3>2, <3>3
      <4> QED BY ONLY <3>1, <4>1
    <3>4. CASE i # o[1] /\ i # o[2]
      BY ONLY <3>1, <3>4
    <3> QED BY <3>3, <3>4
  <2>9. PICK s \in Int, c \in Int :
          /\ s < 0 /\ \A u, v \in P : u < v => Slope(L, u, v) = s
          /\ \A u \in P : Implied(L, u, -2 * s) = c
    <3>1. j \in Pairs(L) /\ k \in Pairs(L) /\ j < k
      BY <2>1, <2>8
    <3>2. /\ Slope(L, j, k) \in Int /\ Slope(L, j, k) < 0
          /\ \A u, v \in Pairs(L) : u < v => Slope(L, u, v) = Slope(L, j, k)
          /\ Implied(L, j, -2 * Slope(L, j, k)) \in Int
          /\ \A u \in Pairs(L) : Implied(L, u, -2 * Slope(L, j, k)) = Implied(L, j, -2 * Slope(L, j, k))
      BY <3>1, AllSayTheSame
    <3> QED BY ONLY <2>1, <3>2
  <2>10. Even(C, s, c, 0)
    <3>1. \A u, v \in P : u < v => Slope(C, u, v) = s
      BY <2>4, <2>9 DEF Slope
    <3>2. \A u \in P : Implied(C, u, -2 * s) = c
      BY <2>4, <2>9 DEF Implied
    <3>3. 0 \notin P
      BY <2>1
    <3> QED BY <2>2, <2>9, <3>1, <3>2, <3>3 DEF Even
  <2>11. Even(B, s, c, i)
    <3>1. \A u, v \in Q : u # i /\ v # i /\ u < v => Slope(B, u, v) = s
      <4> SUFFICES ASSUME NEW u \in Q, NEW v \in Q, u # i, v # i, u < v PROVE Slope(B, u, v) = s
        OBVIOUS
      <4>1. Gap(B, u) = Gap(L, u) /\ Gap(B, v) = Gap(L, v) /\ Slope(L, u, v) = s
        BY <2>5, <2>9
      <4> QED BY <4>1 DEF Slope
    <3>2. \A u \in Q : u # i => Implied(B, u, -2 * s) = c
      BY <2>5, <2>9 DEF Implied
    <3>3. ASSUME i \in Q PROVE (\A u \in Q : u <= i) \/ (\A u \in Q : i <= u)
      <4>1. \A u \in P : u \in Marked(L, r)
        BY <1>4, <2>1 DEF Pairs, Marked, Rights
      <4>2. i \notin Inner(L, r) /\ i \in Marked(L, r)
        BY <2>3, <3>3, <4>1
      <4>3. ~\E u, v \in Marked(L, r) : u < i /\ i < v
        BY <4>2 DEF Inner
      <4>4. \A u \in Q : u \in Int /\ u \in Marked(L, r)
        BY <2>1, <4>1
      <4> QED BY <4>3, <4>4
    <3> QED BY <2>3, <2>9, <3>1, <3>2, <3>3 DEF Even
  <2>12. Forward(C) = <<2 * c, -2 * s>>
    BY <1>2, <2>2, <2>7, <2>10, ForwardIs
  <2>13. Forward(B) = <<2 * c, -2 * s>>
    BY <1>2, <1>7, <2>11, ForwardIs
  <2> QED BY <2>12, <2>13
<1> QED BY <1>1, <1>5, <1>6, <1>7 DEF CostsItself

(* The states of the page, and its steps: one mark of the ladder jumps.      *)
PageTyped == page \in [chain : SUBSET Listings, ladder : Seq([{"call", "put"} -> Nat])]

LEMMA PageStep ==
  ASSUME PageTyped, PageNext
  PROVE  /\ PageTyped'
         /\ \E n \in Nat : /\ DOMAIN page.ladder = 1 .. n /\ Rungs(page.ladder, n)
                           /\ \E i \in 1 .. n, r \in Rights : Jumped(page.ladder, page'.ladder, n, i, r)
<1>1. PICK L \in Seq([{"call", "put"} -> Nat]) : L = page.ladder /\ page.chain \in SUBSET Listings
  BY DEF PageTyped
<1>2. PICK n \in Nat : n = Len(L) /\ DOMAIN L = 1 .. n /\ \A x \in 1 .. n : L[x] \in [{"call", "put"} -> Nat]
  <2>1. Len(L) \in Nat /\ DOMAIN L = 1 .. Len(L)
    BY <1>1
  <2>2. \A x \in 1 .. Len(L) : L[x] \in [{"call", "put"} -> Nat]
    BY <1>1
  <2> QED BY <2>1, <2>2
<1>3. PICK i \in 1 .. n, r \in Rights : page' = [page EXCEPT !.ladder[i][r] = @ * 10]
  BY <1>1, <1>2 DEF PageNext, Rights
<1>4. page'.chain = page.chain /\ page'.ladder = [L EXCEPT ![i][r] = L[i][r] * 10] /\ DOMAIN page' = {"chain", "ladder"}
  BY <1>1, <1>3 DEF PageTyped
<1>5. PICK step : step = [L[i] EXCEPT ![r] = L[i][r] * 10]
  OBVIOUS
<1>6. PICK more : more = page'.ladder /\ more = [L EXCEPT ![i] = step]
  BY <1>4, <1>5
<1>7. \A q \in Rights : L[i][q] \in Nat /\ step[q] = IF q = r THEN 10 * L[i][r] ELSE L[i][q]
  BY <1>2, <1>5 DEF Rights
<1>8. step \in [{"call", "put"} -> Nat]
  BY <1>2, <1>5 DEF Rights
<1>9. more \in Seq([{"call", "put"} -> Nat])
  BY <1>1, <1>2, <1>6, <1>8
<1>10. PageTyped'
  <2>1. page' = [chain |-> page'.chain, ladder |-> page'.ladder]
    BY <1>3 DEF PageTyped
  <2> QED BY <1>1, <1>4, <1>6, <1>9, <2>1 DEF PageTyped
<1>11. Rungs(L, n)
  BY <1>2 DEF Rungs, Rights
<1>12. Jumped(L, more, n, i, r)
  <2>1. DOMAIN more = 1 .. n /\ more[i] = step /\ \A x \in 1 .. n : x # i => more[x] = L[x]
    BY <1>2, <1>6
  <2> QED BY <1>7, <2>1 DEF Jumped
<1> QED BY <1>1, <1>2, <1>6, <1>10, <1>11, <1>12

(* However many strikes the front lists, the far expirations of a futures    *)
(* chain are shown; and a bad print of a ladder that was in order costs      *)
(* itself and nothing else: no other mark is set aside, none goes unsolved,  *)
(* and from four pairs on the forward is what it was.                        *)
THEOREM BadPrintsAreContained == PageInit /\ [][PageNext]_page => PageIsFair
<1>1. PageInit => PageTyped
  <2> SUFFICES ASSUME PageInit PROVE PageTyped
    OBVIOUS
  <2>1. \A l \in Ladders : l \in Seq([{"call", "put"} -> Nat])
    BY LaddersAssumption
  <2> QED BY <2>1 DEF PageInit, PageTyped
<1>2. PageTyped /\ [PageNext]_page => PageTyped'
  <2>1. ASSUME PageTyped, PageNext PROVE PageTyped'
    BY <2>1, PageStep
  <2>2. ASSUME PageTyped, page' = page PROVE PageTyped'
    BY <2>2 DEF PageTyped
  <2> QED BY <2>1, <2>2
<1>3. PageTyped => FarMonthsAreShown
  <2>1. PageTyped => page.chain \in SUBSET Listings
    BY DEF PageTyped
  <2> QED BY <2>1, FarMonthsAre
<1>4. ASSUME PageTyped, PageNext, InOrder(page.ladder),
             NEW j \in DOMAIN page.ladder, NEW q \in {"call", "put"}, page'.ladder[j][q] # page.ladder[j][q]
      PROVE  CostsItself(page.ladder, page'.ladder, j, q)
  <2>1. PICK n \in Nat : /\ DOMAIN page.ladder = 1 .. n /\ Rungs(page.ladder, n)
                         /\ \E i \in 1 .. n, r \in Rights : Jumped(page.ladder, page'.ladder, n, i, r)
    BY <1>4, PageStep
  <2>2. PICK i \in 1 .. n, r \in Rights : Jumped(page.ladder, page'.ladder, n, i, r)
    BY <2>1
  <2>3. PICK L, bad : L = page.ladder /\ bad = page'.ladder
    OBVIOUS
  <2>4. j = i /\ q = r
    BY <1>4, <2>1, <2>2 DEF Jumped, Rights
  <2>5. L[i][r] > 0
    <3>1. L[i][r] \in Nat /\ bad[i][r] = 10 * L[i][r] /\ bad[i][r] # L[i][r]
      BY <1>4, <2>1, <2>2, <2>3, <2>4 DEF Jumped, Rungs
    <3> QED BY <3>1
  <2>6. Rungs(L, n) /\ InOrder(L) /\ Jumped(L, bad, n, i, r)
    BY <1>4, <2>1, <2>2, <2>3
  <2>7. CostsItself(L, bad, i, r)
    BY ONLY <2>5, <2>6, n \in Nat, i \in 1 .. n, r \in Rights, JumpCostsItself
  <2> QED BY <2>3, <2>4, <2>7
<1>5. PageTyped /\ [PageNext]_page =>
        [page' # page /\ InOrder(page.ladder) =>
           \A i \in DOMAIN page.ladder, r \in {"call", "put"} :
             page'.ladder[i][r] # page.ladder[i][r] => CostsItself(page.ladder, page'.ladder, i, r)]_page
  BY <1>4
<1> QED BY <1>1, <1>2, <1>3, <1>5, PTL DEF PageIsFair, BadPrintIsContained

=============================================================================
