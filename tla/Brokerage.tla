------------------------------ MODULE Brokerage ------------------------------
(***************************************************************************)
(* The broker accounts of a user and the quotes they pay for: the account   *)
(* routes (app.py), the choice of credentials and of a source (market.py),  *)
(* and the TastyTrade adapter with its shared cache of access tokens        *)
(* (brokers/tastytrade.py).  A refresh token is a grant; the broker may     *)
(* revoke it, and an access token may die before its time.                  *)
(***************************************************************************)
EXTENDS Integers, FiniteSets, FiniteSetsExt

CONSTANTS
  Grants,      (* the refresh tokens a user can be given                      *)
  Kinds,       (* of "data", "paper" and "live"                               *)
  MaxAccount,  (* bounds the account ids                                      *)
  QuoteRequests       (* the requests that may be under way at once                  *)

VARIABLES
  accounts,    (* [id -> [broker, kind]]                                      *)
  secrets,     (* [<<id, field>> -> what is sealed there]                     *)
  unlocked,    (* a session holds the key of the vault                        *)
  revoked,     (* the grants that are                                         *)
  tokens,      (* _TOKENS: [grant -> its cached token: "none" or as Held]     *)
  activeKnown, (* _ACTIVE has the front month and it is not an hour old       *)
  quote        (* [request -> its state]                                      *)
brokerVars == <<accounts, secrets, unlocked, revoked, tokens, activeKnown, quote>>

NoGrant == "no grant"
Key == "a key"
NoQuote == [at |-> "idle"]
Fields(broker) == IF broker = "alpaca" THEN {"key_id", "secret_key"} ELSE {"client_secret", "refresh_token"}
ASSUME BrokerAssumption == NoGrant \notin Grants /\ MaxAccount \in Nat

Preference(kind) == CASE kind = "data" -> 0 [] kind = "paper" -> 1 [] kind = "live" -> 2

-----------------------------------------------------------------------------
(* The account routes; each is one transaction.  An id is one more than the  *)
(* largest, so that the last one is used again; secrets go with their account.*)
OfFields(id, fields, g) == [k \in {<<id, f>> : f \in fields} |-> IF k[2] = "refresh_token" THEN g ELSE Key]
Merged(f, g) == [k \in DOMAIN f \cup DOMAIN g |-> IF k \in DOMAIN g THEN g[k] ELSE f[k]]

Creates(broker, kind, g) ==
  LET id == IF DOMAIN accounts = {} THEN 1 ELSE Max(DOMAIN accounts) + 1
  IN /\ unlocked /\ id <= MaxAccount
     /\ accounts' = Merged(accounts, [i \in {id} |-> [broker |-> broker, kind |-> kind]])
     /\ secrets' = Merged(secrets, OfFields(id, Fields(broker), g))
     /\ UNCHANGED <<unlocked, revoked, tokens, activeKnown, quote>>
Rekeys(id, g) ==
  /\ unlocked /\ accounts[id].broker = "tastytrade"
  /\ secrets' = Merged(secrets, OfFields(id, {"refresh_token"}, g))
  /\ UNCHANGED <<accounts, unlocked, revoked, tokens, activeKnown, quote>>
Deletes(id) ==
  /\ unlocked
  /\ accounts' = [i \in DOMAIN accounts \ {id} |-> accounts[i]]
  /\ secrets' = [k \in {j \in DOMAIN secrets : j[1] # id} |-> secrets[k]]
  /\ UNCHANGED <<unlocked, revoked, tokens, activeKnown, quote>>
LocksOrUnlocks ==
  unlocked' = ~unlocked /\ UNCHANGED <<accounts, secrets, revoked, tokens, activeKnown, quote>>

(* alpaca_creds_for, tasty_creds_for: of the accounts of a broker the least  *)
(* valuable one answers; both its fields, or none.                           *)
Best(broker) ==
  {i \in DOMAIN accounts :
     /\ accounts[i].broker = broker
     /\ \A j \in DOMAIN accounts : accounts[j].broker = broker =>
          \/ Preference(accounts[i].kind) < Preference(accounts[j].kind)
          \/ Preference(accounts[i].kind) = Preference(accounts[j].kind) /\ i <= j}
HasCreds(broker) ==
  unlocked /\ \E i \in Best(broker) : \A f \in Fields(broker) : <<i, f>> \in DOMAIN secrets
TastyGrant ==
  IF HasCreds("tastytrade") THEN secrets[<<CHOOSE i \in Best("tastytrade") : TRUE, "refresh_token">>] ELSE NoGrant

-----------------------------------------------------------------------------
(* The broker's side: grants are revoked with all their tokens; a cached     *)
(* token comes within TOKEN_SLACK of its end, or dies before it.  What was   *)
(* minted for a request outlives it.                                         *)
Spoils(g, holds) ==
  quote' = [q \in QuoteRequests |-> IF quote[q].at = "ask" /\ quote[q].grant = g /\ quote[q].holds \in holds
                             THEN [quote[q] EXCEPT !.holds = "dead"] ELSE quote[q]]
Revokes(g) ==
  /\ revoked' = revoked \cup {g} /\ Spoils(g, {"good", "minted"})
  /\ tokens' = [tokens EXCEPT ![g] = IF @ = "none" THEN @ ELSE "dead"]
  /\ UNCHANGED <<accounts, secrets, unlocked, activeKnown>>
TokenDies(g) ==
  /\ tokens[g] = "good" /\ tokens' = [tokens EXCEPT ![g] = "dead"]
  /\ \A q \in QuoteRequests : ~(quote[q].at = "ask" /\ quote[q].grant = g /\ quote[q].holds = "minted")
  /\ Spoils(g, {"good"})
  /\ UNCHANGED <<accounts, secrets, unlocked, revoked, activeKnown>>
TokenAges(g) ==
  /\ tokens[g] # "none" /\ tokens' = [tokens EXCEPT ![g] = "none"]
  /\ UNCHANGED <<accounts, secrets, unlocked, revoked, activeKnown, quote>>
HourPasses ==
  activeKnown /\ activeKnown' = FALSE /\ UNCHANGED <<accounts, secrets, unlocked, revoked, tokens, quote>>

-----------------------------------------------------------------------------
(* quote_for: which source answers first for which class.                    *)
Step(q, to) == quote' = [quote EXCEPT ![q] = to]
Asks(q, class) ==
  /\ quote[q].at \in {"idle", "told"}
  /\ LET new == [at |-> "yahoo", class |-> class, grant |-> TastyGrant, purpose |-> "quote",
                 holds |-> "nothing", again |-> FALSE, refused |-> FALSE,
                 error |-> "no account", source |-> "none", price |-> FALSE]
     IN Step(q, IF class \in {"index", "future"} /\ TastyGrant # NoGrant
                THEN [new EXCEPT !.at = "token",
                                 !.purpose = IF class = "future" /\ ~activeKnown THEN "contract" ELSE "quote"]
                ELSE IF class # "index" /\ class # "future" /\ HasCreds("alpaca") THEN [new EXCEPT !.at = "alpaca"]
                ELSE new)
  /\ UNCHANGED <<accounts, secrets, unlocked, revoked, tokens, activeKnown>>
(* accounts_test_saved: the connection of one account.                       *)
Tests(q, id) ==
  /\ quote[q].at \in {"idle", "told"} /\ unlocked /\ accounts[id].broker = "tastytrade"
  /\ Step(q, [at |-> "token", class |-> "test", grant |-> secrets[<<id, "refresh_token">>], purpose |-> "accounts",
              holds |-> "nothing", again |-> FALSE, refused |-> FALSE,
              error |-> "none", source |-> "none", price |-> FALSE])
  /\ UNCHANGED <<accounts, secrets, unlocked, revoked, tokens, activeKnown>>

Over(r) == [r EXCEPT !.purpose = "quote", !.holds = "nothing", !.again = FALSE]
Told(r, source, price) == [Over(r) EXCEPT !.at = "told", !.source = source, !.price = price]
Fails(r, why) == IF r.class = "test" THEN [Told(r, "none", FALSE) EXCEPT !.error = why]
                 ELSE [Over(r) EXCEPT !.at = "yahoo", !.error = why]
Refused(r) == Fails([r EXCEPT !.refused = TRUE], "re-enter")

(* Mutant: the token of the cache is good enough for the second attempt.     *)
FromCache_Always(r) == tokens[r.grant] # "none"

(* _token: the cached one, unless it is to be replaced; else one is minted,  *)
(* under the lock.  _mint takes every 400 for a grant that is dead.          *)
FromCache(r) == ~r.again /\ tokens[r.grant] # "none"
TakesToken(q) ==
  LET r == quote[q] IN
  /\ r.at = "token"
  /\ \/ /\ FromCache(r) /\ Step(q, [r EXCEPT !.at = "ask", !.holds = tokens[r.grant]])
        /\ UNCHANGED tokens
     \/ /\ ~FromCache(r) /\ r.grant \notin revoked
        /\ Step(q, [r EXCEPT !.at = "ask", !.holds = "minted"])
        /\ tokens' = [tokens EXCEPT ![r.grant] = "good"]
     \/ ~FromCache(r) /\ Step(q, Fails(r, "network")) /\ UNCHANGED tokens
     \/ ~FromCache(r) /\ Step(q, Refused(r)) /\ UNCHANGED tokens
  /\ UNCHANGED <<accounts, secrets, unlocked, revoked, activeKnown>>

(* _get: a 401 is answered with one new token, a second one with an error; a *)
(* 403 is an error at once; the front month is looked up before the quote of *)
(* a future.                                                                 *)
SendsRequest(q) ==
  LET r == quote[q] IN
  /\ r.at = "ask"
  /\ \/ /\ r.holds = "dead" /\ UNCHANGED activeKnown
        /\ Step(q, IF r.again THEN Fails(r, "re-enter") ELSE [r EXCEPT !.at = "token", !.again = TRUE])
     \/ Step(q, Refused(r)) /\ UNCHANGED activeKnown
     \/ Step(q, Fails(r, "network")) /\ UNCHANGED activeKnown
     \/ /\ r.holds # "dead" /\ r.purpose = "contract" /\ activeKnown' = TRUE
        /\ Step(q, [r EXCEPT !.at = "token", !.purpose = "quote", !.again = FALSE])
     \/ /\ r.holds # "dead" /\ r.purpose # "contract" /\ UNCHANGED activeKnown
        /\ \E price \in BOOLEAN : Step(q, Told(r, "tastytrade", price))
  /\ UNCHANGED <<accounts, secrets, unlocked, revoked, tokens>>
AsksAlpaca(q) ==
  /\ quote[q].at = "alpaca"
  /\ \/ Step(q, Fails(quote[q], "alpaca"))
     \/ \E price \in BOOLEAN : Step(q, Told(quote[q], "alpaca (IEX)", price))
  /\ UNCHANGED <<accounts, secrets, unlocked, revoked, tokens, activeKnown>>
AsksYahoo(q) ==
  /\ quote[q].at = "yahoo"
  /\ \/ \E price \in BOOLEAN :
          (quote[q].class = "future" => price) /\ Step(q, Told(quote[q], "yahoo (delayed)", price))
     \/ Step(q, Told(quote[q], "none", FALSE))
  /\ UNCHANGED <<accounts, secrets, unlocked, revoked, tokens, activeKnown>>

BrokerInit ==
  /\ accounts = <<>> /\ secrets = <<>> /\ unlocked = TRUE /\ revoked = {}
  /\ tokens = [g \in Grants |-> "none"] /\ activeKnown = FALSE /\ quote = [q \in QuoteRequests |-> NoQuote]
BrokerNext ==
  \/ \E broker \in {"alpaca", "tastytrade"}, kind \in Kinds, g \in Grants : Creates(broker, kind, g)
  \/ \E id \in DOMAIN accounts : Deletes(id) \/ \E g \in Grants : Rekeys(id, g)
  \/ LocksOrUnlocks \/ HourPasses
  \/ \E g \in Grants : Revokes(g) \/ TokenDies(g) \/ TokenAges(g)
  \/ \E q \in QuoteRequests :
       \/ \E class \in {"us_equity", "crypto", "index", "future"} : Asks(q, class)
       \/ \E id \in DOMAIN accounts : Tests(q, id)
       \/ TakesToken(q) \/ SendsRequest(q) \/ AsksAlpaca(q) \/ AsksYahoo(q)

BrokerSpec == BrokerInit /\ [][BrokerNext]_brokerVars

-----------------------------------------------------------------------------
(* Whatever happens to the accounts and tokens meanwhile, a quote says where *)
(* it is from, and no index or future is told from a feed that has none.  A  *)
(* token that died early is replaced and never told: the user is asked to    *)
(* enter a grant again when it has been revoked, or when the broker refused  *)
(* it outright (a mint answered 400, a request answered 403).  And an        *)
(* account has the fields of its broker, however ids are used again.         *)
QuoteIsHonest ==
  /\ \A q \in QuoteRequests : quote[q].at = "told" =>
       /\ quote[q].error = "re-enter" => quote[q].refused \/ quote[q].grant \in revoked
       /\ quote[q].source = "alpaca (IEX)" => quote[q].class \in {"us_equity", "crypto"}
       /\ quote[q].source = "tastytrade" => quote[q].class \notin {"us_equity", "crypto"} /\ quote[q].grant # NoGrant
       /\ quote[q].price => quote[q].source # "none"
  /\ DOMAIN secrets = UNION {{<<id, f>> : f \in Fields(accounts[id].broker)} : id \in DOMAIN accounts}

(* TLC refutes that the grant was revoked whenever the user is told to enter *)
(* it again: every 400 of a mint and every 403 says so.                      *)
ToldOfTheRevoked ==
  \A q \in QuoteRequests : quote[q].at = "told" /\ quote[q].error = "re-enter" => quote[q].grant \in revoked
=============================================================================
