------------------------------ MODULE Browsing ------------------------------
(***************************************************************************)
(* What a client remembers between requests: the hops of a redirected      *)
(* fetch (performFetch of src/client.js with client/redirect.js) and the   *)
(* cookies of its jar (client/cookies.js), which all its fetches share.    *)
(*                                                                         *)
(* A URL is its scheme, host, port and path; a host is a sequence of       *)
(* labels, and a path a sequence of one-letter segments, the last one ""   *)
(* after a trailing slash.  The credentials of a request are the Authorization,    *)
(* Cookie and Proxy-Authorization its caller gave; a body stands for       *)
(* itself and the headers that describe it.  The servers are external.     *)
(***************************************************************************)
EXTENDS Integers, FiniteSets, SequencesExt

CONSTANTS Fetches, Urls, Methods, Statuses,
          Answers,       \* the sequences of Set-Cookie a response may carry
          MaxRedirects, MaxCookies, MaxPerDomain,
          Absent,        \* no such attribute
          Forever,       \* the expiry of a session cookie
          MaxTime,       \* bound: the clock
          MaxSets        \* bound: Set-Cookie headers received

ASSUME BrowsingAssumption ==
  /\ {MaxRedirects, MaxCookies, MaxPerDomain, MaxTime, MaxSets} \subseteq Nat
  /\ Forever \in Nat /\ Forever > MaxTime
  /\ MaxCookies >= MaxPerDomain /\ MaxPerDomain > 0

\* A path is a sequence, and where Max-Age and Expires are given they are numbers.
ASSUME CookieAssumption ==
  /\ \A url \in Urls : url.path \in Seq(STRING)
  /\ \A answer \in Answers :
       /\ answer \in Seq(ToSet(answer))
       /\ \A s \in ToSet(answer) :
            /\ {s.maxAge, s.expires} \ {Absent} \subseteq Int
            /\ s.path = Absent \/ s.path \in Seq(STRING)

Redirecting == {301, 302, 303, 307, 308}

VARIABLES
  call,     \* each fetch: see Idle
  jar,      \* CookieJar._cookies, one record for each domain, path and name
  clock,
  sets,     \* history: every Set-Cookie received, in order
  evicted   \* history: the numbers of those whose cookie a cap evicted

browsingVars == <<call, jar, clock, sets, evicted>>

(***************************************************************************)
(*   at       "idle", also once it returned or failed, "ready" to send a   *)
(*            request or "sent"                                            *)
(*   url, method, body, credentials   the request of the current hop       *)
(*   history  the requests answered with a redirect so far                 *)
(*   asked    history: the request the caller made                         *)
(*   cookies  the cookies sent                                             *)
(***************************************************************************)
Idle == [at |-> "idle"]

BrowsingInit == call = [f \in Fetches |-> Idle] /\ jar = {} /\ clock = 0 /\ sets = <<>> /\ evicted = {}

-----------------------------------------------------------------------------
\* Matching: domainMatches, pathMatches, defaultPath.

DomainMatches(host, domain) == IsSuffix(domain, host)
PathMatches(path, scope) ==
  \/ path = scope
  \/ Len(scope) <= Len(path) /\ IsPrefix(IF Last(scope) = "" THEN Front(scope) ELSE scope, path)
DefaultPath(path) == IF Len(path) = 1 THEN <<"">> ELSE Front(path)
PathLength(path) == IF Last(path) = "" THEN 2 * Len(path) - 1 ELSE 2 * Len(path)

InScope(c, url) ==
  /\ IF c.hostOnly THEN url.host = c.domain ELSE DomainMatches(url.host, c.domain)
  /\ PathMatches(url.path, c.path)
  /\ c.secure => url.scheme = "https"

-----------------------------------------------------------------------------
\* Storing: setFromResponse.  A Set-Cookie is its name's prefix and rest, and
\* its attributes.

AcceptableCookie(s, url) ==
  /\ s.secure => url.scheme = "https"
  /\ s.prefix = "__Secure-" => s.secure
  /\ s.prefix = "__Host-" => s.secure /\ s.domain = Absent /\ s.path = <<"">>
  /\ s.domain # Absent => IF Len(s.domain) = 1 THEN s.domain = url.host
                          ELSE DomainMatches(url.host, s.domain)

Expiry(s) == IF s.maxAge # Absent THEN (IF s.maxAge <= 0 THEN -1 ELSE clock + s.maxAge)
             ELSE IF s.expires # Absent THEN s.expires ELSE Forever

HostOnly(s) == s.domain = Absent \/ Len(s.domain) = 1
KeyOf(c) == <<c.domain, c.path, c.prefix, c.name>>
Record(s, url, n) ==
  [prefix |-> s.prefix, name |-> s.name, secure |-> s.secure,
   domain |-> IF HostOnly(s) THEN url.host ELSE s.domain, hostOnly |-> HostOnly(s),
   path |-> IF s.path = Absent THEN DefaultPath(url.path) ELSE s.path,
   expiry |-> Expiry(s), value |-> n, seq |-> n]

Oldest(cookies, n) ==
  {c \in cookies : Cardinality({d \in cookies : d.seq < c.seq}) < n}
Excess(cookies, limit) == Oldest(cookies, Cardinality(cookies) - limit)
Alive(cookies) == {c \in cookies : c.expiry > clock}

\* Mutant: the caps count the expired too, and evict before they are swept.
EnforceCapsUnswept(cookies, domain) ==
  LET kept == cookies \ Excess({c \in cookies : c.domain = domain}, MaxPerDomain)
  IN Alive(kept \ Excess(kept, MaxCookies))
\* Expired ones first; then the oldest of the domain, then the oldest of all.
EnforceCaps(cookies, domain) ==
  LET alive == Alive(cookies)
      kept  == alive \ Excess({c \in alive : c.domain = domain}, MaxPerDomain)
  IN kept \ Excess(kept, MaxCookies)

\* _setOne: the cookies and the evictions after one Set-Cookie, the n-th received.
\* What replaces a cookie keeps its place in the order of creation.
SetOne(store, s, url, n) ==
  LET new   == Record(s, url, n)
      old   == {c \in store.cookies : KeyOf(c) = KeyOf(new)}
      aged  == IF old = {} THEN new ELSE [new EXCEPT !.seq = (CHOOSE c \in old : TRUE).seq]
      added == (store.cookies \ old) \union {aged}
      kept  == EnforceCaps(added, new.domain)
  IN CASE ~AcceptableCookie(s, url) -> store
       [] AcceptableCookie(s, url) /\ new.expiry <= clock -> [store EXCEPT !.cookies = @ \ old]
       [] OTHER -> [cookies |-> kept,
                    evicted |-> store.evicted \union {c.value : c \in Alive(added) \ kept}]

SetFromResponse(url, answer) ==
  LET store[i \in 0..Len(answer)] ==
        IF i = 0 THEN [cookies |-> jar, evicted |-> evicted]
        ELSE SetOne(store[i - 1], answer[i], url, Len(sets) + i)
  IN store[Len(answer)]

Receive(url, answer) ==
  /\ Len(sets) + Len(answer) <= MaxSets
  /\ LET store == SetFromResponse(url, answer)
     IN jar' = store.cookies /\ evicted' = store.evicted
  /\ sets' = sets \o [i \in DOMAIN answer |-> [set |-> answer[i], url |-> url, time |-> clock]]

-----------------------------------------------------------------------------
\* Sending: headerFor, which drops what has expired as it goes.

Matching(url) == {c \in Alive(jar) : InScope(c, url)}
Precedes(c, d) ==
  \/ PathLength(c.path) > PathLength(d.path)
  \/ PathLength(c.path) = PathLength(d.path) /\ c.seq < d.seq
\* The sort: each cookie at the place its predecessors leave it.
Sorted(cookies) ==
  [i \in 1..Cardinality(cookies) |->
     CHOOSE c \in cookies : Cardinality({d \in cookies : Precedes(d, c)}) = i - 1]

Fetch(f) ==
  /\ call[f].at = "idle"
  /\ \E url \in Urls, m \in Methods :
       call' = [call EXCEPT ![f] =
         [at |-> "ready", url |-> url, method |-> m, body |-> m \in {"POST", "PUT"},
          credentials |-> TRUE, history |-> <<>>, asked |-> [url |-> url, method |-> m],
          cookies |-> <<>>]]
  /\ UNCHANGED <<jar, clock, sets, evicted>>

Send(f) ==
  /\ call[f].at = "ready"
  /\ call' = [call EXCEPT ![f].at = "sent",
                          ![f].cookies = Sorted(Matching(call[f].url))]
  /\ jar' = Alive(jar)
  /\ UNCHANGED <<clock, sets, evicted>>

-----------------------------------------------------------------------------
\* nextRequest.

RewriteMethod(status, m) ==
  IF status = 303 THEN (IF m = "HEAD" THEN "HEAD" ELSE "GET")
  ELSE IF status \in {301, 302} /\ m = "POST" THEN "GET" ELSE m

Origin(url) == <<url.scheme, url.host, url.port>>

\* Mutant: the origin of the fetch, not of the hop before, decides what is stripped.
NextRequestFromFirst(c, status, url) ==
  LET m == RewriteMethod(status, c.method)
  IN [c EXCEPT !.at = "ready", !.url = url, !.method = m,
               !.credentials = Origin(url) = Origin(c.asked.url), !.body = @ /\ m = c.method, !.cookies = <<>>,
               !.history = Append(@, <<c.method, c.url>>)]
NextRequest(c, status, url) ==
  LET m == RewriteMethod(status, c.method)
  IN [c EXCEPT !.at = "ready", !.url = url, !.method = m,
               !.credentials = @ /\ Origin(url) = Origin(c.url), !.body = @ /\ m = c.method, !.cookies = <<>>,
               !.history = Append(@, <<c.method, c.url>>)]

Loops(c, next) == <<next.method, next.url>> \in ToSet(Append(c.history, <<c.method, c.url>>))

\* A redirect ends the fetch when its mode is "manual" or "error", and when the
\* Location is missing, does not parse or has another scheme.
Respond(f) ==
  /\ call[f].at = "sent"
  /\ \E status \in Statuses, answer \in Answers :
       /\ Receive(call[f].url, answer)
       /\ \/ call' = [call EXCEPT ![f] = Idle]
          \/ /\ status \in Redirecting
             /\ \E url \in Urls :
                  LET next == NextRequest(call[f], status, url)
                      ends == Len(call[f].history) >= MaxRedirects \/ Loops(call[f], next)
                  IN call' = [call EXCEPT ![f] = IF ends THEN Idle ELSE next]
  /\ UNCHANGED clock

Tick == clock < MaxTime /\ clock' = clock + 1 /\ UNCHANGED <<call, jar, sets, evicted>>

BrowsingNext == (\E f \in Fetches : Fetch(f) \/ Send(f) \/ Respond(f)) \/ Tick
BrowsingSpec == BrowsingInit /\ [][BrowsingNext]_browsingVars

-----------------------------------------------------------------------------
Active == {f \in Fetches : call[f].at \in {"ready", "sent"}}

(***************************************************************************)
(* However a fetch is redirected: the caller's credentials go to no origin *)
(* but the one it asked, and not even there once the fetch has been        *)
(* elsewhere; a body goes only with the caller's own method; no request is *)
(* made twice, and there are no more of them than the limit (redirect.js). *)
(***************************************************************************)
CredentialsStayHome ==
  \A f \in Active : call[f].credentials =>
    \A url \in {call[f].url} \union {h[2] : h \in ToSet(call[f].history)} :
      Origin(url) = Origin(call[f].asked.url)
BodyWithItsMethod == \A f \in Active : call[f].body => call[f].method = call[f].asked.method
NoRequestTwice ==
  \A f \in Active : LET h == call[f].history IN
    /\ Len(h) <= MaxRedirects /\ IsInjective(h)
    /\ <<call[f].method, call[f].url>> \notin ToSet(h)
RedirectsSafe == CredentialsStayHome /\ BodyWithItsMethod /\ NoRequestTwice

(***************************************************************************)
(* RFC 6265 of the history alone: a cookie is sent to a URL when the last  *)
(* Set-Cookie of its name, domain and path was accepted from a host its    *)
(* domain covers, its scope includes the URL, and its life is not over;    *)
(* every such cookie is sent but the evicted, the longer paths first.      *)
(***************************************************************************)
Domain(e) == IF HostOnly(e.set) THEN e.url.host ELSE e.set.domain
Path(e) == IF e.set.path = Absent THEN DefaultPath(e.url.path) ELSE e.set.path
Same(d, e) == Domain(d) = Domain(e) /\ Path(d) = Path(e) /\ d.set.prefix = e.set.prefix /\ d.set.name = e.set.name
Dies(e) == CASE e.set.maxAge # Absent -> IF e.set.maxAge > 0 THEN e.time + e.set.maxAge ELSE e.time
             [] e.set.maxAge = Absent /\ e.set.expires # Absent -> e.set.expires
             [] OTHER -> Forever
Accepted(i) == AcceptableCookie(sets[i].set, sets[i].url)
Due(url, time) ==
  {i \in DOMAIN sets : LET e == sets[i] IN
     /\ Accepted(i) /\ e.time <= time /\ time < Dies(e)
     /\ \A j \in (i + 1)..Len(sets) : Accepted(j) /\ Same(sets[j], e) => FALSE
     /\ IF HostOnly(e.set) THEN url.host = e.url.host ELSE IsSuffix(e.set.domain, url.host)
     /\ PathMatches(url.path, Path(e))
     /\ e.set.secure => url.scheme = "https" /\ e.url.scheme = "https"}

SentExactly ==
  \A f \in Fetches : call[f].at = "ready" /\ call'[f].at = "sent" =>
    LET sent == call'[f].cookies IN
    /\ {sent[i].value : i \in DOMAIN sent} = Due(call[f].url, clock) \ evicted
    /\ \A i \in 1..(Len(sent) - 1) : PathLength(sent[i].path) >= PathLength(sent[i + 1].path)

(***************************************************************************)
(* The jar never exceeds its caps, and a Set-Cookie evicts a cookie only   *)
(* when as many live and younger ones as the cap allows remain, of its     *)
(* domain or in all (_enforceCaps).                                        *)
(***************************************************************************)
CapsKept ==
  /\ Cardinality(jar') <= MaxCookies
  /\ \A c \in jar' : Cardinality({d \in jar' : d.domain = c.domain}) <= MaxPerDomain
  /\ \A c \in jar : c.value \in evicted' \ evicted /\ Len(sets') = Len(sets) + 1 =>
       LET younger == {d \in jar' : d.seq > c.seq /\ d.expiry > clock}
       IN \/ Cardinality({d \in younger : d.domain = c.domain}) = MaxPerDomain
          \/ Cardinality(younger) = MaxCookies

\* What is sent is exact and what is kept is bounded.
CookiesExact == [][SentExactly /\ CapsKept]_browsingVars
=============================================================================
