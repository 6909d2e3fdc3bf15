--------------------------- MODULE GatewayBrowser ---------------------------
(***************************************************************************)
(* A browser at the hosts of the Gateway: each endpoint of a codespace has *)
(* a host of its own, behind which a Runtime serves pages.  Tabs are sent  *)
(* to Gitea to sign in and come back with an open code; cookies carry the  *)
(* session and the page to return to.  The pages of Runtimes set cookies   *)
(* too and send requests to their own and to other hosts.                  *)
(***************************************************************************)
CONSTANTS
    Hosts,       \* endpoint hosts of the Gateway's domain
    PublicHosts, \* those whose route is public
    Tabs

\* Who wrote a cookie and where it is sent is told apart by these words.
ASSUME HostNames == "gateway" \notin Hosts /\ "domain" \notin Hosts

VARIABLES
    jar,      \* the browser's cookies
    tabs,     \* where each tab is
    valid,    \* hosts with a session that Gateway and Gitea still accept
    asked,    \* history: the pages asked for at a host
    seen      \* history: what the step before brought to a Runtime

browserVars == <<jar, tabs, valid, asked, seen>>

\* "bad" stands for what sanitizeGatewayReturnTo does not let pass: too long,
\* another host, control characters, the open path itself.
Root  == "/"
Pages == {Root, "/app", "bad"}
AnyReturnTo(page) == page
sanitizeGatewayReturnTo(page) == IF page = "bad" THEN Root ELSE page

ReservedCookies == {"session", "return"}
Nothing  == [at |-> "nothing"]

BrowserInit ==
    /\ jar = {} /\ tabs = [t \in Tabs |-> Nothing] /\ valid = {}
    /\ asked = [h \in Hosts |-> {Root}] /\ seen = Nothing

Sent(h) == {c \in jar : c.host \in {h, "domain"}}
Clear(h, names) == {c \in jar : ~(c.host = h /\ c.name \in names)}
Set(h, name, value) ==
    Clear(h, {name}) \cup {[name |-> name, host |-> h, value |-> value, by |-> "gateway"]}

(***************************************************************************)
(* What a browser says about a request (external: the Fetch standard).  A  *)
(* request comes from a page of the same host, of another one, from the    *)
(* address bar, or from a program that sends none of these headers.        *)
(***************************************************************************)
Sources  == [from : {"own", "other", "bar", "tool"}, method : {"GET", "POST"},
             mode : {"navigate", "cors", "no-cors", "websocket"}, top : BOOLEAN]
Possible(q) ==
    /\ q.top => q.mode = "navigate"
    /\ q.from = "bar" => q.mode = "navigate" /\ q.top /\ q.method = "GET"
    /\ q.mode = "websocket" => q.method = "GET"
OriginOf(q) ==
    IF q.from = "tool" \/ (q.method = "GET" /\ q.mode \in {"navigate", "no-cors"})
    THEN "none" ELSE q.from
SiteOf(q) == CASE q.from = "own" -> "same-origin" [] q.from = "other" -> "other"
               [] q.from = "bar" -> "none" [] q.from = "tool" -> "absent"

\* isGatewayAuthenticatedSourceAllowed
OriginIgnored(q) == TRUE
gatewayOriginMatches(q) == OriginOf(q) = "own"
IsTopLevelNavigation(q) == q.from # "tool" /\ q.mode = "navigate" /\ q.top
SourceAllowed(q) ==
    IF q.mode = "websocket" \/ q.method = "POST" \/ OriginOf(q) # "none"
    THEN gatewayOriginMatches(q)
    ELSE SiteOf(q) = "same-origin" \/ IsTopLevelNavigation(q) \/ q.from = "tool"

(***************************************************************************)
(* Requests.                                                               *)
(***************************************************************************)
HasSession(h) == h \in valid /\ \E c \in Sent(h) : c.name = "session" /\ c.by = "gateway"

\* rebuildGatewayProxyCookieHeader
Forwarded(h) == {c \in Sent(h) : c.name \notin ReservedCookies}

\* The request comes from a page of another host, and is not a tab's own move.
Foreign(q) == q.from = "other" /\ ~(q.mode = "navigate" /\ q.top /\ q.method = "GET")
Typed == [from |-> "bar", method |-> "GET", mode |-> "navigate", top |-> TRUE]
Reaches(q, h) ==
    seen' = [at |-> h, foreign |-> Foreign(q), cookies |-> {c.by : c \in Forwarded(h)}]
NotSeen == seen' = Nothing

\* A page is asked for in a tab: served, sent to sign in, or refused.
Visit(t, h, page) ==
    /\ asked' = [asked EXCEPT ![h] = @ \cup {page}]
    /\ IF h \in PublicHosts
       THEN /\ jar' = Clear(h, ReservedCookies)
            /\ tabs' = [tabs EXCEPT ![t] = [at |-> "page", host |-> h, page |-> page]]
            /\ Reaches(Typed, h)
       ELSE IF HasSession(h)
       THEN /\ jar' = Set(h, "session", "ticket")
            /\ tabs' = [tabs EXCEPT ![t] = [at |-> "page", host |-> h, page |-> page]]
            /\ Reaches(Typed, h)
       ELSE /\ jar' = Set(h, "return", sanitizeGatewayReturnTo(page))
            /\ tabs' = [tabs EXCEPT ![t] = [at |-> "gitea", host |-> h]]
            /\ NotSeen
    /\ UNCHANGED valid

\* Gitea sends the tab back with a code.
Authorize(t) ==
    /\ tabs[t].at = "gitea" /\ tabs' = [tabs EXCEPT ![t].at = "open"]
    /\ NotSeen /\ UNCHANGED <<jar, valid, asked>>

\* gatewayReturnToPathFromRequest, gatewayOpenRedirectPath
ReturnValue(c) == sanitizeGatewayReturnTo(c.value)
ReturnTo(h) ==
    LET values == {ReturnValue(c) : c \in {d \in Sent(h) : d.name = "return"}}
    IN  IF \E v \in values : values = {v} THEN CHOOSE v \in values : TRUE ELSE Root

\* handleGatewayOpen: every outcome takes the page to return to away.
Open(t, allowed) ==
    LET h == tabs[t].host IN
    /\ tabs[t].at = "open"
    /\ IF allowed
       THEN /\ valid' = valid \cup {h}
            /\ jar' = {c \in Set(h, "session", "ticket") : c.name # "return" \/ c.host # h}
            /\ tabs' = [tabs EXCEPT ![t] = [at |-> "land", host |-> h, page |-> ReturnTo(h)]]
       ELSE /\ jar' = Clear(h, {"return"}) /\ tabs' = [tabs EXCEPT ![t] = Nothing]
            /\ UNCHANGED valid
    /\ NotSeen /\ UNCHANGED asked

\* The redirect of Open is followed.
Land(t) ==
    LET h == tabs[t].host
    IN  /\ tabs[t].at = "land"
        /\ IF HasSession(h)
           THEN /\ tabs' = [tabs EXCEPT ![t].at = "page"] /\ Reaches(Typed, h)
                /\ jar' = Set(h, "session", "ticket")
           ELSE /\ tabs' = [tabs EXCEPT ![t] = [at |-> "gitea", host |-> h]]
                /\ jar' = Set(h, "return", sanitizeGatewayReturnTo(tabs[t].page)) /\ NotSeen
        /\ UNCHANGED <<valid, asked>>

\* A request of a page, or of anything else that has the cookies.
Send(h, q) ==
    /\ Possible(q) /\ h \notin PublicHosts
    /\ SourceAllowed(q) /\ HasSession(h)
    /\ jar' = Set(h, "session", "ticket") /\ Reaches(q, h)
    /\ UNCHANGED <<tabs, valid, asked>>

\* normalizeGatewayProxySetCookie: a Runtime sets a cookie with a name and for
\* its host or for the whole domain.
CookieHost(h, domain) == h
SetCookie(h, name, domain) ==
    /\ \E t \in Tabs : tabs[t].at = "page" /\ tabs[t].host = h
    /\ name \notin ReservedCookies
    /\ jar' = {c \in jar : ~(c.host = CookieHost(h, domain) /\ c.name = name)}
                \cup {[name |-> name, host |-> CookieHost(h, domain), value |-> "x", by |-> h]}
    /\ NotSeen /\ UNCHANGED <<tabs, valid, asked>>

\* handleGatewayPublicEndpoint for a path below /p/ at a host that is not public:
\* the Gateway's cookies are taken away before the page is found to be missing.
VisitPublicPath(t, h) ==
    /\ h \notin PublicHosts
    /\ jar' = Clear(h, ReservedCookies) /\ tabs' = [tabs EXCEPT ![t] = Nothing]
    /\ NotSeen /\ UNCHANGED <<valid, asked>>

\* The session ends at the Gateway; the cookie with the page lives for minutes.
SessionEnds(h) ==
    /\ h \in valid /\ valid' = valid \ {h}
    /\ NotSeen /\ UNCHANGED <<jar, tabs, asked>>
ReturnExpires(h) ==
    /\ jar' = Clear(h, {"return"}) /\ jar' # jar
    /\ NotSeen /\ UNCHANGED <<tabs, valid, asked>>

BrowserNext ==
    \/ \E t \in Tabs : \/ \E h \in Hosts, page \in Pages : Visit(t, h, page)
                       \/ \E h \in Hosts : VisitPublicPath(t, h)
                       \/ Authorize(t) \/ Land(t) \/ \E ok \in BOOLEAN : Open(t, ok)
    \/ \E h \in Hosts : \/ \E q \in Sources : Send(h, q)
                        \/ \E name \in ReservedCookies \cup {"app"}, d \in BOOLEAN : SetCookie(h, name, d)
                        \/ SessionEnds(h) \/ ReturnExpires(h)

BrowserSpec == BrowserInit /\ [][BrowserNext]_browserVars

-----------------------------------------------------------------------------
\* rebuildGatewayProxyCookieHeader, normalizeGatewayProxySetCookie: a Runtime
\* never receives a cookie of the Gateway or of another Runtime, and cannot
\* write one, whatever it asks the browser to keep; and
\* isGatewayAuthenticatedSourceAllowed: a page of another host reaches a Runtime
\* with the user's session only by navigating a tab to it.
RuntimesApart ==
    /\ \A c \in jar : c.name \in ReservedCookies <=> c.by = "gateway"
    /\ seen # Nothing => seen.cookies \subseteq {seen.at} /\ ~seen.foreign

\* gatewayReturnToPathFromRequest: a tab that has signed in lands on a page that
\* was asked for at this host, or at its root, and never on one that must not be
\* returned to.
LandsWhereAsked ==
    \A t \in Tabs : tabs[t].at = "land" =>
        tabs[t].page \in asked[tabs[t].host] /\ tabs[t].page # "bad"
=============================================================================
