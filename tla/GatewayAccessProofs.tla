------------------------- MODULE GatewayAccessProofs ------------------------
(***************************************************************************)
(* Four parts of the Gateway's access path, each for every value of its    *)
(* constants: what a browser sends to the Runtimes it visits, what an SSH  *)
(* client reads before the exit status, how often a key may fail to        *)
(* authenticate, and when a Runtime counts as idle.                        *)
(***************************************************************************)
EXTENDS GatewayBrowser, SSHChannel, SSHAuthLimiter, GatewayActivity, FiniteSetTheorems, TLAPS

(***************************************************************************)
(* The browser: BrowserIInv.                                               *)
(*                                                                         *)
(* RuntimesApart speaks of what has been sent and LandsWhereAsked of tabs  *)
(* that have landed; both follow from what the jar holds. Every cookie is  *)
(* kept for the host whose Gateway or Runtime wrote it, so a host receives *)
(* no other's; reserved names are the Gateway's alone, so what is left     *)
(* when they are removed is the Runtime's own; and a page to return to was *)
(* asked for at the host it is kept for.                                   *)
(***************************************************************************)
(* A tab is at no page, on its way through Gitea, or at a page of a host.    *)
TabStates ==
  {Nothing} \cup [at : {"gitea", "open"}, host : Hosts]
            \cup [at : {"page", "land"}, host : Hosts, page : Pages]

BrowserType ==
  /\ tabs \in [Tabs -> TabStates]
  /\ asked \in [Hosts -> SUBSET Pages] /\ \A h \in Hosts : Root \in asked[h]

(* Every cookie is kept for the host whose Gateway or Runtime wrote it, and  *)
(* a page to return to was asked for at that host.                           *)
CookieKnown(c, pages) ==
  /\ c.host \in Hosts
  /\ c.name \in ReservedCookies <=> c.by = "gateway"
  /\ c.name \notin ReservedCookies => c.by = c.host
  /\ c.name = "return" => c.value \in pages[c.host] /\ c.value # "bad"
CookiesKnown == \A c \in jar : CookieKnown(c, asked)

(* What reaches a Runtime is its own, and no other page's.                   *)
SeenKnown == seen # Nothing => seen.cookies \subseteq {seen.at} /\ ~seen.foreign

BrowserIInv == BrowserType /\ CookiesKnown /\ SeenKnown /\ LandsWhereAsked

(* A page that is returned to is one that may be.                            *)
LEMMA Sanitized ==
  ASSUME NEW page \in Pages
  PROVE  /\ sanitizeGatewayReturnTo(page) \in {page, Root} \cap Pages
         /\ sanitizeGatewayReturnTo(page) # "bad"
BY Zenon DEF sanitizeGatewayReturnTo, Pages, Root

(* A cookie the Gateway sets is its own and for its host.                    *)
LEMMA GatewaySets ==
  ASSUME CookiesKnown, NEW h \in Hosts, NEW name \in ReservedCookies, NEW value,
         NEW pages, \A g \in Hosts : asked[g] \subseteq pages[g],
         name = "return" => value \in pages[h] /\ value # "bad"
  PROVE  \A c \in Set(h, name, value) : CookieKnown(c, pages)
<1> DEFINE new == [name |-> name, host |-> h, value |-> value, by |-> "gateway"]
<1>1. CookieKnown(new, pages)
  BY Zenon DEF CookieKnown
<1>2. \A c \in jar : CookieKnown(c, pages)
  BY Zenon DEF CookiesKnown, CookieKnown
<1> QED
  BY Zenon, <1>1, <1>2 DEF Set, Clear

(* Of the cookies sent to a host the Runtime gets its own only.              *)
LEMMA ForwardedOwn ==
  ASSUME CookiesKnown, NEW h \in Hosts, NEW q, ~Foreign(q), Reaches(q, h)
  PROVE  SeenKnown'
<1>1. \A c \in Forwarded(h) : c.by = h
  BY Zenon, HostNames DEF Forwarded, Sent, CookiesKnown, CookieKnown
<1>2. {c.by : c \in Forwarded(h)} \subseteq {h}
  BY Zenon, <1>1
<1> QED
  BY Zenon, <1>2 DEF Reaches, SeenKnown

(* isGatewayAuthenticatedSourceAllowed turns away what a page of another     *)
(* host sends on its own.                                                    *)
LEMMA AllowedIsNotForeign ==
  ASSUME NEW q \in Sources, SourceAllowed(q)
  PROVE  ~Foreign(q)
BY Zenon DEF Sources, SourceAllowed, Foreign, OriginOf, SiteOf, gatewayOriginMatches, IsTopLevelNavigation

(* The page a tab returns to was asked for at its host.                      *)
LEMMA ReturnsWhereAsked ==
  ASSUME BrowserType, CookiesKnown, NEW h \in Hosts
  PROVE  ReturnTo(h) \in asked[h] /\ ReturnTo(h) \in Pages /\ ReturnTo(h) # "bad"
<1> DEFINE values == {ReturnValue(c) : c \in {d \in Sent(h) : d.name = "return"}}
<1>1. ASSUME NEW v \in values PROVE v \in asked[h] /\ v # "bad"
  <2>1. PICK c \in Sent(h) : c.name = "return" /\ v = ReturnValue(c)
    BY Zenon, <1>1
  <2>2. c.host = h /\ c.value \in asked[h] /\ c.value # "bad"
    BY Zenon, <2>1, HostNames DEF Sent, CookiesKnown, CookieKnown
  <2> QED
    BY Zenon, <2>1, <2>2 DEF ReturnValue, sanitizeGatewayReturnTo
<1>2. Root \in asked[h] /\ Root # "bad" /\ asked[h] \subseteq Pages
  BY Zenon DEF BrowserType, Root
<1>3. ReturnTo(h) = IF \E v \in values : values = {v} THEN CHOOSE v \in values : TRUE ELSE Root
  BY Zenon DEF ReturnTo
<1> HIDE DEF values
<1>4. CASE \E v \in values : values = {v}
  <2>1. (CHOOSE v \in values : TRUE) \in values
    BY Zenon, <1>4
  <2> QED
    BY Zenon, <2>1, <1>1, <1>2, <1>3, <1>4
<1>5. CASE ~\E v \in values : values = {v}
  BY Zenon, <1>5, <1>2, <1>3
<1> QED
  BY Zenon, <1>4, <1>5

(* A tab that is somewhere has a host.                                       *)
LEMMA TabFacts ==
  ASSUME BrowserType, NEW t \in Tabs
  PROVE  /\ tabs[t].at \in {"gitea", "open", "page", "land"} => tabs[t].host \in Hosts
         /\ tabs[t].at \in {"gitea", "open"} => tabs[t] = [at |-> tabs[t].at, host |-> tabs[t].host]
         /\ tabs[t].at \in {"page", "land"} =>
              tabs[t].page \in Pages
              /\ tabs[t] = [at |-> tabs[t].at, host |-> tabs[t].host, page |-> tabs[t].page]
<1>1. tabs[t] \in TabStates
  BY Zenon DEF BrowserType
<1>2. CASE tabs[t] = Nothing
  BY <1>2 DEF Nothing
<1>3. CASE tabs[t] \in [at : {"gitea", "open"}, host : Hosts]
  BY Zenon, <1>3
<1>4. CASE tabs[t] \in [at : {"page", "land"}, host : Hosts, page : Pages]
  BY Zenon, <1>4
<1> QED
  BY Zenon, <1>1, <1>2, <1>3, <1>4 DEF TabStates

(* A step that moves one tab to a known state, and lands it only on a page   *)
(* that was asked for, keeps every tab in order.                             *)
LEMMA TabMoves ==
  ASSUME BrowserType, LandsWhereAsked, NEW t \in Tabs, NEW x \in TabStates,
         tabs' = [tabs EXCEPT ![t] = x],
         asked' \in [Hosts -> SUBSET Pages], \A h \in Hosts : asked[h] \subseteq asked'[h],
         x.at = "land" => x.page \in asked'[x.host] /\ x.page # "bad"
  PROVE  BrowserType' /\ LandsWhereAsked'
<1>1. BrowserType'
  BY Zenon DEF BrowserType
<1>2. ASSUME NEW s \in Tabs, tabs'[s].at = "land"
      PROVE  tabs'[s].page \in asked'[tabs'[s].host] /\ tabs'[s].page # "bad"
  <2>1. CASE s = t
    <3>1. tabs'[s] = x
      BY Zenon, <2>1 DEF BrowserType
    <3> QED
      BY Zenon, <3>1, <1>2
  <2>2. CASE s # t
    <3>1. tabs'[s] = tabs[s]
      BY Zenon, <2>2 DEF BrowserType
    <3>2. tabs[s].page \in asked[tabs[s].host] /\ tabs[s].page # "bad" /\ tabs[s].host \in Hosts
      BY Zenon, <3>1, <1>2, TabFacts DEF LandsWhereAsked
    <3> QED
      BY Zenon, <3>1, <3>2
  <2> QED
    BY Zenon, <2>1, <2>2
<1> QED
  BY Zenon, <1>1, <1>2 DEF LandsWhereAsked

(* A step that leaves tabs and pages alone.                                  *)
LEMMA TabsStay ==
  ASSUME BrowserType, LandsWhereAsked, UNCHANGED <<tabs, asked>>
  PROVE  BrowserType' /\ LandsWhereAsked'
BY Zenon DEF BrowserType, LandsWhereAsked

(* A jar that only lost cookies is still in order.                           *)
LEMMA JarShrinks ==
  ASSUME CookiesKnown, jar' \subseteq jar, UNCHANGED asked
  PROVE  CookiesKnown'
BY Zenon DEF CookiesKnown

(* Nothing reaches a Runtime.                                                *)
LEMMA NotSeenKnown == NotSeen => SeenKnown'
BY Zenon DEF NotSeen, SeenKnown

\* Visit: a page without the session cookie sends the tab to Gitea and remembers
\* the page for this host only; with it the Runtime sees its own cookies.
LEMMA VisitStep ==
  ASSUME BrowserIInv, NEW t \in Tabs, NEW h \in Hosts, NEW page \in Pages, Visit(t, h, page)
  PROVE  BrowserIInv'
<1> USE DEF BrowserIInv
<1>1. asked' \in [Hosts -> SUBSET Pages] /\ (\A g \in Hosts : asked[g] \subseteq asked'[g]) /\ page \in asked'[h]
  BY Zenon DEF Visit, BrowserType
<1>a. \A g \in Hosts : Root \in asked'[g]
  BY Zenon, <1>1 DEF BrowserType
<1>2. \A c \in jar : CookieKnown(c, asked')
  BY Zenon, <1>1 DEF CookiesKnown, CookieKnown
<1>3. ~Foreign(Typed)
  BY Zenon DEF Foreign, Typed
<1>4. [at |-> "page", host |-> h, page |-> page] \in TabStates /\ [at |-> "gitea", host |-> h] \in TabStates
  BY Zenon DEF TabStates
<1>5. CASE h \in PublicHosts
  <2>1. CookiesKnown'
    BY Zenon, <1>2, <1>5 DEF Visit, Clear, CookiesKnown
  <2>2. SeenKnown'
    BY Zenon, <1>3, <1>5, ForwardedOwn DEF Visit
  <2>3. BrowserType' /\ LandsWhereAsked'
    BY Zenon, <1>1, <1>4, <1>5, TabMoves DEF Visit
  <2> QED
    BY Zenon, <2>1, <2>2, <2>3
<1>6. CASE h \notin PublicHosts /\ HasSession(h)
  <2>a. \A c \in Set(h, "session", "ticket") : CookieKnown(c, asked')
    BY Zenon, <1>1, GatewaySets DEF ReservedCookies
  <2>1. CookiesKnown'
    BY Zenon, <1>6, <2>a DEF Visit, CookiesKnown
  <2>2. SeenKnown'
    BY Zenon, <1>3, <1>6, ForwardedOwn DEF Visit
  <2>3. BrowserType' /\ LandsWhereAsked'
    BY Zenon, <1>1, <1>4, <1>6, TabMoves DEF Visit
  <2> QED
    BY Zenon, <2>1, <2>2, <2>3
<1>7. CASE h \notin PublicHosts /\ ~HasSession(h)
  <2>1. sanitizeGatewayReturnTo(page) \in asked'[h] /\ sanitizeGatewayReturnTo(page) # "bad"
    BY Zenon, <1>1, <1>a, Sanitized
  <2>2. \A c \in Set(h, "return", sanitizeGatewayReturnTo(page)) : CookieKnown(c, asked')
    BY Zenon, <1>1, <2>1, GatewaySets DEF ReservedCookies
  <2>a. CookiesKnown'
    BY Zenon, <1>7, <2>2 DEF Visit, CookiesKnown
  <2>3. SeenKnown'
    BY Zenon, <1>7, NotSeenKnown DEF Visit
  <2>4. BrowserType' /\ LandsWhereAsked'
    BY Zenon, <1>1, <1>4, <1>7, TabMoves DEF Visit
  <2> QED
    BY Zenon, <2>a, <2>3, <2>4
<1> QED
  BY Zenon, <1>5, <1>6, <1>7

\* Authorize: Gitea sends the tab back to the host it came from.
LEMMA AuthorizeStep ==
  ASSUME BrowserIInv, NEW t \in Tabs, Authorize(t)
  PROVE  BrowserIInv'
<1> USE DEF BrowserIInv
<1>1. tabs[t] = [at |-> "gitea", host |-> tabs[t].host] /\ tabs[t].host \in Hosts
  BY Zenon, TabFacts DEF Authorize
<1>a. [tabs[t] EXCEPT !.at = "open"] = [at |-> "open", host |-> tabs[t].host]
  BY <1>1
<1>2. tabs' = [tabs EXCEPT ![t] = [at |-> "open", host |-> tabs[t].host]]
  BY Zenon, <1>a DEF Authorize
<1>3. [at |-> "open", host |-> tabs[t].host] \in TabStates
  BY Zenon, <1>1 DEF TabStates
<1>4. BrowserType' /\ LandsWhereAsked'
  BY Zenon, <1>2, <1>3, TabMoves DEF Authorize, BrowserType
<1> QED
  BY Zenon, <1>4, JarShrinks, NotSeenKnown DEF Authorize

\* Open: the session cookie is set by the Gateway for the host of the tab.
LEMMA OpenStep ==
  ASSUME BrowserIInv, NEW t \in Tabs, NEW ok \in BOOLEAN, Open(t, ok)
  PROVE  BrowserIInv'
<1> USE DEF BrowserIInv
<1> DEFINE h == tabs[t].host
<1>1. h \in Hosts /\ asked' = asked /\ NotSeen
  BY Zenon, TabFacts DEF Open
<1>2. CASE ok
  <2>1. \A c \in Set(h, "session", "ticket") : CookieKnown(c, asked)
    BY Zenon, <1>1, GatewaySets DEF ReservedCookies
  <2>2. CookiesKnown'
    BY Zenon, <1>1, <1>2, <2>1 DEF Open, CookiesKnown
  <2>3. ReturnTo(h) \in asked[h] /\ ReturnTo(h) \in Pages /\ ReturnTo(h) # "bad"
    BY Zenon, <1>1, ReturnsWhereAsked
  <2>4. [at |-> "land", host |-> h, page |-> ReturnTo(h)] \in TabStates
    BY Zenon, <1>1, <2>3 DEF TabStates
  <2>5. BrowserType' /\ LandsWhereAsked'
    BY Zenon, <1>1, <1>2, <2>3, <2>4, TabMoves DEF Open, BrowserType
  <2> QED
    BY Zenon, <1>1, <2>2, <2>5, NotSeenKnown
<1>3. CASE ~ok
  <2>1. CookiesKnown'
    BY Zenon, <1>1, <1>3, JarShrinks DEF Open, Clear
  <2>2. Nothing \in TabStates /\ Nothing.at # "land"
    BY Zenon DEF TabStates, Nothing
  <2>3. BrowserType' /\ LandsWhereAsked'
    BY Zenon, <1>1, <1>3, <2>2, TabMoves DEF Open, BrowserType
  <2> QED
    BY Zenon, <1>1, <2>1, <2>3, NotSeenKnown
<1> QED
  BY Zenon, <1>2, <1>3

\* Land: the tab is at the page it returned to.
LEMMA LandStep ==
  ASSUME BrowserIInv, NEW t \in Tabs, Land(t)
  PROVE  BrowserIInv'
<1> USE DEF BrowserIInv
<1> DEFINE h == tabs[t].host
<1>1. /\ h \in Hosts /\ asked' = asked
      /\ tabs[t] = [at |-> "land", host |-> h, page |-> tabs[t].page]
      /\ tabs[t].page \in Pages /\ tabs[t].page \in asked[h] /\ tabs[t].page # "bad"
  BY Zenon, TabFacts DEF Land, LandsWhereAsked
<1>2. CASE HasSession(h)
  <2>1. tabs' = [tabs EXCEPT ![t] = [at |-> "page", host |-> h, page |-> tabs[t].page]]
    BY Zenon, <1>1, <1>2 DEF Land
  <2>2. [at |-> "page", host |-> h, page |-> tabs[t].page] \in TabStates
    BY Zenon, <1>1 DEF TabStates
  <2>3. BrowserType' /\ LandsWhereAsked'
    BY Zenon, <1>1, <2>1, <2>2, TabMoves DEF BrowserType
  <2>4. CookiesKnown'
    BY Zenon, <1>1, <1>2, GatewaySets DEF Land, CookiesKnown, ReservedCookies
  <2>5. ~Foreign(Typed)
    BY Zenon DEF Foreign, Typed
  <2>6. SeenKnown'
    BY Zenon, <1>1, <1>2, <2>5, ForwardedOwn DEF Land
  <2> QED
    BY Zenon, <2>3, <2>4, <2>6
<1>3. CASE ~HasSession(h)
  <2>1. [at |-> "gitea", host |-> h] \in TabStates
    BY Zenon, <1>1 DEF TabStates
  <2>2. BrowserType' /\ LandsWhereAsked'
    BY Zenon, <1>1, <1>3, <2>1, TabMoves DEF Land, BrowserType
  <2>3. sanitizeGatewayReturnTo(tabs[t].page) = tabs[t].page
    BY Zenon, <1>1 DEF sanitizeGatewayReturnTo
  <2>4. CookiesKnown'
    BY Zenon, <1>1, <1>3, <2>3, GatewaySets DEF Land, CookiesKnown, ReservedCookies
  <2> QED
    BY Zenon, <1>3, <2>2, <2>4, NotSeenKnown DEF Land
<1> QED
  BY Zenon, <1>2, <1>3

\* Send: a request reaches the Runtime when its source is allowed.
LEMMA SendStep ==
  ASSUME BrowserIInv, NEW h \in Hosts, NEW q \in Sources, Send(h, q)
  PROVE  BrowserIInv'
<1> USE DEF BrowserIInv
<1>1. CookiesKnown'
  BY Zenon, GatewaySets DEF Send, CookiesKnown, ReservedCookies
<1>2. SeenKnown'
  BY Zenon, AllowedIsNotForeign, ForwardedOwn DEF Send
<1> QED
  BY Zenon, <1>1, <1>2, TabsStay DEF Send

\* normalizeGatewayProxySetCookie: what a Runtime sets is under no reserved name
\* and kept for its own host.
LEMMA SetCookieStep ==
  ASSUME BrowserIInv, NEW h \in Hosts, NEW name, NEW d \in BOOLEAN, SetCookie(h, name, d)
  PROVE  BrowserIInv'
<1> USE DEF BrowserIInv
<1>1. CookieKnown([name |-> name, host |-> h, value |-> "x", by |-> h], asked)
  BY Zenon, HostNames DEF SetCookie, CookieKnown, ReservedCookies
<1>2. CookiesKnown'
  BY Zenon, <1>1 DEF SetCookie, CookieHost, CookiesKnown
<1> QED
  BY Zenon, <1>2, TabsStay, NotSeenKnown DEF SetCookie

\* VisitPublicPath: the Gateway's own page, which no Runtime sees.
LEMMA VisitPublicPathStep ==
  ASSUME BrowserIInv, NEW t \in Tabs, NEW h \in Hosts, VisitPublicPath(t, h)
  PROVE  BrowserIInv'
<1> USE DEF BrowserIInv
<1>1. CookiesKnown'
  BY Zenon, JarShrinks DEF VisitPublicPath, Clear
<1>2. Nothing \in TabStates /\ Nothing.at # "land"
  BY Zenon DEF TabStates, Nothing
<1>3. BrowserType' /\ LandsWhereAsked'
  BY Zenon, <1>2, TabMoves DEF VisitPublicPath, BrowserType
<1> QED
  BY Zenon, <1>1, <1>3, NotSeenKnown DEF VisitPublicPath

(* A session ends or a cookie expires.                                       *)
LEMMA EndsStep ==
  ASSUME BrowserIInv, NEW h \in Hosts, SessionEnds(h) \/ ReturnExpires(h)
  PROVE  BrowserIInv'
<1> USE DEF BrowserIInv
<1>1. CookiesKnown'
  BY Zenon, JarShrinks DEF SessionEnds, ReturnExpires, Clear
<1> QED
  BY Zenon, <1>1, TabsStay, NotSeenKnown DEF SessionEnds, ReturnExpires

\* No cookie is kept and no tab is open.
LEMMA BrowserInitIInv == BrowserInit => BrowserIInv
<1> SUFFICES ASSUME BrowserInit PROVE BrowserIInv
    OBVIOUS
<1>1. BrowserType
  BY Zenon DEF BrowserInit, BrowserType, TabStates, Pages
<1>2. CookiesKnown /\ SeenKnown
  BY Zenon DEF BrowserInit, CookiesKnown, SeenKnown
<1>3. LandsWhereAsked
  BY Zenon DEF BrowserInit, LandsWhereAsked, Nothing
<1> QED
  BY Zenon, <1>1, <1>2, <1>3 DEF BrowserIInv

\* Every step of the browser and of the Gateway keeps the invariant.
LEMMA BrowserStep == BrowserIInv /\ [BrowserNext]_browserVars => BrowserIInv'
<1> SUFFICES ASSUME BrowserIInv, [BrowserNext]_browserVars PROVE BrowserIInv'
    OBVIOUS
<1>1. CASE UNCHANGED browserVars
  BY Zenon, <1>1 DEF browserVars, BrowserIInv, BrowserType, CookiesKnown, SeenKnown, LandsWhereAsked
<1>2. CASE BrowserNext
  BY Zenon, <1>2, VisitStep, VisitPublicPathStep, AuthorizeStep, LandStep, OpenStep, SendStep, SetCookieStep, EndsStep
     DEF BrowserNext
<1> QED
  BY Zenon, <1>1, <1>2

\* The invariant always holds.
LEMMA BrowserInvariance == BrowserSpec => []BrowserIInv
BY BrowserInitIInv, BrowserStep, PTL DEF BrowserSpec

\* rebuildGatewayProxyCookieHeader, normalizeGatewayProxySetCookie,
\* isGatewayAuthenticatedSourceAllowed: for any number of hosts and tabs, no
\* Runtime receives or writes a cookie of the Gateway or of another Runtime, and
\* no page of another host sends it a request with the user's session.
THEOREM CookiesApart == BrowserSpec => []RuntimesApart
<1>1. BrowserIInv => RuntimesApart
  BY Zenon DEF BrowserIInv, CookiesKnown, CookieKnown, SeenKnown, RuntimesApart
<1> QED
  BY <1>1, BrowserInvariance, PTL

\* gatewayReturnToPathFromRequest: for any number of hosts and tabs, a sign-in
\* lands on a page that was asked for at its host and may be returned to.
THEOREM SignInLands == BrowserSpec => []LandsWhereAsked
<1>1. BrowserIInv => LandsWhereAsked
  BY Zenon DEF BrowserIInv
<1> QED
  BY <1>1, BrowserInvariance, PTL

-----------------------------------------------------------------------------
(***************************************************************************)
(* The SSH channel: ChannelIInv.                                           *)
(*                                                                         *)
(* While the stream is open and the client has not gone, no chunk is lost: *)
(* those the client has read, the one in the pipe, the one being written   *)
(* and those the Agent still has make up the output. The copies end in     *)
(* their order, each only when nothing is left for it, and the handler     *)
(* sends the exit status only when both have ended.                        *)
(***************************************************************************)
Counts == left \in Nat /\ got \in Nat

(* The chunk between the Agent and the pipe, and that between the pipe and   *)
(* the client.                                                               *)
Piped   == IF recv = "pipe" THEN 1 ELSE 0
Written == IF down = "write" THEN 1 ELSE 0

(* While the stream is open and the client is there, nothing has been lost;  *)
(* the copies end in their order, and only when there is nothing left.       *)
NothingLost ==
  stream = "open" =>
    /\ ~shut /\ ~closed
    /\ recv = "done" => left = 0
    /\ ~Gone => /\ got + Piped + Written + left = Chunks
                /\ down = "done" => recv = "done"

(* The exit status is the handler's, once and after the copies.              *)
ExitLast ==
  exit = "sent" =>
    /\ handler \in {"close", "closeSend", "wait", "done"}
    /\ stream = "open" => recv = "done" /\ down = "done" /\ left = 0 /\ got = Chunks

(* Before the channel is opened there is no stream.                          *)
NotOpened == handler = "new" => stream = "over" /\ left = Chunks /\ got = 0 /\ exit = "none"
                                /\ down = "done" /\ ~shut /\ ~closed

ChannelIInv == Counts /\ NothingLost /\ ExitLast /\ NotOpened

Late == {"close", "closeSend", "wait", "done"}

(* A step that moves no output, ends nothing and lets the handler go on      *)
(* only: most of what the connection, the input and the handler do.          *)
LEMMA OutputStays ==
  ASSUME ChannelIInv, UNCHANGED <<left, got, exit, recv, down, stream, shut, closed>>,
         Gone => Gone', handler' = "new" => handler = "new",
         handler \in Late => handler' \in Late
  PROVE  ChannelIInv'
<1>1. Counts'
  BY Zenon DEF ChannelIInv, Counts
<1>2. NothingLost'
  BY Zenon DEF ChannelIInv, NothingLost, Piped, Written
<1>3. ExitLast'
  BY Zenon DEF ChannelIInv, ExitLast, Late
<1>4. NotOpened'
  BY Zenon DEF ChannelIInv, NotOpened
<1> QED
  BY <1>1, <1>2, <1>3, <1>4, Zenon DEF ChannelIInv

(* Once the stream is over nothing is promised any more.                     *)
LEMMA StreamOver ==
  ASSUME ChannelIInv, stream' = "over", UNCHANGED <<left, got, exit>>,
         handler' # "new", exit = "sent" => handler' \in Late
  PROVE  ChannelIInv'
<1>1. Counts'
  BY Zenon DEF ChannelIInv, Counts
<1>2. NothingLost' /\ NotOpened'
  BY Zenon DEF NothingLost, NotOpened
<1>3. ExitLast'
  BY Zenon DEF ChannelIInv, ExitLast, Late
<1> QED
  BY <1>1, <1>2, <1>3, Zenon DEF ChannelIInv

\* OpenChannel: a stream begins with all of its output ahead.
LEMMA OpenChannelStep ==
  ASSUME ChannelIInv, NEW k, OpenChannel(k)
  PROVE  ChannelIInv'
<1>1. /\ handler' = "serve" /\ recv' = "receive" /\ down' = "read" /\ stream' = "open"
      /\ left' = Chunks /\ got' = 0 /\ exit' = "none" /\ ~shut' /\ ~closed'
  BY Zenon DEF OpenChannel, ChannelIInv, NotOpened, counts
<1>2. Counts'
  BY Zenon, <1>1, ChunksAssumption DEF Counts
<1>3. Piped' = 0 /\ Written' = 0
  BY Zenon, <1>1 DEF Piped, Written
<1>4. NothingLost'
  BY <1>1, <1>3, ChunksAssumption DEF NothingLost
<1>5. ExitLast' /\ NotOpened'
  BY Zenon, <1>1 DEF ExitLast, NotOpened
<1> QED
  BY <1>2, <1>4, <1>5, Zenon DEF ChannelIInv

(* The connection, the client and the input.                                 *)
LEMMA InputStep ==
  ASSUME ChannelIInv,
         \/ Cancel \/ CloseConn \/ ClientCloses("eof") \/ ClientCloses("closed")
         \/ UpRead \/ UpLock \/ UpPipe \/ FeedRead \/ FeedLock \/ AskRead \/ AskLock \/ Sending
  PROVE  ChannelIInv'
<1>1. UNCHANGED <<handler, left, got, exit, recv, down, stream, shut, closed>>
  BY Zenon DEF Cancel, CloseConn, ClientCloses, UpRead, UpLock, UpPipe, FeedRead, FeedLock, AskRead,
     AskLock, Sending, UpSend, FeedSend, AskSend, goroutines, pipes, counts, outside
<1>2. Gone => Gone'
  BY Zenon DEF Cancel, CloseConn, ClientCloses, UpRead, UpLock, UpPipe, FeedRead, FeedLock, AskRead,
     AskLock, Sending, UpSend, FeedSend, AskSend, Gone, outside
<1> QED
  BY Zenon, <1>1, <1>2, OutputStays

\* The Agent stream breaks: the promise ends with it.
LEMMA StreamFailsStep ==
  ASSUME ChannelIInv, StreamFails
  PROVE  ChannelIInv'
<1>1. stream' = "over" /\ UNCHANGED <<handler, left, got, exit>> /\ handler # "new"
  BY Zenon DEF StreamFails, counts, ChannelIInv, NotOpened
<1> QED
  BY Zenon, <1>1, StreamOver DEF ChannelIInv, ExitLast, Late

\* Receive: a chunk leaves the stream for the pipe, or the stream ends after the
\* last one.
LEMMA ReceiveStep ==
  ASSUME ChannelIInv, Receive
  PROVE  ChannelIInv'
<1>1. /\ UNCHANGED <<handler, closed, down, shut, got, exit>> /\ Gone' = Gone /\ recv = "receive"
  BY Zenon DEF Receive, outside, Gone
<1>2. CASE stream = "open" /\ left > 0 /\ left' = left - 1 /\ recv' = "pipe" /\ UNCHANGED stream
  <2>1. Counts'
    BY <1>1, <1>2 DEF ChannelIInv, Counts
  <2>2. Piped = 0 /\ Piped' = 1 /\ Written' = Written /\ Written \in {0, 1}
    BY Zenon, <1>1, <1>2 DEF Piped, Written
  <2>3. NothingLost'
    BY <1>1, <1>2, <2>1, <2>2, ChunksAssumption DEF ChannelIInv, NothingLost, Counts
  <2>4. ExitLast' /\ NotOpened'
    BY Zenon, <1>1, <1>2 DEF ChannelIInv, ExitLast, NotOpened
  <2> QED
    BY <2>1, <2>3, <2>4, Zenon DEF ChannelIInv
<1>3. CASE (stream = "over" \/ left = 0) /\ recv' = "done" /\ left' = left
           /\ stream' = IF kind = "stream" THEN "over" ELSE stream
  <2>1. Counts'
    BY <1>1, <1>3, Zenon DEF ChannelIInv, Counts
  <2>2. Piped = 0 /\ Piped' = 0 /\ Written' = Written
    BY Zenon, <1>1, <1>3 DEF Piped, Written
  <2>3. stream' = "open" => stream = "open" /\ left = 0
    BY Zenon, <1>3
  <2>4. NothingLost'
    BY Zenon, <1>1, <1>3, <2>2, <2>3 DEF ChannelIInv, NothingLost
  <2>5. ExitLast' /\ NotOpened'
    BY Zenon, <1>1, <1>3, <2>3 DEF ChannelIInv, ExitLast, NotOpened
  <2> QED
    BY <2>1, <2>4, <2>5, Zenon DEF ChannelIInv
<1> QED
  BY Zenon, <1>2, <1>3 DEF Receive

\* RecvPipe: the pipe takes the chunk, or drops it once the channel is shut.
LEMMA RecvPipeStep ==
  ASSUME ChannelIInv, RecvPipe
  PROVE  ChannelIInv'
<1>1. UNCHANGED <<handler, closed, shut, left, got, exit>> /\ Gone' = Gone /\ recv = "pipe"
  BY Zenon DEF RecvPipe, outside, Gone, counts
<1>2. CASE down = "read" /\ ~shut /\ down' = "write" /\ recv' = "receive" /\ UNCHANGED stream
  <2>1. Counts'
    BY <1>1, Zenon DEF ChannelIInv, Counts
  <2>2. Piped = 1 /\ Piped' = 0 /\ Written = 0 /\ Written' = 1
    BY Zenon, <1>1, <1>2 DEF Piped, Written
  <2>3. NothingLost'
    BY <1>1, <1>2, <2>2, ChunksAssumption DEF ChannelIInv, NothingLost, Counts
  <2>4. ExitLast' /\ NotOpened'
    BY Zenon, <1>1, <1>2 DEF ChannelIInv, ExitLast, NotOpened
  <2> QED
    BY <2>1, <2>3, <2>4, Zenon DEF ChannelIInv
<1>3. CASE shut /\ UNCHANGED down /\ stream' = IF kind = "stream" THEN "over" ELSE stream
  <2>1. stream # "open" /\ stream' # "open" /\ (handler = "new" => stream' = "over")
    BY Zenon, <1>3 DEF ChannelIInv, NothingLost, NotOpened
  <2>2. Counts'
    BY <1>1, Zenon DEF ChannelIInv, Counts
  <2>3. NothingLost'
    BY Zenon, <2>1 DEF NothingLost
  <2>4. ExitLast' /\ NotOpened'
    BY Zenon, <1>1, <1>3, <2>1 DEF ChannelIInv, ExitLast, NotOpened
  <2> QED
    BY <2>2, <2>3, <2>4, Zenon DEF ChannelIInv
<1> QED
  BY Zenon, <1>2, <1>3 DEF RecvPipe

\* DownEnds, ClientReads: the copy to the client ends after the pipe, and a chunk
\* in its hands is the client's next.
LEMMA DownStep ==
  ASSUME ChannelIInv, DownEnds \/ ClientReads
  PROVE  ChannelIInv'
<1>1. UNCHANGED <<handler, closed, shut, recv, left, stream, exit>> /\ Gone' = Gone /\ Piped' = Piped
  BY DEF DownEnds, ClientReads, outside, Gone, counts, pipes, Piped
<1>2. Piped \in {0, 1}
  BY Zenon DEF Piped
<1>3. CASE DownEnds
  <2>1. got' = got /\ down' = "done"
    BY Zenon, <1>3 DEF DownEnds, counts
  <2>2. stream = "open" /\ ~Gone => down = "read" /\ recv = "done"
    BY Zenon, <1>3 DEF DownEnds, ChannelIInv, NothingLost
  <2>3. Written' = 0 /\ (stream = "open" /\ ~Gone => Written = 0)
    BY Zenon, <2>1, <2>2 DEF Written
  <2>4. Counts'
    BY <1>1, <2>1, Zenon DEF ChannelIInv, Counts
  <2>5. NothingLost'
    BY Zenon, <1>1, <2>1, <2>2, <2>3 DEF ChannelIInv, NothingLost
  <2>6. ExitLast' /\ NotOpened'
    BY Zenon, <1>1, <2>1 DEF ChannelIInv, ExitLast, NotOpened
  <2> QED
    BY <2>4, <2>5, <2>6, Zenon DEF ChannelIInv
<1>4. CASE ClientReads
  <2>1. CASE closed
    <3>1. got' = got /\ stream # "open"
      BY Zenon, <1>4, <2>1 DEF ClientReads, ChannelIInv, NothingLost
    <3>2. Counts'
      BY <1>1, <3>1, Zenon DEF ChannelIInv, Counts
    <3>3. NothingLost'
      BY Zenon, <1>1, <3>1 DEF NothingLost
    <3>4. ExitLast' /\ NotOpened'
      BY Zenon, <1>1, <1>4, <3>1 DEF ChannelIInv, ExitLast, NotOpened, ClientReads
    <3> QED
      BY <3>2, <3>3, <3>4, Zenon DEF ChannelIInv
  <2>2. CASE ~closed
    <3>1. down = "write" /\ down' = "read" /\ got' = got + 1
      BY Zenon, <1>4, <2>2 DEF ClientReads
    <3>2. Written = 1 /\ Written' = 0
      BY Zenon, <3>1 DEF Written
    <3>3. Counts'
      BY <1>1, <3>1 DEF ChannelIInv, Counts
    <3>4. NothingLost'
      BY <1>1, <1>2, <3>1, <3>2, ChunksAssumption DEF ChannelIInv, NothingLost, Counts
    <3>5. ~(exit = "sent" /\ stream = "open")
      BY Zenon, <3>1 DEF ChannelIInv, ExitLast
    <3>6. handler = "new" => FALSE
      BY Zenon, <1>4, <3>1 DEF ChannelIInv, NotOpened
    <3>7. ExitLast' /\ NotOpened'
      BY Zenon, <1>1, <3>5, <3>6 DEF ChannelIInv, ExitLast, NotOpened
    <3> QED
      BY <3>3, <3>4, <3>7, Zenon DEF ChannelIInv
  <2> QED
    BY Zenon, <2>1, <2>2
<1> QED
  BY Zenon, <1>3, <1>4

(* The handler without its exit status.                                      *)
LEMMA HandlerStep ==
  ASSUME ChannelIInv, Serve \/ Half \/ CloseSend \/ Return \/ AllDone
  PROVE  ChannelIInv'
<1>1. UNCHANGED <<left, got, exit, recv, down, stream, shut, closed, conn, client>>
  BY Zenon DEF Serve, Half, CloseSend, Return, AllDone, handled, sshVars, outside, goroutines, pipes, counts
<1>2. (handler' = "new" => handler = "new") /\ (handler \in Late => handler' \in Late)
  BY Zenon DEF Serve, Half, CloseSend, Return, AllDone, sshVars, Late
<1>3. Gone => Gone'
  BY <1>1, Zenon DEF Gone
<1> QED
  BY Zenon, <1>1, <1>2, <1>3, OutputStays

(* waitGatewaySSHChannels, then the exit status.                             *)
LEMMA ExitStep ==
  ASSUME ChannelIInv, ExitStatus \/ ExitLate
  PROVE  ChannelIInv'
<1>1. /\ UNCHANGED <<left, got, recv, down, stream, shut, closed, conn, client>>
      /\ handler' = "close" /\ handler = "drain"
  BY Zenon DEF ExitStatus, ExitLate, Drained, Timeout, outside, goroutines, pipes
<1>2. exit' = "sent" => down = "done" /\ ~Gone
  BY Zenon DEF ExitStatus, ExitLate, Drained
<1>3. Counts'
  BY <1>1, Zenon DEF ChannelIInv, Counts
<1>4. NothingLost'
  BY <1>1, Zenon DEF ChannelIInv, NothingLost, Piped, Written, Gone
<1>5. exit' = "sent" /\ stream = "open" => recv = "done" /\ down = "done" /\ left = 0 /\ got = Chunks
  <2> SUFFICES ASSUME exit' = "sent", stream = "open"
               PROVE  recv = "done" /\ down = "done" /\ left = 0 /\ got = Chunks
      OBVIOUS
  <2>1. recv = "done" /\ down = "done" /\ left = 0
    BY Zenon, <1>2 DEF ChannelIInv, NothingLost
  <2>2. Piped = 0 /\ Written = 0
    BY Zenon, <2>1 DEF Piped, Written
  <2> QED
    BY <1>2, <2>1, <2>2, ChunksAssumption DEF ChannelIInv, NothingLost, Counts
<1>6. ExitLast' /\ NotOpened'
  BY Zenon, <1>1, <1>5 DEF ExitLast, NotOpened
<1> QED
  BY <1>3, <1>4, <1>6, Zenon DEF ChannelIInv

\* Close: the session is closed after the exit status.
LEMMA CloseStep ==
  ASSUME ChannelIInv, Close
  PROVE  ChannelIInv'
<1>1. stream' = "over" /\ UNCHANGED <<left, got, exit>> /\ handler' = "closeSend"
  BY Zenon DEF Close, ClosePipes, counts
<1> QED
  BY Zenon, <1>1, StreamOver DEF Late

\* No channel is open.
LEMMA ChannelInitIInv == SSHInit => ChannelIInv
BY ChunksAssumption DEF SSHInit, ChannelIInv, Counts, NothingLost, ExitLast, NotOpened

\* Every step of the handler, the copies and the connection keeps the invariant.
LEMMA ChannelStep == ChannelIInv /\ [SSHNext]_sshVars => ChannelIInv'
<1> SUFFICES ASSUME ChannelIInv, [SSHNext]_sshVars PROVE ChannelIInv'
    OBVIOUS
<1>1. CASE UNCHANGED sshVars
  <2>1. UNCHANGED <<left, got, exit, recv, down, stream, shut, closed, conn, client, handler>>
    BY <1>1, Zenon DEF sshVars
  <2>2. Gone => Gone'
    BY <2>1, Zenon DEF Gone
  <2> QED
    BY Zenon, <2>1, <2>2, OutputStays
<1>2. CASE SSHNext
  BY <1>2, Zenon, OpenChannelStep, InputStep, StreamFailsStep, ReceiveStep, RecvPipeStep, DownStep, HandlerStep,
     ExitStep, CloseStep DEF SSHNext
<1> QED
  BY Zenon, <1>1, <1>2

\* The invariant always holds.
LEMMA ChannelInvariance == SSHSpec => []ChannelIInv
BY ChannelInitIInv, ChannelStep, PTL DEF SSHSpec

\* serveWorkspaceSession: for any amount of output, an exit status that is sent
\* while the stream is open comes after all of the output.
THEOREM ExitComesLast == SSHSpec => []ExitAfterOutput
<1>1. ChannelIInv => ExitAfterOutput
  BY Zenon DEF ChannelIInv, ExitLast, ExitAfterOutput
<1> QED
  BY <1>1, ChannelInvariance, PTL

-----------------------------------------------------------------------------
(***************************************************************************)
(* The authentication limiter: LimiterIInv.                                *)
(*                                                                         *)
(* The bound on the failures of a key is not inductive: attempts that were *)
(* let in when the count was below the limit may all fail later. The       *)
(* invariant counts them beforehand: the checked failures together with    *)
(* the attempts of the key under way stay below the bound. An attempt      *)
(* comes under way only below the limit, and a failure that was checked    *)
(* replaces the attempt it ends.                                           *)
(***************************************************************************)
(* The clients that may fail for a key, and those of a set T among them.     *)
Callers(k) == {c \in Clients : k \in Range(Items[c])}
Among(T, k) == Callers(k) \cap T

RecordKnown(r) ==
  /\ DOMAIN r = {"window", "count", "blind", "failures", "seen", "backoff"}
  /\ r.window \in Nat /\ r.count \in Nat /\ r.blind \in Nat /\ r.seen \in Nat
  /\ r.blind <= r.count

(* The failures that were checked, with those under way, stay below the      *)
(* bound: an attempt is let in while the count is below its limit, and when  *)
(* it fails it is no longer under way.                                       *)
WithinBound(k, r, T) ==
  r.window < Minute =>
    (r.count - r.blind) + Cardinality(Among(T, k)) < KeyLimit[k] + Cardinality(Callers(k))

RecordsKnown(recs, T) ==
  \A k \in LimitKeys : recs[k] # NoRecord => RecordKnown(recs[k]) /\ WithinBound(k, recs[k], T)

LimiterIInv == tries \subseteq Clients /\ RecordsKnown(records, tries)

(* What the cardinalities are.                                               *)
LEMMA CallersFacts ==
  ASSUME NEW k \in LimitKeys, NEW T
  PROVE  /\ Cardinality(Callers(k)) \in Nat /\ Cardinality(Among(T, k)) \in Nat
         /\ Cardinality(Among(T, k)) <= Cardinality(Callers(k))
         /\ KeyLimit[k] \in Nat \ {0}
<1>1. IsFiniteSet(Callers(k))
  <2>1. Callers(k) \in SUBSET Clients
    BY Zenon DEF Callers
  <2> QED
    BY Zenon, <2>1, LimitAssumption, FS_Subset
<1>2. Among(T, k) \in SUBSET Callers(k)
  BY Zenon DEF Among
<1>3. IsFiniteSet(Among(T, k)) /\ Cardinality(Among(T, k)) <= Cardinality(Callers(k))
  BY Zenon, <1>1, <1>2, FS_Subset
<1> QED
  BY Zenon, <1>1, <1>3, FS_CardinalityType, LimitAssumption

(* Fewer under way, fewer of a key.                                          *)
LEMMA AmongFewer ==
  ASSUME NEW k \in LimitKeys, NEW T, NEW U \in SUBSET T
  PROVE  Cardinality(Among(U, k)) <= Cardinality(Among(T, k))
<1>1. Among(T, k) \in SUBSET Clients /\ Among(U, k) \in SUBSET Among(T, k)
  BY Zenon DEF Among, Callers
<1>2. IsFiniteSet(Among(T, k))
  BY Zenon, <1>1, LimitAssumption, FS_Subset
<1> QED
  BY Zenon, <1>1, <1>2, FS_Subset

(* A client that is done was one of those of its keys.                       *)
LEMMA AmongDone ==
  ASSUME NEW k \in LimitKeys, NEW T, NEW c \in T, c \in Callers(k)
  PROVE  Cardinality(Among(T \ {c}, k)) = Cardinality(Among(T, k)) - 1
<1>1. Among(T, k) \in SUBSET Clients /\ Among(T \ {c}, k) = Among(T, k) \ {c} /\ c \in Among(T, k)
  BY Zenon DEF Among, Callers
<1>2. IsFiniteSet(Among(T, k))
  BY Zenon, <1>1, LimitAssumption, FS_Subset
<1>3. Cardinality(Among(T, k) \ {c}) = Cardinality(Among(T, k)) - 1
  BY Zenon, <1>1, <1>2, FS_RemoveElement
<1> QED
  BY <1>1, <1>3, Zenon

(* With fewer under way the records are still in order.                      *)
LEMMA FewerKnown ==
  ASSUME NEW recs, NEW T, NEW U \in SUBSET T, RecordsKnown(recs, T)
  PROVE  RecordsKnown(recs, U)
<1> SUFFICES ASSUME NEW k \in LimitKeys, recs[k] # NoRecord
             PROVE  RecordKnown(recs[k]) /\ WithinBound(k, recs[k], U)
    BY Zenon DEF RecordsKnown
<1>1. RecordKnown(recs[k]) /\ WithinBound(k, recs[k], T)
  BY Zenon DEF RecordsKnown
<1>2. Cardinality(Among(U, k)) <= Cardinality(Among(T, k))
  BY Zenon, AmongFewer
<1>3. Cardinality(Among(U, k)) \in Nat /\ Cardinality(Among(T, k)) \in Nat
      /\ Cardinality(Callers(k)) \in Nat /\ KeyLimit[k] \in Nat
  BY Zenon, CallersFacts
<1> QED
  BY <1>1, <1>2, <1>3 DEF WithinBound, RecordKnown

(* pruneExpired only takes records away.                                     *)
LEMMA PrunedKnown ==
  ASSUME NEW recs, NEW T, RecordsKnown(recs, T)
  PROVE  RecordsKnown(pruneExpired(recs), T)
BY Zenon DEF RecordsKnown, pruneExpired

(* What one failure makes of a record.                                       *)
LEMMA CountedFacts ==
  ASSUME NEW r, r # NoRecord => RecordKnown(r), NEW blind \in BOOLEAN, NEW backs \in BOOLEAN
  PROVE  LET n == Counted(r, blind, backs) IN
         /\ RecordKnown(n)
         /\ \/ r # NoRecord /\ r.window < Minute /\ n.window = r.window
               /\ n.count - n.blind = IF blind THEN r.count - r.blind ELSE (r.count - r.blind) + 1
            \/ n.count - n.blind = IF blind THEN 0 ELSE 1
<1> DEFINE fresh == [window |-> Minute, count |-> 0, blind |-> 0, failures |-> 0, seen |-> 0, backoff |-> 0]
           q == IF r = NoRecord THEN fresh ELSE r
           w == IF q.window >= Minute THEN [q EXCEPT !.window = 0, !.count = 0, !.blind = 0] ELSE q
           n == Counted(r, blind, backs)
<1>1. RecordKnown(q)
  BY LimiterConstants DEF RecordKnown
<1>2. n = [w EXCEPT !.count = @ + 1, !.failures = @ + 1, !.seen = 0,
                    !.blind = IF blind THEN @ + 1 ELSE @,
                    !.backoff = IF backs THEN backoffDuration(w.failures + 1) ELSE @]
  BY Zenon DEF Counted
<1>3. q.window < Minute => r # NoRecord /\ q = r
  BY LimiterConstants
<1> HIDE DEF q, n
<1>4. RecordKnown(w)
  BY <1>1 DEF RecordKnown
<1>5. IF q.window >= Minute THEN w.count = 0 /\ w.blind = 0 ELSE w = q
  BY Zenon, <1>1 DEF RecordKnown
<1> HIDE DEF w
<1>6. /\ DOMAIN n = DOMAIN w /\ n.window = w.window /\ n.count = w.count + 1 /\ n.seen = 0
      /\ n.blind = IF blind THEN w.blind + 1 ELSE w.blind
  BY Zenon, <1>2, <1>4 DEF RecordKnown
<1>7. RecordKnown(n)
  BY <1>4, <1>6 DEF RecordKnown
<1>8. n.count - n.blind = IF blind THEN w.count - w.blind ELSE (w.count - w.blind) + 1
  BY <1>4, <1>6 DEF RecordKnown
<1>9. CASE q.window >= Minute
  BY SMTT(60), <1>5, <1>7, <1>8, <1>9 DEF n
<1>10. CASE ~(q.window >= Minute)
  BY SMTT(60), <1>1, <1>3, <1>5, <1>6, <1>7, <1>8, <1>10, LimiterConstants DEF RecordKnown, n
<1> QED
  BY Zenon, <1>9, <1>10

(* A failure that was checked takes the place of the attempt it ends; one    *)
(* that was not does not count.                                              *)
LEMMA FailureKnown ==
  ASSUME RecordsKnown(records, tries), NEW keys, NEW blind \in BOOLEAN, NEW backs \in BOOLEAN,
         NEW T \in SUBSET tries,
         ~blind => \E c \in tries : /\ T = tries \ {c}
                                    /\ \A i \in DOMAIN keys : c \in Callers(keys[i])
  PROVE  RecordsKnown(RecordFailure(keys, blind, backs), T)
<1> DEFINE recs == pruneExpired(records)
           Fits(i) == \/ recs[keys[i]] # NoRecord
                      \/ Cardinality(Known(recs) \cup {keys[j] : j \in 1 .. i - 1}) < MaxKeys
<1>1. RecordsKnown(recs, tries)
  BY Zenon, PrunedKnown
<1>2. RecordFailure(keys, blind, backs)
        = [k \in LimitKeys |-> IF \E i \in DOMAIN keys : keys[i] = k /\ Fits(i)
                               THEN Counted(recs[k], blind, backs) ELSE recs[k]]
  BY Zenon DEF RecordFailure
<1> HIDE DEF recs, Fits
<1> SUFFICES ASSUME NEW k \in LimitKeys, RecordFailure(keys, blind, backs)[k] # NoRecord
             PROVE  /\ RecordKnown(RecordFailure(keys, blind, backs)[k])
                    /\ WithinBound(k, RecordFailure(keys, blind, backs)[k], T)
    BY Zenon DEF RecordsKnown
<1>3. CASE ~\E i \in DOMAIN keys : keys[i] = k /\ Fits(i)
  <2>1. RecordFailure(keys, blind, backs)[k] = recs[k]
    BY Zenon, <1>2, <1>3
  <2> QED
    BY Zenon, <1>1, <2>1, FewerKnown DEF RecordsKnown
<1>4. CASE \E i \in DOMAIN keys : keys[i] = k
  <2> DEFINE n == Counted(recs[k], blind, backs)
  <2>1. CASE RecordFailure(keys, blind, backs)[k] = n
    <3>1. recs[k] # NoRecord => RecordKnown(recs[k]) /\ WithinBound(k, recs[k], tries)
      BY Zenon, <1>1 DEF RecordsKnown
    <3>2. /\ RecordKnown(n)
          /\ \/ recs[k] # NoRecord /\ recs[k].window < Minute /\ n.window = recs[k].window
                /\ n.count - n.blind = IF blind THEN recs[k].count - recs[k].blind
                                       ELSE (recs[k].count - recs[k].blind) + 1
             \/ n.count - n.blind = IF blind THEN 0 ELSE 1
      BY Zenon, <3>1, CountedFacts
    <3> HIDE DEF n
    <3>3. /\ Cardinality(Callers(k)) \in Nat /\ KeyLimit[k] \in Nat \ {0}
          /\ Cardinality(Among(tries, k)) \in Nat /\ Cardinality(Among(T, k)) \in Nat
          /\ Cardinality(Among(tries, k)) <= Cardinality(Callers(k))
      BY Zenon, CallersFacts
    <3>4. Cardinality(Among(T, k)) <= IF blind THEN Cardinality(Among(tries, k))
                                      ELSE Cardinality(Among(tries, k)) - 1
      <4>1. CASE blind
        BY Zenon, <4>1, AmongFewer
      <4>2. CASE ~blind
        <5>1. PICK c \in tries : T = tries \ {c} /\ c \in Callers(k)
          BY Zenon, <1>4, <4>2
        <5> QED
          BY <5>1, <4>2, <3>3, AmongDone
      <4> QED
        BY Zenon, <4>1, <4>2
    <3>5. recs[k] # NoRecord => recs[k].count - recs[k].blind \in Nat
      BY <3>1 DEF RecordKnown
    <3>6. n.count - n.blind \in Nat
      BY SMTT(60), <3>2 DEF RecordKnown
    <3>7. WithinBound(k, n, T)
      BY SMTT(60), <3>1, <3>2, <3>3, <3>4, <3>5, <3>6 DEF WithinBound
    <3> QED
      BY Zenon, <2>1, <3>2, <3>7
  <2>2. CASE RecordFailure(keys, blind, backs)[k] = recs[k]
    BY Zenon, <1>1, <2>2, FewerKnown DEF RecordsKnown
  <2>3. RecordFailure(keys, blind, backs)[k] \in {n, recs[k]}
    BY Zenon, <1>2
  <2> QED
    BY Zenon, <2>1, <2>2, <2>3
<1> QED
  BY Zenon, <1>3, <1>4

(* The smaller of two numbers.                                               *)
LEMMA LeastOfTwo ==
  ASSUME NEW a \in Nat, NEW b \in Nat
  PROVE  Least(a, b) \in Nat /\ (Least(a, b) = a \/ Least(a, b) = b) /\ Least(a, b) <= b
BY DEF Least

\* InvalidUser: a failure nobody checked.
LEMMA InvalidUserStep ==
  ASSUME LimiterIInv, NEW c \in Clients, InvalidUser(c)
  PROVE  LimiterIInv'
<1>1. RecordsKnown(RecordFailure(<<Head(Items[c]), Items[c][Len(Items[c])]>>, TRUE, TRUE), tries)
  BY Zenon, FailureKnown DEF LimiterIInv
<1> QED
  BY <1>1, Zenon DEF InvalidUser, LimiterIInv

\* Allow: a client is let in while the count of each of its keys is below its
\* limit, so there is room for it in the bound.
LEMMA AttemptStep ==
  ASSUME LimiterIInv, NEW c \in Clients, Attempt(c)
  PROVE  LimiterIInv'
<1> DEFINE recs == pruneExpired(records)
<1>1. RecordsKnown(recs, tries)
  BY Zenon, PrunedKnown DEF LimiterIInv
<1>2. records' = recs
  BY Zenon DEF Attempt
<1>3. CASE ~Allow(recs, c)
  BY <1>1, <1>2, <1>3, Zenon DEF Attempt, LimiterIInv
<1>4. CASE Allow(recs, c)
  <2>1. tries' = tries \cup {c}
    BY Zenon, <1>4 DEF Attempt
  <2> HIDE DEF recs
  <2>2. ASSUME NEW k \in LimitKeys, recs[k] # NoRecord
        PROVE  RecordKnown(recs[k]) /\ WithinBound(k, recs[k], tries')
    <3>1. RecordKnown(recs[k]) /\ WithinBound(k, recs[k], tries)
      BY Zenon, <1>1, <2>2 DEF RecordsKnown
    <3>2. CASE c \in Callers(k)
      <4>1. recs[k].window >= Minute \/ recs[k].count < KeyLimit[k]
        BY Zenon, <1>4, <2>2, <3>2 DEF Allow, Callers
      <4>2. /\ Cardinality(Callers(k)) \in Nat /\ KeyLimit[k] \in Nat \ {0}
            /\ Cardinality(Among(tries', k)) \in Nat
            /\ Cardinality(Among(tries', k)) <= Cardinality(Callers(k))
        BY Zenon, CallersFacts
      <4> QED
        BY SMTT(60), <3>1, <4>1, <4>2, LimiterConstants DEF WithinBound, RecordKnown
    <3>3. CASE c \notin Callers(k)
      <4>1. Among(tries', k) = Among(tries, k)
        BY Zenon, <2>1, <3>3 DEF Among
      <4> QED
        BY <3>1, <4>1, Zenon DEF WithinBound
    <3> QED
      BY Zenon, <3>2, <3>3
  <2> QED
    BY Zenon, <1>2, <2>1, <2>2 DEF LimiterIInv, RecordsKnown
<1> QED
  BY Zenon, <1>3, <1>4

\* Verified: the attempt is over without a failure.
LEMMA VerifiedStep ==
  ASSUME LimiterIInv, NEW c \in Clients, Verified(c)
  PROVE  LimiterIInv'
<1>1. tries' \in SUBSET tries /\ records' = records
  BY Zenon DEF Verified
<1>2. RecordsKnown(records, tries')
  BY Zenon, <1>1, FewerKnown DEF LimiterIInv
<1> QED
  BY Zenon, <1>1, <1>2 DEF LimiterIInv

\* RecordFailure: the failure takes the place of the attempt.
LEMMA DeniedStep ==
  ASSUME LimiterIInv, NEW c \in Clients, NEW backs \in BOOLEAN, Denied(c, backs)
  PROVE  LimiterIInv'
<1>1. c \in tries /\ tries' = tries \ {c} /\ tries' \in SUBSET tries
  BY Zenon DEF Denied
<1>2. \A i \in DOMAIN Items[c] : c \in Callers(Items[c][i])
  BY Zenon DEF Callers, Range
<1>3. RecordsKnown(RecordFailure(Items[c], FALSE, backs), tries')
  BY Zenon, <1>1, <1>2, FailureKnown DEF LimiterIInv
<1> QED
  BY Zenon, <1>1, <1>3 DEF Denied, LimiterIInv

\* A tick: windows and ages grow, up to their bounds.
LEMMA LimiterTickStep ==
  ASSUME LimiterIInv, LimiterTick
  PROVE  LimiterIInv'
<1>1. tries' = tries
  BY Zenon DEF LimiterTick
<1>2. ASSUME NEW k \in LimitKeys, records'[k] # NoRecord
      PROVE  RecordKnown(records'[k]) /\ WithinBound(k, records'[k], tries)
  <2> DEFINE r == records[k]
             n == [r EXCEPT !.window = Least(@ + 1, Minute), !.seen = Least(@ + 1, FailureWindow),
                            !.backoff = IF @ = 0 THEN 0 ELSE @ - 1]
  <2>1. r # NoRecord /\ records'[k] = n
    BY Zenon, <1>2 DEF LimiterTick
  <2>2. RecordKnown(r) /\ WithinBound(k, r, tries)
    BY Zenon, <2>1 DEF LimiterIInv, RecordsKnown
  <2> HIDE DEF r
  <2>3. /\ DOMAIN n = DOMAIN r /\ n.count = r.count /\ n.blind = r.blind
        /\ n.window = Least(r.window + 1, Minute) /\ n.seen = Least(r.seen + 1, FailureWindow)
    BY Zenon, <2>2 DEF RecordKnown
  <2> HIDE DEF n
  <2>4. /\ Least(r.window + 1, Minute) \in Nat /\ Least(r.window + 1, Minute) \in {r.window + 1, Minute}
        /\ Least(r.seen + 1, FailureWindow) \in Nat
    <3>1. r.window + 1 \in Nat /\ r.seen + 1 \in Nat /\ Minute \in Nat /\ FailureWindow \in Nat
      BY <2>2, LimiterConstants DEF RecordKnown
    <3> QED
      BY Zenon, <3>1, LeastOfTwo
  <2>5. RecordKnown(n)
    BY Zenon, <2>2, <2>3, <2>4 DEF RecordKnown
  <2>6. n.window < Minute => r.window < Minute
    BY <2>2, <2>3, <2>4, LimiterConstants DEF RecordKnown
  <2>7. WithinBound(k, n, tries)
    BY Zenon, <2>2, <2>3, <2>6 DEF WithinBound
  <2> QED
    BY Zenon, <2>1, <2>5, <2>7
<1> QED
  BY Zenon, <1>1, <1>2 DEF LimiterIInv, RecordsKnown

\* Every step of the limiter keeps the invariant.
LEMMA LimiterStep == LimiterIInv /\ [LimiterNext]_limiterVars => LimiterIInv'
<1> SUFFICES ASSUME LimiterIInv, [LimiterNext]_limiterVars PROVE LimiterIInv'
    OBVIOUS
<1>1. CASE UNCHANGED limiterVars
  BY <1>1, Zenon DEF limiterVars, LimiterIInv
<1>2. CASE LimiterNext
  BY <1>2, Zenon, InvalidUserStep, AttemptStep, VerifiedStep, DeniedStep, LimiterTickStep DEF LimiterNext
<1> QED
  BY Zenon, <1>1, <1>2

\* No failure is recorded.
LEMMA LimiterInitIInv == LimiterInit => LimiterIInv
BY Zenon DEF LimiterInit, LimiterIInv, RecordsKnown

\* The invariant always holds.
LEMMA LimiterInvariance == LimiterSpec => []LimiterIInv
BY LimiterInitIInv, LimiterStep, PTL DEF LimiterSpec

\* Allow, RecordFailure: for any clients, keys and limits, no key has more checked
\* failures in a minute than its limit and one for every other client of it.
THEOREM WindowsBounded == LimiterSpec => []WindowBounded
<1>1. LimiterIInv => WindowBounded
  <2> SUFFICES ASSUME LimiterIInv, NEW k \in Known(records), records[k].window < Minute
               PROVE  records[k].count - records[k].blind
                        < KeyLimit[k] + Cardinality({c \in Clients : k \in Range(Items[c])})
      BY Zenon DEF WindowBounded
  <2>1. k \in LimitKeys /\ RecordKnown(records[k]) /\ WithinBound(k, records[k], tries)
    BY Zenon DEF Known, LimiterIInv, RecordsKnown
  <2>2. /\ Cardinality(Callers(k)) \in Nat /\ KeyLimit[k] \in Nat \ {0}
        /\ Cardinality(Among(tries, k)) \in Nat
    BY Zenon, <2>1, CallersFacts
  <2>3. records[k].count - records[k].blind < KeyLimit[k] + Cardinality(Callers(k))
    BY SMTT(60), <2>1, <2>2 DEF WithinBound, RecordKnown
  <2> QED
    BY <2>3, Zenon DEF Callers
<1> QED
  BY <1>1, LimiterInvariance, PTL

-----------------------------------------------------------------------------
(***************************************************************************)
(* Activity: ActivityIInv.                                                 *)
(*                                                                         *)
(* A Runtime in use is not stopped, for any timeouts that are longer than  *)
(* a permit, and any number of faults and changes.                         *)
(*                                                                         *)
(* Two clocks must agree. What says that nobody is connected, an entry or  *)
(* a report under way, is never much older than the session it misses; and *)
(* where there is no entry to ask, the time the tracker has counted idle   *)
(* and the Gateway's permit are together at most TTL, so that the permit   *)
(* has run out, and the sessions with it, before the idle time is over.    *)
(***************************************************************************)
GatewayFields == {"alive", "serving", "permit", "live", "route", "conn"}
EntryFields == {"live", "age", "permit", "connected", "newer"}
RuntimeFields == {"policy", "on", "gen", "idle", "retry"}

\* Counters stay within their bounds.
ActivityType ==
    /\ DOMAIN gw = GatewayFields /\ gw.permit \in 0 .. TTL /\ gw.live \in 0 .. Slack + 1
    /\ report # None => /\ DOMAIN report = EntryFields
                        /\ report.age \in 0 .. TTL + 1 /\ report.permit \in 0 .. TTL
    /\ DOMAIN act = RuntimeFields /\ act.idle \in -1 .. IdleTimeout

\* Generations are numbers, and a call is answered in one of three ways.
GenerationType ==
    /\ act.gen \in Nat
    /\ DOMAIN gitea = {"on", "gen"} /\ gitea.gen \in Nat /\ unseen \in SUBSET Nat
    /\ call # None => /\ DOMAIN call = {"phase", "on", "gen", "since"} /\ call.gen \in Nat
                      /\ call.phase \in {"sent", "pending", "changed", "not_applicable"}

\* Only a Gateway that serves has sessions, and what says that it has none, the
\* entry or a report under way, is older than all but the first tick of one.
ReportsTrue ==
    /\ gw.live > 0 => gw.serving
    /\ uplink # None /\ ~uplink.live => gw.live <= 1
    /\ old # None /\ old.report # None /\ ~old.report.live => gw.live <= 1
    /\ report # None /\ ~report.live => report.age > TTL \/ gw.live <= report.age + 1

\* A Gateway that serves has no longer permit than its entry, or, where there is
\* no entry, than is left of TTL since the tracker began to count.
PermitsCovered ==
    /\ report # None => report.permit + report.age >= TTL
    /\ gw.serving /\ report # None => gw.permit <= report.permit
    /\ gw.serving /\ report = None /\ act.idle >= 0 => gw.permit = 0 \/ gw.permit + act.idle <= TTL
    /\ gw.conn /\ downlink # None => IF report = None THEN act.idle <= 0 ELSE report.permit = TTL
    /\ gw.conn /\ control = "open" => report # None /\ report.age <= 1

\* An entry that does not count is older than the idle time counted since.
OlderThanIdle ==
    report # None /\ ~report.newer /\ act.idle >= 0 => report.age > TTL \/ report.age >= act.idle

ActivityIInv == ActivityType /\ GenerationType /\ ReportsTrue /\ PermitsCovered /\ OlderThanIdle

(***************************************************************************)
(* The invariant.                                                          *)
(***************************************************************************)
\* At the start nothing is connected and no time is counted.
LEMMA ActivityInitial == Init => ActivityIInv
  BY ActivityAssumption DEF Init, ActivityIInv, ActivityType, GenerationType, ReportsTrue, PermitsCovered,
     OlderThanIdle, Down, NoAct, GatewayFields, EntryFields, RuntimeFields

\* What the tracker does when it observes something, or nothing: the time is
\* counted on or anew, and the entry counts on only in the first case.
Observed ==
    /\ UNCHANGED <<gw, uplink, downlink, control, old>>
    /\ DOMAIN act' = RuntimeFields /\ act'.idle \in {act.idle, -1}
    /\ \/ report' = report
       \/ report # None /\ report' = [report EXCEPT !.newer = FALSE] /\ act'.idle = -1

\* An observation keeps the invariant.
LEMMA ObservedKeeps == ASSUME ActivityIInv, GenerationType', Observed PROVE ActivityIInv'
<1> USE ActivityAssumption DEF None, GatewayFields, EntryFields, RuntimeFields
<1>1. ActivityType'
  BY DEF ActivityIInv, ActivityType, Observed
<1>2. ReportsTrue'
  BY Zenon DEF ActivityIInv, ActivityType, ReportsTrue, Observed
<1>3. PermitsCovered'
  BY DEF ActivityIInv, ActivityType, PermitsCovered, Observed
<1>4. OlderThanIdle'
  BY DEF ActivityIInv, ActivityType, OlderThanIdle, Observed
<1> QED
  BY Zenon, <1>1, <1>2, <1>3, <1>4 DEF ActivityIInv

\* Reset, and the settings or an interaction that are applied.
LEMMA Resets ==
    ASSUME ActivityType, GenerationType
    PROVE  /\ DOMAIN Reset(act) = RuntimeFields /\ Reset(act).idle = -1
           /\ \A s : DOMAIN Settled(s) = RuntimeFields
           /\ \A s : s.gen \in Nat /\ Restarts(s) => Settled(s).idle = -1
           /\ \A s : Settled(s).idle \in {act.idle, -1}
<1>1. DOMAIN Reset(act) = RuntimeFields /\ Reset(act).idle = -1
  BY Zenon DEF ActivityType, Reset, RuntimeFields
<1>2. ASSUME NEW s PROVE DOMAIN Settled(s) = RuntimeFields /\ Settled(s).idle \in {act.idle, -1}
  BY Zenon DEF ActivityType, Reset, RuntimeFields, Settled
<1>3. ASSUME NEW s, s.gen \in Nat, Restarts(s) PROVE Settled(s).idle = -1
  BY <1>3 DEF ActivityType, GenerationType, Reset, RuntimeFields, Settled, Restarts
<1> QED
  BY Zenon, <1>1, <1>2, <1>3

\* Every step keeps generations numbers.
LEMMA GenerationStep == ASSUME ActivityType, GenerationType, Next PROVE GenerationType'
<1> USE DEF GenerationType, streams, tracker, world
<1>0. DOMAIN act = RuntimeFields /\ \A a : DOMAIN a = RuntimeFields => Reset(a).gen = a.gen
  BY Zenon DEF ActivityType, RuntimeFields, Reset
<1>1. \A s : s.gen \in Nat => Settled(s).gen \in Nat
  BY Zenon, <1>0 DEF Settled, RuntimeFields
<1>2. CASE IdleRequest
  BY <1>0, <1>2 DEF IdleRequest, RuntimeFields
<1>3. CASE IdleStopFailed \/ RequestIdleStop
  BY <1>0, <1>3 DEF IdleStopFailed, RequestIdleStop, RuntimeFields, None
<1>4. CASE IdleStopResult
  <2>1. DOMAIN Settled(call) = RuntimeFields
    BY Zenon, Resets
  <2>2. /\ call' = None /\ UNCHANGED <<gitea, unseen>>
        /\ act' \in {act, [act EXCEPT !.retry = 1], [act EXCEPT !.idle = -1, !.retry = 1],
                    [Settled(call) EXCEPT !.retry = 0]}
    <3>1. call.phase \in {"pending", "changed", "not_applicable"}
      BY Zenon, <1>4 DEF IdleStopResult
    <3> QED
      BY Zenon, <1>4, <3>1 DEF IdleStopResult
  <2> QED
    BY Zenon, <1>0, <1>1, <1>4, <2>1, <2>2 DEF IdleStopResult, RuntimeFields
<1>5. CASE ObserveSettings
  BY <1>1, <1>5 DEF ObserveSettings, Dec
<1>6. CASE \E gen \in unseen : AuthorizeGateway(gen)
  <2>1. PICK gen \in unseen : AuthorizeGateway(gen)
    BY Zenon, <1>6
  <2>2. act' \in {act, Reset([act EXCEPT !.gen = gen])} /\ UNCHANGED <<call, gitea>> /\ unseen' = unseen \ {gen}
    BY Zenon, <2>1 DEF AuthorizeGateway, ObserveInteraction
  <2> QED
    BY Zenon, <1>0, <2>2 DEF RuntimeFields
<1>7. CASE Interact \/ SetPolicy
  BY <1>7 DEF Interact, SetPolicy
<1>8. CASE RetainSite \/ NewLeader
  <2>1. act'.gen \in Nat
    BY <1>8 DEF RetainSite, NewLeader, NoAct
  <2>2. gitea' = gitea /\ unseen' \in {unseen, {}} /\ call' \in {call, None}
    BY Zenon, <1>8 DEF RetainSite, NewLeader
  <2> QED
    BY Zenon, <2>1, <2>2
<1>9. CASE Begin \/ End \/ Connect \/ SendActivity \/ ReceiveResponse \/ PermitLapses \/ ControlStreamFails \/ Dies
           \/ \E to \in {"running", "stopped", "gone"} : Operate(to)
  BY Zenon, <1>9 DEF Begin, End, Connect, SendActivity, ReceiveResponse, PermitLapses, ControlStreamFails, Dies, Operate
<1>10. CASE HandleReport \/ OldReport \/ PeerReports
  <2>1. UNCHANGED <<act, gitea, unseen>> /\ (call' = call \/ \E who : Noted(who))
    BY Zenon, <1>10 DEF HandleReport, OldReport, PeerReports, ReplaceGateway
  <2> QED
    BY Zenon, <2>1 DEF Noted
<1>11. CASE SendResponse \/ HandlerEnds \/ OldEnds
  BY Zenon, <1>11 DEF SendResponse, HandlerEnds, OldEnds
<1>12. CASE Tick
  BY Zenon, <1>0, <1>12 DEF Tick, RuntimeFields
<1> QED
  BY ZenonT(60), <1>2, <1>3, <1>4, <1>5, <1>6, <1>7, <1>8, <1>9, <1>10, <1>11, <1>12 DEF Next

\* IdleStopResult, ObserveSettings and what else the tracker observes.
LEMMA TrackerObserves ==
    ASSUME ActivityIInv,
           \/ IdleStopFailed \/ RequestIdleStop \/ IdleStopResult \/ ObserveSettings \/ RetainSite
           \/ Interact \/ (\E gen \in unseen : AuthorizeGateway(gen)) \/ SetPolicy
           \/ (\E to \in {"running", "stopped", "gone"} : Operate(to)) \/ PeerReports
    PROVE  Observed
<1> USE DEF streams, tracker, world
<1>0. ActivityType /\ GenerationType /\ DOMAIN act = RuntimeFields
  BY Zenon DEF ActivityIInv, ActivityType
<1>1. ASSUME NEW since, ActivityAfter(since)
      PROVE  report' = report \/ (report # None /\ report' = [report EXCEPT !.newer = FALSE])
  BY Zenon, <1>1 DEF ActivityAfter
<1>2. ASSUME NEW s, s.gen \in Nat, NEW since, act' = Settled(s), applySettings(s, since),
             UNCHANGED <<gw, uplink, downlink, control, old>>
      PROVE  Observed
  BY Zenon, <1>0, <1>1, <1>2, Resets DEF Observed, applySettings
<1>3. CASE IdleStopFailed
  BY Zenon, <1>0, <1>3 DEF IdleStopFailed, Observed, RuntimeFields
<1>4. CASE RequestIdleStop
  BY Zenon, <1>0, <1>4 DEF RequestIdleStop, Observed
<1>5. CASE IdleStopResult
  <2>1. CASE act = NoAct
    BY Zenon, <1>0, <1>5, <2>1 DEF IdleStopResult, Observed
  <2>2. CASE act # NoAct /\ call.phase = "changed"
    <3>1. /\ act' = [Settled(call) EXCEPT !.retry = 0] /\ applySettings(call, call.since)
          /\ UNCHANGED <<gw, uplink, downlink, control, old>>
      BY Zenon, <1>5, <2>2 DEF IdleStopResult
    <3>2. DOMAIN act' = RuntimeFields /\ act'.idle = Settled(call).idle
      BY Zenon, <3>1, <1>0, Resets DEF RuntimeFields
    <3>3. Restarts(call) => ActivityAfter(call.since) /\ Settled(call).idle = -1
      <4>1. call.gen \in Nat
        BY Zenon, <1>0, <1>5 DEF IdleStopResult, GenerationType
      <4> QED
        BY Zenon, <3>1, <4>1, <1>0, Resets DEF applySettings
    <3>4. ~Restarts(call) => report' = report
      BY Zenon, <3>1 DEF applySettings
    <3>5. Settled(call).idle \in {act.idle, -1}
      BY Zenon, <1>0, Resets
    <3> QED
      BY Zenon, <3>1, <3>2, <3>3, <3>4, <3>5, <1>1 DEF Observed
  <2>3. CASE act # NoAct /\ call.phase # "changed"
    <3>1. /\ act' = [act EXCEPT !.retry = 1] \/ act' = [act EXCEPT !.idle = -1, !.retry = 1]
          /\ UNCHANGED <<gw, uplink, downlink, control, old, report>>
      <4>1. call.phase \in {"pending", "not_applicable"}
        BY Zenon, <1>0, <1>5, <2>3 DEF IdleStopResult, GenerationType
      <4> QED
        BY Zenon, <4>1, <1>5, <2>3 DEF IdleStopResult
    <3> QED
      BY Zenon, <3>1, <1>0 DEF Observed, RuntimeFields
  <2> QED
    BY Zenon, <2>1, <2>2, <2>3
<1>6. CASE ObserveSettings
  <2>1. PICK gen \in {Dec(gitea.gen), gitea.gen} :
          LET s == [on |-> gitea.on, gen |-> gen] IN act' = Settled(s) /\ applySettings(s, {})
    BY Zenon, <1>6 DEF ObserveSettings
  <2>2. gen \in Nat
    BY <1>0 DEF Dec, GenerationType
  <2> QED
    BY Zenon, <1>2, <1>6, <2>1, <2>2 DEF ObserveSettings
<1>7. CASE RetainSite
  BY Zenon, <1>0, <1>7 DEF RetainSite, NoAct, Observed, RuntimeFields
<1>8. CASE Interact \/ SetPolicy \/ PeerReports \/ \E to \in {"running", "stopped", "gone"} : Operate(to)
  BY Zenon, <1>0, <1>8 DEF Interact, SetPolicy, PeerReports, Operate, Observed
<1>9. CASE \E gen \in unseen : AuthorizeGateway(gen)
  <2>1. PICK gen \in unseen : AuthorizeGateway(gen)
    BY Zenon, <1>9
  <2>2. CASE gen <= act.gen
    BY Zenon, <1>0, <2>1, <2>2 DEF AuthorizeGateway, ObserveInteraction, Observed
  <2>3. CASE ~(gen <= act.gen)
    <3>1. act' = Reset([act EXCEPT !.gen = gen]) /\ ActivityAfter({})
          /\ UNCHANGED <<gw, uplink, downlink, control, old>>
      BY Zenon, <2>1, <2>3 DEF AuthorizeGateway, ObserveInteraction
    <3>2. DOMAIN act' = RuntimeFields /\ act'.idle = -1
      BY Zenon, <3>1, <1>0 DEF Reset, RuntimeFields
    <3> QED
      BY Zenon, <3>1, <3>2, <1>1 DEF Observed
  <2> QED
    BY Zenon, <2>2, <2>3
<1> QED
  BY Zenon, <1>3, <1>4, <1>5, <1>6, <1>7, <1>8, <1>9

\* IdleRequest drops an entry only when no Gateway can serve on its permit.
LEMMA IdleRequestKeeps == ASSUME ActivityIInv, GenerationType', IdleRequest PROVE ActivityIInv'
<1>0. ActivityType /\ GenerationType /\ DOMAIN act = RuntimeFields
  BY Zenon DEF ActivityIInv, ActivityType
<1>1. /\ UNCHANGED <<gw, uplink, downlink, control, old>>
      /\ report' = report \/ (Dropped /\ report' = None)
      /\ act' \in {act, Reset(act), [act EXCEPT !.retry = 1]} \/ (act.idle < 0 /\ act' = [act EXCEPT !.idle = 0])
  BY Zenon DEF IdleRequest, streams
<1>2. DOMAIN act' = RuntimeFields /\ (act'.idle \in {act.idle, -1} \/ (act.idle < 0 /\ act'.idle = 0))
  BY Zenon, <1>0, <1>1, Resets DEF RuntimeFields
<1>3. Dropped => /\ report.permit = 0 /\ report # None /\ (gw.serving => gw.permit = 0)
                 /\ ~(gw.conn /\ downlink # None) /\ ~(gw.conn /\ control = "open")
  BY ActivityAssumption DEF Dropped, ActivityIInv, ActivityType, PermitsCovered
<1> USE ActivityAssumption DEF None, GatewayFields, EntryFields, RuntimeFields
<1>4. ActivityType'
  BY <1>1, <1>2 DEF ActivityIInv, ActivityType
<1>5. ReportsTrue'
  BY Zenon, <1>1, <1>2 DEF ActivityIInv, ActivityType, ReportsTrue
<1>6. PermitsCovered'
  BY <1>1, <1>2, <1>3 DEF ActivityIInv, ActivityType, PermitsCovered
<1>7. OlderThanIdle'
  BY <1>1, <1>2 DEF ActivityIInv, ActivityType, OlderThanIdle
<1> QED
  BY Zenon, <1>4, <1>5, <1>6, <1>7 DEF ActivityIInv

\* Begin, End, Run, and the timer of its permit: what the Gateway does by itself.
LEMMA GatewayKeeps ==
    ASSUME ActivityIInv, GenerationType',
           \/ Begin \/ End \/ Connect \/ SendActivity \/ ReceiveResponse
           \/ PermitLapses \/ ControlStreamFails \/ Dies
    PROVE  ActivityIInv'
<1> USE ActivityAssumption DEF None, GatewayFields, EntryFields, RuntimeFields, streams, tracker
<1>1. ActivityType /\ ReportsTrue /\ PermitsCovered /\ OlderThanIdle /\ UNCHANGED <<report, act>>
  BY Zenon DEF ActivityIInv, Begin, End, Connect, SendActivity, ReceiveResponse, PermitLapses, ControlStreamFails, Dies
<1>2. OlderThanIdle'
  BY Zenon, <1>1 DEF OlderThanIdle
<1>3. CASE Begin
  BY SMTT(60), <1>1, <1>2, <1>3 DEF ActivityIInv, ActivityType, ReportsTrue, PermitsCovered, Begin
<1>4. CASE End \/ PermitLapses \/ ControlStreamFails \/ Dies
  <2>1. /\ DOMAIN gw' = GatewayFields /\ gw'.permit \in 0 .. TTL /\ gw'.live \in {gw.live, 0}
        /\ gw'.live = 0 \/ gw'.serving = gw.serving
        /\ gw'.serving => gw'.permit = gw.permit /\ gw.serving
        /\ gw'.conn => gw.conn
    <3>1. CASE End
      BY Zenon, <1>1, <3>1 DEF End, ActivityType
    <3>2. CASE PermitLapses
      BY Zenon, <1>1, <3>2 DEF PermitLapses, StopServing, ActivityType
    <3>3. CASE ControlStreamFails
      BY Zenon, <1>1, <3>3 DEF ControlStreamFails, ActivityType
    <3>4. CASE Dies
      BY <1>1, <3>4 DEF Dies, Down
    <3> QED
      BY Zenon, <1>4, <3>1, <3>2, <3>3, <3>4
  <2>2. UNCHANGED <<uplink, downlink, control, old>>
    BY Zenon, <1>4 DEF End, PermitLapses, ControlStreamFails, Dies
  <2>3. ReportsTrue'
    BY SMTT(60), <1>1, <2>1, <2>2 DEF ActivityType, ReportsTrue
  <2> QED
    BY SMTT(60), <1>1, <1>2, <2>1, <2>2, <2>3 DEF ActivityIInv, ActivityType, PermitsCovered
<1>5. CASE Connect
  <2>1. /\ gw'.live = gw.live /\ gw'.serving = gw.serving /\ DOMAIN gw' = GatewayFields
        /\ gw'.permit \in {gw.permit, TTL} /\ (gw.serving => gw'.permit = gw.permit)
    BY Zenon, <1>1, <1>5 DEF Connect, ActivityType
  <2>2. uplink'.live <=> gw.live > 0
    BY Zenon, <1>5 DEF Connect
  <2>3. old' # None => old' = old \/ old'.report = uplink
    BY Zenon, <1>5 DEF Connect
  <2>4. ReportsTrue'
    <3>1. uplink' # None /\ ~uplink'.live => gw'.live <= 1
      BY SMTT(60), <1>1, <2>1, <2>2 DEF ActivityType
    <3>2. old' # None /\ old'.report # None /\ ~old'.report.live => gw'.live <= 1
      BY Zenon, <1>1, <2>1, <2>3 DEF ReportsTrue
    <3> QED
      BY ZenonT(60), <1>1, <2>1, <3>1, <3>2 DEF ReportsTrue
  <2>5. ActivityType' /\ PermitsCovered'
    BY SMTT(60), <1>1, <1>5, <2>1 DEF ActivityType, PermitsCovered, Connect
  <2> QED
    BY Zenon, <1>2, <2>4, <2>5 DEF ActivityIInv
<1>6. CASE SendActivity
  <2>1. uplink'.live <=> gw.live > 0
    BY Zenon, <1>6 DEF SendActivity
  <2>2. ReportsTrue'
    BY <1>1, <1>6, <2>1 DEF ReportsTrue, ActivityType, SendActivity
  <2> QED
    BY Zenon, <1>1, <1>2, <1>6, <2>2 DEF ActivityIInv, ActivityType, PermitsCovered, SendActivity
<1>7. CASE ReceiveResponse
  <2>1. /\ DOMAIN gw' = GatewayFields /\ gw'.permit = TTL /\ gw'.live \in {gw.live, 0}
        /\ gw'.conn = gw.conn /\ (gw.serving => gw'.serving)
    BY Zenon, <1>1, <1>7 DEF ReceiveResponse, ActivityType
  <2>2. ReportsTrue'
    BY SMTT(60), <1>1, <1>7, <2>1 DEF ReportsTrue, ActivityType, ReceiveResponse
  <2>3. ActivityType' /\ PermitsCovered'
    BY <1>1, <1>7, <2>1 DEF ActivityType, PermitsCovered, ReceiveResponse
  <2> QED
    BY Zenon, <1>2, <2>2, <2>3 DEF ActivityIInv
<1> QED
  BY Zenon, <1>3, <1>4, <1>5, <1>6, <1>7

\* What is said on the way of a Gateway without a session (of ReportsTrue).
OnTheWay ==
    /\ uplink # None /\ ~uplink.live => gw.live <= 1
    /\ old # None /\ old.report # None /\ ~old.report.live => gw.live <= 1

\* replaceGatewayActivity puts in an entry that is as new as its permit.
LEMMA EntryReplaced ==
    ASSUME ActivityIInv, GenerationType', UNCHANGED <<gw, act>>, OnTheWay',
           NEW live, ReplaceGateway(live), ~live => gw.live <= 1
    PROVE  ActivityIInv'
<1>1. /\ report' # None /\ DOMAIN report' = EntryFields /\ report'.live = live
      /\ report'.age = 0 /\ report'.permit = TTL /\ report'.newer
  BY Zenon DEF ReplaceGateway, None, EntryFields
<1>2. ActivityType /\ gw' = gw /\ act' = act
  BY Zenon DEF ActivityIInv
<1>3. gw.permit \in 0 .. TTL /\ gw.live \in 0 .. Slack + 1
  BY Zenon, <1>2 DEF ActivityType
<1>4. 0 \in 0 .. TTL + 1 /\ TTL \in 0 .. TTL /\ TTL + 0 >= TTL /\ gw.permit <= TTL /\ 0 <= 1 /\ 0 + 1 = 1
  BY SMTT(60), <1>3, ActivityAssumption
<1>5. ActivityType'
  BY ZenonT(60), <1>1, <1>2, <1>4 DEF ActivityType
<1>6. ReportsTrue'
  BY ZenonT(60), <1>1, <1>2, <1>4 DEF ActivityIInv, ReportsTrue, OnTheWay
<1>7. PermitsCovered'
  BY ZenonT(60), <1>1, <1>2, <1>4 DEF PermitsCovered
<1>8. OlderThanIdle'
  BY ZenonT(60), <1>1 DEF OlderThanIdle
<1> QED
  BY ZenonT(60), <1>5, <1>6, <1>7, <1>8 DEF ActivityIInv

\* Release says of an entry only that its stream is over.
LEMMA EntryKept ==
    ASSUME ActivityIInv, GenerationType', UNCHANGED <<gw, act, downlink>>, OnTheWay',
           UNCHANGED report \/ Release, UNCHANGED control \/ control' = "none"
    PROVE  ActivityIInv'
<1>1. ActivityType /\ ReportsTrue /\ PermitsCovered /\ OlderThanIdle /\ gw' = gw /\ act' = act /\ downlink' = downlink
  BY Zenon DEF ActivityIInv
<1>2. report' = None <=> report = None
  BY ZenonT(60), <1>1 DEF Release, ActivityType, None, EntryFields
<1>3. report # None => /\ DOMAIN report' = EntryFields /\ report'.live = report.live /\ report'.newer = report.newer
                       /\ report'.age = report.age /\ report'.permit = report.permit
  BY ZenonT(60), <1>1 DEF Release, ActivityType, EntryFields
<1>4. ActivityType'
  BY ZenonT(60), <1>1, <1>2, <1>3 DEF ActivityType
<1>5. ReportsTrue'
  BY ZenonT(60), <1>1, <1>2, <1>3 DEF ReportsTrue, OnTheWay
<1>6. gw'.conn /\ control' = "open" => gw.conn /\ control = "open"
  BY ZenonT(60), <1>1
<1>7. PermitsCovered'
  BY ZenonT(60), <1>1, <1>2, <1>3, <1>6 DEF PermitsCovered
<1>8. OlderThanIdle'
  BY ZenonT(60), <1>1, <1>2, <1>3 DEF OlderThanIdle
<1> QED
  BY ZenonT(60), <1>4, <1>5, <1>7, <1>8 DEF ActivityIInv

\* renewGatewayPermit: the entry's permit is as long as the one that is sent.
LEMMA SendResponseKeeps == ASSUME ActivityIInv, GenerationType', SendResponse PROVE ActivityIInv'
<1>1. /\ ActivityType /\ ReportsTrue /\ PermitsCovered /\ OlderThanIdle
      /\ gw' = gw /\ act' = act /\ uplink' = uplink /\ old' = old /\ control' = control
  BY Zenon DEF ActivityIInv, SendResponse
<1>2. report' = None <=> report = None
  BY ZenonT(60), <1>1 DEF SendResponse, RenewGatewayPermit, ActivityType, None, EntryFields
<1>3. report # None => /\ DOMAIN report' = EntryFields /\ report'.live = report.live /\ report'.newer = report.newer
                       /\ report'.age = report.age /\ report'.permit = TTL
  BY ZenonT(60), <1>1 DEF SendResponse, RenewGatewayPermit, ActivityType, EntryFields
<1>4. gw.permit \in 0 .. TTL /\ (report # None => report.age \in 0 .. TTL + 1)
  BY Zenon, <1>1 DEF ActivityType
<1>5. TTL \in 0 .. TTL /\ gw.permit <= TTL /\ (report # None => TTL + report.age >= TTL)
  BY SMTT(60), <1>4, ActivityAssumption
<1>6. ActivityType'
  BY ZenonT(60), <1>1, <1>2, <1>3, <1>5 DEF ActivityType
<1>7. ReportsTrue'
  BY ZenonT(60), <1>1, <1>2, <1>3 DEF ReportsTrue
<1>8. gw.conn => report # None
  BY ZenonT(60), <1>1 DEF SendResponse, PermitsCovered
<1>9. PermitsCovered'
  BY ZenonT(60), <1>1, <1>2, <1>3, <1>5, <1>8 DEF PermitsCovered
<1>10. OlderThanIdle'
  BY ZenonT(60), <1>1, <1>2, <1>3 DEF OlderThanIdle
<1> QED
  BY ZenonT(60), <1>6, <1>7, <1>9, <1>10 DEF ActivityIInv

\* What the handlers do: they replace the entry, keep it, or renew its permit.
LEMMA HandlersKeep ==
    ASSUME ActivityIInv, GenerationType',
           HandleReport \/ SendResponse \/ HandlerEnds \/ OldReport \/ OldEnds
    PROVE  ActivityIInv'
<1>1. UNCHANGED <<gw, act>> /\ OnTheWay
  BY ZenonT(60) DEF ActivityIInv, ReportsTrue, OnTheWay, HandleReport, SendResponse, HandlerEnds, OldReport, OldEnds
<1>2. CASE HandleReport
  <2>1. OnTheWay'
    BY ZenonT(60), <1>1, <1>2 DEF OnTheWay, HandleReport
  <2>2. CASE Refused(uplink)
    BY ZenonT(60), <1>1, <1>2, <2>1, <2>2, EntryKept DEF HandleReport
  <2>3. CASE ~Refused(uplink)
    <3>1. ReplaceGateway(uplink.live) /\ (~uplink.live => gw.live <= 1)
      BY ZenonT(60), <1>1, <1>2, <2>3 DEF HandleReport, OnTheWay
    <3> QED
      BY ZenonT(60), <1>1, <2>1, <3>1, EntryReplaced
  <2> QED
    BY ZenonT(60), <2>2, <2>3
<1>3. CASE SendResponse
  BY ZenonT(60), <1>3, SendResponseKeeps
<1>4. CASE HandlerEnds
  <2>1. OnTheWay'
    BY ZenonT(60), <1>1, <1>4 DEF OnTheWay, HandlerEnds
  <2> QED
    BY ZenonT(60), <1>1, <1>4, <2>1, EntryKept DEF HandlerEnds
<1>5. CASE OldReport
  <2>1. CASE Refused(old.report)
    <3>1. OnTheWay'
      BY ZenonT(60), <1>1, <1>5, <2>1 DEF OnTheWay, OldReport
    <3> QED
      BY ZenonT(60), <1>1, <1>5, <2>1, <3>1, EntryKept DEF OldReport
  <2>2. CASE ~Refused(old.report)
    <3>1. ReplaceGateway(old.report.live) /\ (~old.report.live => gw.live <= 1)
      BY ZenonT(60), <1>1, <1>5, <2>2 DEF OldReport, OnTheWay
    <3>2. uplink' = uplink /\ old' = [report |-> None, first |-> FALSE]
      BY ZenonT(60), <1>5, <2>2 DEF OldReport
    <3>3. old'.report = None
      BY ZenonT(60), <3>2
    <3>4. OnTheWay'
      BY ZenonT(60), <1>1, <3>2, <3>3 DEF OnTheWay
    <3> QED
      BY ZenonT(60), <1>1, <3>1, <3>4, EntryReplaced
  <2> QED
    BY ZenonT(60), <2>1, <2>2
<1>6. CASE OldEnds
  <2>1. OnTheWay'
    BY ZenonT(60), <1>1, <1>6 DEF OnTheWay, OldEnds
  <2> QED
    BY ZenonT(60), <1>1, <1>6, <2>1, EntryKept DEF OldEnds
<1> QED
  BY ZenonT(60), <1>2, <1>3, <1>4, <1>5, <1>6

\* A new leader has no entry and begins to count anew.
LEMMA NewLeaderKeeps == ASSUME ActivityIInv, GenerationType', NewLeader PROVE ActivityIInv'
  BY ActivityAssumption DEF NewLeader, NoAct, ActivityIInv, ActivityType, ReportsTrue, PermitsCovered, OlderThanIdle,
     None, GatewayFields, EntryFields, RuntimeFields

\* Time passes for the session, both permits, the entry and the count alike.
LEMMA TickKeeps == ASSUME ActivityIInv, GenerationType', Tick PROVE ActivityIInv'
<1> USE ActivityAssumption DEF GatewayFields, EntryFields, RuntimeFields
<1>1. ActivityType /\ ReportsTrue /\ PermitsCovered /\ OlderThanIdle
  BY Zenon DEF ActivityIInv
<1>2. /\ DOMAIN gw' = GatewayFields /\ gw'.permit = Dec(gw.permit) /\ gw'.serving = gw.serving /\ gw'.conn = gw.conn
      /\ gw'.live = IF gw.live = 0 THEN 0 ELSE Inc(gw.live, Slack + 1)
  BY Zenon, <1>1 DEF Tick, ActivityType
<1>3. IF report = None THEN report' = None
      ELSE /\ report' # None /\ DOMAIN report' = EntryFields /\ report'.live = report.live
           /\ report'.newer = report.newer
           /\ report'.age = Inc(report.age, TTL + 1) /\ report'.permit = Dec(report.permit)
  BY Zenon, <1>1 DEF Tick, ActivityType, None
<1>4. DOMAIN act' = RuntimeFields /\ act'.idle = IF act.idle < 0 THEN act.idle ELSE Inc(act.idle, IdleTimeout)
  BY Zenon, <1>1 DEF Tick, ActivityType
<1>5. /\ UNCHANGED <<uplink, downlink, control, old>> /\ uplink = None /\ (gw.conn => downlink = None)
      /\ gw.conn /\ control = "open" => report # None /\ report.age = 0
      /\ old # None => old.report = None
  BY Zenon DEF Tick, streams
<1> USE DEF Inc, Dec
<1>6. ActivityType'
  BY SMTT(60), <1>1, <1>2, <1>3, <1>4 DEF ActivityType
<1>7. ReportsTrue'
  BY SMTT(60), <1>1, <1>2, <1>3, <1>5 DEF ActivityType, ReportsTrue
<1>8. PermitsCovered'
  BY SMTT(60), <1>1, <1>2, <1>3, <1>4, <1>5 DEF ActivityType, PermitsCovered
<1>9. OlderThanIdle'
  BY <1>1, <1>3, <1>4 DEF ActivityType, OlderThanIdle
<1> QED
  BY Zenon, <1>6, <1>7, <1>8, <1>9 DEF ActivityIInv

\* RuntimeActivityTracker, Run, GatewayControl: for any timeouts and any number of
\* faults, a Gateway that still serves is covered by its entry or by the time that
\* was counted, and what says that it has no session is not out of date.
THEOREM ActivityInvariance == Spec => []ActivityIInv
<1>1. Init => ActivityIInv
  BY Zenon, ActivityInitial
<1>2. ActivityIInv /\ [Next]_vars => ActivityIInv'
  <2> SUFFICES ASSUME ActivityIInv, [Next]_vars PROVE ActivityIInv'
    BY Zenon
  <2>1. CASE UNCHANGED vars
    <3>1. UNCHANGED <<gw, uplink, downlink, control, old, report, act, call, gitea, unseen>>
      BY Zenon, <2>1 DEF vars, streams, tracker, world
    <3> QED
      BY <3>1 DEF ActivityIInv, ActivityType, GenerationType, ReportsTrue, PermitsCovered, OlderThanIdle
  <2>2. CASE Next
    <3>1. GenerationType'
      BY Zenon, <2>2, GenerationStep DEF ActivityIInv
    <3> QED
      BY Zenon, <2>2, <3>1, TrackerObserves, ObservedKeeps, IdleRequestKeeps, GatewayKeeps, HandlersKeep, NewLeaderKeeps,
         TickKeeps DEF Next
  <2> QED
    BY Zenon, <2>1, <2>2
<1> QED
  BY <1>1, <1>2, PTL DEF Spec

\* The Manager asks for a stop only when what it knows of the Gateway excludes a
\* session longer than Slack.
LEMMA StopsTheUnused ==
    ASSUME ActivityIInv, [Next]_vars, call = None, call' # None, gw.live > Slack
    PROVE  gw.permit = 0
<1>1. IdleRequest
  BY Zenon DEF Next, vars, streams, tracker, world, IdleStopFailed, RequestIdleStop, IdleStopResult, ObserveSettings,
     RetainSite, Interact, AuthorizeGateway, SetPolicy, Operate, Begin, End, Connect, SendActivity,
     ReceiveResponse, PermitLapses, ControlStreamFails, Dies, HandleReport, ReplaceGateway, Noted,
     SendResponse, HandlerEnds, OldReport, OldEnds, PeerReports, NewLeader, Tick
<1>2. ~Uncertain /\ Fresh /\ ~InUse /\ act.idle >= IdleTimeout
  <2>1. call' # call
    OBVIOUS
  <2>2. ~Uncertain /\ Fresh /\ ~InUse /\ ~(act.idle < IdleTimeout)
    BY Zenon, <1>1, <2>1 DEF IdleRequest
  <2> QED
    BY <2>2, ActivityAssumption DEF ActivityIInv, ActivityType
<1>3. gw.serving
  BY SMTT(60), ActivityAssumption DEF ActivityIInv, ActivityType, ReportsTrue
<1>4. CASE report = None
  BY SMTT(60), <1>2, <1>3, <1>4, ActivityAssumption DEF ActivityIInv, ActivityType, PermitsCovered
<1>5. CASE report # None /\ ~Current
  BY SMTT(60), <1>2, <1>3, <1>5, ActivityAssumption DEF ActivityIInv, ActivityType, PermitsCovered, Uncertain
<1>6. CASE Current
  BY <1>2, <1>6, ActivityAssumption DEF ActivityIInv, ActivityType, ReportsTrue, OlderThanIdle, Current, InUse
<1> QED
  BY Zenon, <1>4, <1>5, <1>6

\* requestIdleStops, IdleRequest: for any timeouts and any number of faults, the
\* Manager never asks for the stop of a Runtime while a Gateway whose permit lasts
\* serves a session of it that is older than Slack.
THEOREM UsedAreNotStopped == Spec => UsedIsNotStopped
<1>1. ActivityIInv /\ [Next]_vars => [call = None /\ call' # None /\ gw.live > Slack => gw.permit = 0]_vars
  BY Zenon, StopsTheUnused
<1> QED
  BY <1>1, ActivityInvariance, PTL DEF Spec, UsedIsNotStopped

=============================================================================
