----------------------------- MODULE FrontDoor -----------------------------
(***************************************************************************)
(* What stands between a client and a handler: the mode and its routes     *)
(* (internal/api/server.go, mode.go), the OIDC session (internal/auth),    *)
(* the bearer token (bearer.go), the double-submit CSRF cookie (csrf.go)   *)
(* and the two rate limiters (rate_limiter.go).                            *)
(*                                                                         *)
(* The clients are the tabs of one browser, which share a cookie jar, and  *)
(* scripts, which send a bearer token or nothing and keep no cookie.  A    *)
(* tab's navigation carries the cookies the jar held when it was sent, and *)
(* anything may happen before it is served: other tabs' answers change the *)
(* jar, time passes, a restart breaks it.  It is served, and its answer    *)
(* delivered, in one step: nothing it depends on changes while the process *)
(* runs, and a later delivery to one tab is an earlier request of another. *)
(* An htmx request is sent and served in one step: only the cookies matter *)
(* to it, and it reads them all at once.                                   *)
(* The identity provider, the browser and the people are external.         *)
(***************************************************************************)
EXTENDS Naturals, FiniteSets

CONSTANTS
  Tabs,              \* the tabs of a browser
  Emails,            \* accounts at the identity provider
  Blank,             \* an empty entry of a configured list
  Pages, Home,       \* pages of the dashboard; the one at "/"
  Cut,               \* the page that is left of each one's address up to its
                     \* first "&"
  Confs,             \* configurations the process may be started with
  Addrs, ownAddr,    \* source addresses, and the browser's
  loginLimit, triggerLimit, window,  \* RateLimit(10, time.Minute), (20, ...)
  sessionTTL,        \* life of a session (24 h)
  stateTTL,          \* life of the state cookie (10 min)
  MaxTime,           \* bounds, for each configuration: on the clock,
  used,              \* the pages opened and the controls used,
  Followers,         \* the configurations it may be restarted with;
  MaxRestarts,       \* and on the restarts
  None               \* no cookie, token, code or bucket

\* What else a route, a status or a cookie is called.
Names ==
  {"rows", "api", "v1", "unmatched", "underAuth", "suspend", "trigger", "login", "callback",
   "logout", "loggedOut", "healthz", "metrics", "other", "unauthorized", "csrf",
   "notFound", "provider", "limited", "mismatch", "welcome", "failed", "denied",
   "bye", "forbidden", "done", "token"}

ASSUME DoorAssumption ==
  /\ {loginLimit, triggerLimit, sessionTTL, stateTTL} \subseteq Nat \ {0}
  /\ {window, MaxRestarts} \subseteq Nat
  /\ MaxTime \in [Confs -> Nat]
  /\ Home \in Pages /\ Cut \in [Pages -> Pages]
  /\ ownAddr \in Addrs
  /\ None \notin Pages \cup Emails \cup Names
  /\ Pages \cap Names = {}
  /\ None \notin [count : Nat, reset : Nat]

VARIABLES
  now,       \* the clock
  conf,      \* the configuration of the running process
  key,       \* its session key
  starts,    \* restarts so far
  jar,       \* the browser's cookies: session, state and csrf
  page,      \* what each tab shows: a page of the dashboard, or something else
  wire,      \* what each tab has under way: nothing, a request or a login
  vetted,    \* until when a login of each account, confirmed by the provider and
             \* admitted by the allow-list, counts under each key
  excused,   \* since a login last succeeded, another failed for a reason of its
             \* own, or the session was ended
  loginBuckets, loginRecent, loginRefused,       \* loginLimiter
  triggerBuckets, triggerRecent, triggerRefused  \* triggerLimiter

process == <<now, conf, key, starts>>
browser == <<jar, page>>
loginVars == <<loginBuckets, loginRecent, loginRefused>>
triggerVars == <<triggerBuckets, triggerRecent, triggerRefused>>
history == <<vetted, excused>>
vars == <<process, browser, wire, history, loginVars, triggerVars>>

loginLimiter == INSTANCE RateLimiter WITH
  limit <- loginLimit, NoBucket <- None,
  buckets <- loginBuckets, recent <- loginRecent, refused <- loginRefused

triggerLimiter == INSTANCE RateLimiter WITH
  limit <- triggerLimit, NoBucket <- None,
  buckets <- triggerBuckets, recent <- triggerRecent, refused <- triggerRefused

-----------------------------------------------------------------------------
(* Routes *)

\* "suspend" stands for resume too, "api" for the GETs of the dashboard's own
\* API and the static files, "v1" for the collector's, "rows" for the fragments,
\* "healthz" for readyz too, "underAuth" for a GET of a path under /auth/ that
\* none of Auth takes, "unmatched" for a GET of any other path.
Mutations == {"suspend", "trigger"}
Auth == {"login", "callback", "logout", "loggedOut"}
Probes == {"healthz", "metrics"}
Tokens == {None} \cup {cfg.token : cfg \in Confs}
Routes ==
  Pages \cup {"rows", "api", "v1", "unmatched", "underAuth"} \cup Mutations \cup Auth
        \cup Probes

\* Every other route is a GET.
IsPost(route) == route \in Mutations \cup {"logout"}

ServesUI == conf.mode = "ui"

\* main: an Authenticator is built in UI mode with OIDC_ENABLED only.
HasAuthenticator == ServesUI /\ conf.oidc

\* registerCollectorAPI, the probes, and registerUI.
Registered ==
  {"v1", "healthz", "metrics"}
    \cup (IF ServesUI THEN Pages \cup {"rows", "api"} \cup Mutations ELSE {})
    \cup (IF HasAuthenticator THEN Auth ELSE {})

\* Where the mux sends a request.  "GET /" takes every GET that nothing else
\* takes: the dashboard in UI mode, modeNotFound in server mode.
Handler(route) ==
  IF route \in Registered THEN route
  ELSE IF ~IsPost(route) /\ ServesUI THEN Home ELSE None

-----------------------------------------------------------------------------
(* The guards, in the order of the chain *)

\* An empty list restricts nothing, even a request without an account.
emailSet(list) == IF list = {} THEN Emails \cup {None} ELSE list \ {Blank}

\* Mutant of parse: a session goes on under any key.
parseUnsigned(cookie) == cookie # None /\ now < cookie.exp

\* parse: signed with this process's key, and not expired.
parse(cookie) == cookie # None /\ cookie.key = key /\ now < cookie.exp

\* Middleware's exempt paths: all that begin with /auth/, and the probes.
Exempt == Auth \cup {"underAuth"} \cup Probes

\* Middleware.
SessionAdmits(r) == r.route \in Exempt \/ parse(r.session)

BearerAuth(r) == r.route = "healthz" \/ r.bearer = conf.token

isCollectorAPI(route) == route = "v1"

\* splitFrontDoor: which routes the token guards in UI mode.
ByToken(route) == conf.token # None /\ (ServesUI => isCollectorAPI(route))

\* frontDoor in UI mode, BearerAuth in server mode, or no door at all.
Admitted(r) ==
  \/ ServesUI /\ ~conf.oidc
  \/ ByToken(r.route) /\ BearerAuth(r)
  \/ ~ByToken(r.route) /\ (ServesUI => SessionAdmits(r))

\* The account Middleware puts into the request's context.
Email(r) ==
  IF HasAuthenticator /\ ~ByToken(r.route) /\ r.route \notin Exempt
  THEN r.session.email ELSE None

\* Mutant of EnsuresCSRF: the cookie is set only where OIDC is on.
EnsuresWithOIDC(r) == HasAuthenticator /\ r.csrf = None

\* EnsureCSRFCookie: a request without the cookie gets one.  (Header and cookie
\* are read at the same moment, so one token need not be told from another.)
EnsuresCSRF(r) == ServesUI /\ r.csrf = None

\* CSRFProtect.
CSRFProtect(r) ==
  ServesUI /\ IsPost(r.route) => r.csrf # None /\ r.header = r.csrf

\* RequireOperator, around the mutating handlers when there is an authenticator.
CanOperate(r) == HasAuthenticator => Email(r) \in emailSet(conf.operators)

-----------------------------------------------------------------------------
(* Requests and responses *)

Idle == [kind |-> "idle"]

\* A request of a tab, with those cookies of jar j that are read on its route
\* (the state's path is /auth/callback).  Only htmx sends the header, and it
\* reads the cookie as it sends (htmx:configRequest in html.go).  `want' is the
\* target the login embeds in its state, `aim' where the tab really was going.
Request(j, route, hx, want, aim) ==
  [kind |-> "req", route |-> route, hx |-> hx, want |-> want, aim |-> aim,
   session |-> IF route \in Auth THEN None ELSE j.session,
   state |-> IF route = "callback" THEN j.state ELSE None,
   csrf |-> j.csrf, header |-> IF hx THEN j.csrf ELSE None, bearer |-> None]

\* A request of a script.
Call(route, token) ==
  [kind |-> "req", route |-> route, hx |-> FALSE, want |-> Home, aim |-> Home,
   session |-> None, state |-> None, csrf |-> None, header |-> None, bearer |-> token]

NoCookies == [n \in {} |-> None]
Cookie(name, value) == [n \in {name} |-> value]

\* redirectToLogin puts the address into the query of /auth/login as it is, and
\* HandleLogin reads it up to the first "&".
Target(at) == IF at \in Pages THEN Cut[at] ELSE at

\* Nothing a GET of a mutating route's path matches is more specific than "/".
Location(route) == IF IsPost(route) THEN "unmatched" ELSE route

\* The process answers r, from tab t, with the cookies `set', and the tab goes
\* where it is sent.  An error answered to htmx leaves the page as it is.
Deliver(t, r, status, set) ==
  LET j == [n \in DOMAIN jar |-> IF n \in DOMAIN set THEN set[n] ELSE jar[n]]
      at == Location(r.route)
  IN
  /\ jar' = j
  /\ wire' = [wire EXCEPT ![t] =
       CASE status = "login"    -> Request(j, "login", FALSE, Target(at), at)
         [] status = "provider" -> [kind |-> "provider", want |-> r.want, aim |-> r.aim]
         [] status = "welcome"  -> Request(j, r.want, FALSE, Home, r.aim)
         [] status = "bye"      -> Request(j, "loggedOut", FALSE, Home, Home)
         [] OTHER               -> Idle]
  /\ page' = [page EXCEPT ![t] =
       IF status \in Pages THEN status
       ELSE IF r.hx /\ status \notin {"login", "bye"} THEN @ ELSE "other"]

\* An answer that came through the chain.
Answer(t, r, status, set) ==
  Deliver(t, r, status,
          IF EnsuresCSRF(r)
          THEN [n \in DOMAIN set \cup {"csrf"} |-> IF n = "csrf" THEN "token" ELSE set[n]]
          ELSE set)

\* The chain lets r through to the handler h.
Reaches(r, h) == Admitted(r) /\ CSRFProtect(r) /\ Handler(r.route) = h

-----------------------------------------------------------------------------
(* Serving a request r of a tab t *)

\* redirectToLogin (302, or 401 with HX-Redirect), or unauthorized.
TurnAway(t, r) ==
  /\ ~Admitted(r)
  /\ Deliver(t, r, IF ByToken(r.route) THEN "unauthorized" ELSE "login", NoCookies)
  /\ UNCHANGED <<process, history, loginVars, triggerVars>>

\* What is only read: a page, a fragment, the collector API, a probe.
Reads == Pages \cup {"rows", "api", "v1", "loggedOut"} \cup Probes

\* CSRFProtect's 403, no route at all (404, 405), or a handler that only reads.
Serve(t, r) ==
  LET h == Handler(r.route) IN
  /\ Admitted(r)
  /\ CSRFProtect(r) => h \in Reads \cup {None}
  /\ Answer(t, r, IF ~CSRFProtect(r) THEN "csrf" ELSE IF h = None THEN "notFound" ELSE h,
            NoCookies)
  /\ UNCHANGED <<process, history, loginVars, triggerVars>>

\* Mutant of HandleLogin: the target of the redirect is not put into the state.
HandleLoginHome(t, r) ==
  /\ Reaches(r, "login")
  /\ loginLimiter!Admit(ownAddr)
  /\ Answer(t, [r EXCEPT !.want = Home], "provider",
            Cookie("state", [of |-> t, exp |-> now + stateTTL]))
  /\ UNCHANGED <<process, history, triggerVars>>

\* GET /auth/login behind loginLimiter.  The state is the tab's name: a later
\* login of the tab replaces its earlier one in the jar.  The target of the
\* redirect travels inside the state.
HandleLogin(t, r) ==
  /\ Reaches(r, "login")
  /\ \/ /\ loginLimiter!Admit(ownAddr)
        /\ Answer(t, r, "provider", Cookie("state", [of |-> t, exp |-> now + stateTTL]))
        /\ UNCHANGED excused
     \/ /\ loginLimiter!Refuse(ownAddr)
        /\ Answer(t, r, "limited", NoCookies)
        /\ excused' = TRUE
  /\ UNCHANGED <<process, vetted, triggerVars>>

\* The state that came back is the one in the cookie.
StateMatches(t, r) == r.state # None /\ r.state.of = t

\* Mutant of Cleared: the cookie is cleared before the states are compared.
ClearedFirst(t, r) == Cookie("state", None)

\* The cookies of an answer of HandleCallback that is not a success.
Cleared(t, r) == IF StateMatches(t, r) THEN Cookie("state", None) ELSE NoCookies

\* GET /auth/callback: the state must be the one in the cookie; then the cookie
\* is cleared, whatever becomes of the exchange, the token and the allow-list.
\* The exchange tells who has logged in.
HandleCallback(t, r) ==
  /\ Reaches(r, "callback")
  /\ \/ /\ ~StateMatches(t, r)
        /\ Answer(t, r, "mismatch", Cleared(t, r))
        /\ UNCHANGED history
     \/ /\ StateMatches(t, r)
        /\ \E e \in emailSet(conf.allowed) \cap Emails :
             /\ Answer(t, r, "welcome",
                       [session |-> [email |-> e, exp |-> now + sessionTTL, key |-> key],
                        state |-> None])
             /\ vetted' = [vetted EXCEPT ![key][e] = now + sessionTTL]
        /\ excused' = FALSE
     \/ /\ StateMatches(t, r)
        /\ \E status \in {"failed", "denied"} :
             /\ status = "denied" => ~(Emails \subseteq emailSet(conf.allowed))
             /\ Answer(t, r, status, Cleared(t, r))
        /\ excused' = TRUE
        /\ UNCHANGED vetted
  /\ UNCHANGED <<process, loginVars, triggerVars>>

\* POST /auth/logout: it clears the cookie and sends the tab to the page that
\* says so.
HandleLogout(t, r) ==
  /\ Reaches(r, "logout")
  /\ Answer(t, r, "bye", Cookie("session", None))
  /\ excused' = TRUE
  /\ UNCHANGED <<process, vetted, loginVars, triggerVars>>

\* POST .../suspend, .../resume and .../trigger: operators only, and triggers
\* behind triggerLimiter inside that.
Mutate(t, r) ==
  /\ \E h \in Mutations : Reaches(r, h)
  /\ \/ /\ ~CanOperate(r)
        /\ Answer(t, r, "forbidden", NoCookies)
        /\ UNCHANGED triggerVars
     \/ /\ CanOperate(r) /\ r.route = "suspend"
        /\ Answer(t, r, "done", NoCookies)
        /\ UNCHANGED triggerVars
     \/ /\ CanOperate(r) /\ r.route = "trigger"
        /\ \/ triggerLimiter!Admit(ownAddr) /\ Answer(t, r, "done", NoCookies)
           \/ triggerLimiter!Refuse(ownAddr) /\ Answer(t, r, "limited", NoCookies)
  /\ UNCHANGED <<process, history, loginVars>>

Handle(t, r) ==
  \/ TurnAway(t, r) \/ Serve(t, r) \/ HandleLogin(t, r)
  \/ HandleCallback(t, r) \/ HandleLogout(t, r) \/ Mutate(t, r)

\* The request tab t is waiting for.
HandleNavigation(t) == wire[t].kind = "req" /\ Handle(t, wire[t])

-----------------------------------------------------------------------------
(* The browser, the people and the provider *)

\* Someone opens a page, perhaps instead of finishing a login.
Browse(t, p) ==
  /\ wire[t].kind \in {"idle", "provider"} /\ p \in used[conf]
  /\ excused' = (excused \/ wire[t].kind = "provider")
  /\ wire' = [wire EXCEPT ![t] = Request(jar, p, FALSE, Home, p)]
  /\ page' = [page EXCEPT ![t] = "other"]
  /\ UNCHANGED <<process, jar, vetted, loginVars, triggerVars>>

Controls == {"rows", "logout"} \cup Mutations

\* htmx on a page: the rows every 10 s, the controls, the logout button.
Htmx(t, route) ==
  /\ page[t] \in Pages /\ wire[t].kind = "idle" /\ route \in used[conf]
  /\ route = "logout" => HasAuthenticator
  /\ Handle(t, Request(jar, route, TRUE, Home, Home))

\* Someone is confirmed by the provider and comes back with a code.
Authenticate(t) ==
  /\ wire[t].kind = "provider"
  /\ wire' = [wire EXCEPT ![t] = Request(jar, "callback", FALSE, @.want, @.aim)]
  /\ UNCHANGED <<process, browser, history, loginVars, triggerVars>>

\* The browser is closed: its tabs and the csrf cookie, which has no age, go.
Quit ==
  /\ wire' = [t \in Tabs |-> Idle]
  /\ page' = [t \in Tabs |-> "other"]
  /\ jar' = [jar EXCEPT !.csrf = None]
  /\ excused' = TRUE
  /\ UNCHANGED <<process, vetted, loginVars, triggerVars>>

\* The browser drops a cookie whose age is over.  It counts from the arrival,
\* so it keeps a session at least as long as the process accepts it.
Lapse ==
  /\ \/ /\ jar.session # None /\ jar.session.exp <= now
        /\ jar' = [jar EXCEPT !.session = None]
     \/ /\ jar.state # None /\ jar.state.exp <= now
        /\ jar' = [jar EXCEPT !.state = None]
  /\ excused' = TRUE
  /\ UNCHANGED <<process, page, wire, vetted, loginVars, triggerVars>>

Tick ==
  /\ now < MaxTime[conf]
  /\ now' = now + 1
  /\ loginLimiter!Age /\ triggerLimiter!Age
  /\ UNCHANGED <<conf, key, starts, browser, wire, history>>

\* NewAuthenticator: the key of the configuration, or a random one.
SessionKey(cfg, n) == IF cfg.sessionKey = None THEN n ELSE cfg.sessionKey
Keys == {SessionKey(cfg, n) : cfg \in Confs, n \in 0..MaxRestarts}

\* The process ends, with what it was serving, and is started with cfg.
Restart(cfg) ==
  /\ starts < MaxRestarts /\ cfg \in Followers[conf]
  /\ starts' = starts + 1
  /\ conf' = cfg
  /\ key' = SessionKey(cfg, starts')
  /\ wire' = [t \in Tabs |-> IF wire[t].kind = "req" THEN Idle ELSE wire[t]]
  /\ page' = [t \in Tabs |->
                IF wire[t].kind = "req" THEN "other" ELSE page[t]]
  /\ loginLimiter!Forget /\ triggerLimiter!Forget
  /\ excused' = TRUE
  /\ UNCHANGED <<now, jar, vetted>>

-----------------------------------------------------------------------------

Init ==
  /\ now = 0 /\ starts = 0
  /\ conf \in Confs /\ key = SessionKey(conf, 0)
  /\ jar = [session |-> None, state |-> None, csrf |-> None]
  /\ page = [t \in Tabs |-> "other"]
  /\ wire = [c \in Tabs |-> Idle]
  /\ vetted = [k \in Keys |-> [e \in Emails |-> 0]] /\ excused = FALSE
  /\ loginLimiter!LimiterInit /\ triggerLimiter!LimiterInit

Next ==
  \/ \E t \in Tabs :
       \/ HandleNavigation(t) \/ Authenticate(t)
       \/ \E p \in Pages : Browse(t, p)
       \/ \E route \in Controls : Htmx(t, route)
  \/ Quit \/ Lapse \/ Tick
  \/ \E cfg \in Confs : Restart(cfg)

Spec == Init /\ [][Next]_vars

\* Every request is served by a goroutine of its own, answers arrive, and who
\* is sent to the provider finishes there (or goes elsewhere).
Fairness == \A t \in Tabs : WF_vars(HandleNavigation(t) \/ Authenticate(t))

FairSpec == Spec /\ Fairness

-----------------------------------------------------------------------------
(* Properties *)

\* r comes from someone whom the provider confirmed and the allow-list then in
\* force admitted, less than sessionTTL ago, under the key now in use.
Vouched(r) == r.session # None /\ now < vetted[key][r.session.email]

\* The process is about to do what r asks.
Granted(r) ==
  \/ \E h \in Reads : Reaches(r, h)
  \/ \E h \in Mutations : Reaches(r, h) /\ CanOperate(r)

Earned(r) ==
  /\ HasAuthenticator =>
       \/ r.route \in Exempt
       \/ r.route = "v1" /\ conf.token # None /\ r.bearer = conf.token
       \/ Vouched(r)
  /\ r.route \in Mutations =>
       /\ ServesUI
       /\ HasAuthenticator => Vouched(r) /\ r.session.email \in emailSet(conf.operators)
  /\ ~ServesUI /\ conf.token # None => r.route = "healthz" \/ r.bearer = conf.token

\* With OIDC no path but those Middleware exempts (the probes and everything
\* under /auth/, whatever handler the mux has for it) is reached without a live
\* session or, for the collector API, the configured token; a CronJob is changed
\* only in UI mode, for a current operator, and never for a script; a collector
\* with a token answers nobody without it.
AccessIsEarned ==
  /\ \A t \in Tabs : wire[t].kind = "req" /\ Granted(wire[t]) => Earned(wire[t])
  /\ \A route \in Controls : LET r == Request(jar, route, TRUE, Home, Home) IN
       Granted(r) => Earned(r)
  /\ \A route \in Routes, token \in Tokens : LET r == Call(route, token) IN
       Granted(r) => Earned(r) /\ route \notin Mutations

\* The controls of a page on a screen are never refused for the CSRF token,
\* whichever page set the cookie, across restarts and changes of mode.
OwnPostsPass ==
  \A t \in Tabs, route \in Controls :
    page[t] \in Pages => CSRFProtect(Request(jar, route, TRUE, Home, Home))

\* A tab that comes back from a login asks for what it was on its way to, also
\* when two tabs log in at once - for as much of it as redirectToLogin passes on:
\* the address is cut at its first "&".
LandsWhereAsked ==
  \A t \in Tabs :
    wire[t].kind = "req" /\ wire[t].route \notin Auth
      => wire[t].route \in {wire[t].aim, Target(wire[t].aim)}

\* Tabs that log in at the same time overwrite each other's state cookie, but
\* never all in vain: one of them gets the browser a session, unless a login
\* failed for a reason of its own (the exchange, the allow-list, the limiter, a
\* state cookie too old, a restart, its user) or the session was ended.
SomeLoginCounts ==
  \A t \in Tabs : wire[t].kind = "provider" ~> (jar.session # None \/ excused)

\* Neither limiter lets more than twice its limit through in one window.
AtMostTwice == loginLimiter!WithinTwice /\ triggerLimiter!WithinTwice

\* Neither limiter refuses an address that has not used up its limit.
RefusedHadItsShare == loginLimiter!HadItsShare /\ triggerLimiter!HadItsShare

-----------------------------------------------------------------------------
(* The inductive invariant of FrontDoor_proofs *)

Session == [email : Emails, exp : Nat, key : Keys]
State   == [of : Tabs, exp : Nat]
Jar     == [session : {None} \cup Session, state : {None} \cup State,
            csrf : {None, "token"}]
Req     == [kind : {"req"}, route : Routes, hx : BOOLEAN, want : Routes, aim : Routes,
            session : {None} \cup Session, state : {None} \cup State,
            csrf : {None, "token"}, header : {None, "token"}, bearer : {None}]
Away    == [kind : {"provider"}, want : Routes, aim : Routes]

TypeOK ==
  /\ now \in Nat /\ conf \in Confs /\ key \in Keys /\ starts \in 0..MaxRestarts
  /\ jar \in Jar
  /\ page \in [Tabs -> Pages \cup {"other"}]
  /\ wire \in [Tabs -> {Idle} \cup Away \cup Req]
  /\ vetted \in [Keys -> [Emails -> Nat]]

\* The session c lasts no longer than a login counts that is vetted under its
\* key, according to v.
Sealed(v, c) == c # None => c.exp <= v[c.key][c.email]

\* What holds of a request r, however long it has been under way, while j is in
\* the jar.
Fit(v, j, r) ==
  /\ Sealed(v, r.session)
  /\ r.csrf # None => j.csrf # None
  /\ r.route \in {"login", "callback"} => r.want = Target(r.aim) /\ r.want \notin Auth

\* What a tab may have under way.
Sound(v, j, w) ==
  /\ w.kind = "req" =>
       Fit(v, j, w) /\ (w.route \notin Auth => w.route \in {w.aim, Target(w.aim)})
  /\ w.kind = "provider" => w.want = Target(w.aim) /\ w.want \notin Auth

SessionInv ==
  /\ \A k \in Keys, e \in Emails : vetted[k][e] <= now + sessionTTL
  /\ Sealed(vetted, jar.session)

WireInv == \A t \in Tabs : Sound(vetted, jar, wire[t])

PageInv == \A t \in Tabs : page[t] \in Pages => jar.csrf # None

DoorInv == TypeOK /\ SessionInv /\ WireInv /\ PageInv

\* Those of the requests G that were let through since the bucket b was opened.
Since(b, G) == {g \in G : b.reset <= g.at + window}

\* G are requests let through in the window up to t.
Noted(t, G) ==
  /\ IsFiniteSet(G) /\ G \subseteq [at : Nat, no : Nat]
  /\ \A g \in G : /\ g.at <= t /\ t <= g.at + window
                  /\ g.at = t => g.no <= Cardinality({h \in G : h.at = t})

\* At t, the bucket b of a limiter that lets lim through accounts for those of G,
\* and the window before it let no more through.
Accounts(lim, t, b, G) ==
  /\ b \in [count : Nat, reset : Nat]
  /\ b.count <= lim /\ b.reset <= t + window
  /\ \A g \in G : g.at <= b.reset
  /\ Cardinality(Since(b, G)) <= b.count
  /\ Cardinality(G \ Since(b, G)) <= lim
  /\ t <= b.reset => Cardinality(Since(b, G)) = b.count

InOrder(lim, t, b, G) ==
  Noted(t, G) /\ (IF b = None THEN G = {} ELSE Accounts(lim, t, b, G))

\* The bucket b refuses at t.
Spent(lim, t, b) == b # None /\ t <= b.reset /\ lim <= b.count

BooksInOrder(lim, t, buckets, recent, refused) ==
  /\ DOMAIN buckets = Addrs /\ DOMAIN recent = Addrs /\ refused \subseteq Addrs
  /\ \A ip \in Addrs : InOrder(lim, t, buckets[ip], recent[ip])
  /\ \A ip \in refused : Spent(lim, t, buckets[ip])

LimitersInv ==
  /\ now \in Nat
  /\ BooksInOrder(loginLimit, now, loginBuckets, loginRecent, loginRefused)
  /\ BooksInOrder(triggerLimit, now, triggerBuckets, triggerRecent, triggerRefused)
=============================================================================
