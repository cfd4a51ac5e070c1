--------------------------- MODULE FrontDoor_proofs ---------------------------
(* Theorems about FrontDoor: access is earned, the pages' controls carry their *)
(* token, and a login leads where its tab was going.                           *)
EXTENDS FrontDoor, FiniteSetTheorems, TLAPS

\* Nothing is the name of a page but pages, and no value is missing by name.
LEMMA PagesApart ==
  /\ Home \in Pages /\ Pages \cap Auth = {} /\ Pages \cap Mutations = {}
  /\ Pages \cap Probes = {} /\ Pages \cap {"rows", "api", "v1", "unmatched", "other"} = {}
  /\ None \notin Pages /\ None \notin Auth \cup Mutations \cup Probes
  /\ None \notin {"token", "rows", "api", "v1", "unmatched"}
  /\ None \notin Emails
BY DoorAssumption DEF Names, Auth, Mutations, Probes

\* The page a request is taken for stands outside the login.
LEMMA LocationApart ==
  ASSUME NEW route \in Routes, route \notin Auth
  PROVE  Location(route) \in Routes \ Auth
BY DEF Location, Routes, Auth

\* What is left of its address is a page again.
LEMMA TargetApart ==
  ASSUME NEW at \in Routes \ Auth
  PROVE  Target(at) \in Routes \ Auth
BY PagesApart, DoorAssumption DEF Target, Routes

\* A request made from a fit jar is fit.
LEMMA RequestFits ==
  ASSUME NEW j \in Jar, NEW route \in Routes, NEW hx \in BOOLEAN, NEW want \in Routes, NEW aim \in Routes
  PROVE  /\ Request(j, route, hx, want, aim) \in Req
         /\ Request(j, route, hx, want, aim).kind = "req"
         /\ Request(j, route, hx, want, aim).route = route
         /\ Request(j, route, hx, want, aim).want = want
         /\ Request(j, route, hx, want, aim).aim = aim
         /\ Request(j, route, hx, want, aim).csrf = j.csrf
         /\ Request(j, route, hx, want, aim).session \in {None, j.session}
BY DEF Request, Req, Jar

\* The cookies an answer may set.
Settable(set) ==
  /\ DOMAIN set \subseteq {"session", "state", "csrf"}
  /\ "session" \in DOMAIN set => set["session"] \in {None} \cup Session
  /\ "state" \in DOMAIN set => set["state"] \in {None} \cup State
  /\ "csrf" \in DOMAIN set => set["csrf"] = "token"

\* What an answer leaves in the jar.
LEMMA JarAfter ==
  ASSUME jar \in Jar, NEW t \in Tabs, NEW r, NEW status, NEW set, Settable(set),
         Deliver(t, r, status, set)
  PROVE  /\ jar' \in Jar
         /\ jar'.session = IF "session" \in DOMAIN set THEN set["session"] ELSE jar.session
         /\ jar'.csrf # None \/ jar.csrf = None
         /\ "csrf" \in DOMAIN set => jar'.csrf # None
<1>1. DOMAIN jar = {"session", "state", "csrf"}
  BY DEF Jar
<1>2. jar' = [n \in {"session", "state", "csrf"} |-> IF n \in DOMAIN set THEN set[n] ELSE jar[n]]
  BY <1>1 DEF Deliver
<1>3. /\ jar["session"] \in {None} \cup Session /\ jar["state"] \in {None} \cup State
      /\ jar["csrf"] \in {None, "token"}
  BY DEF Jar
<1>4. /\ jar'["session"] \in {None} \cup Session /\ jar'["state"] \in {None} \cup State
      /\ jar'["csrf"] \in {None, "token"}
  BY <1>2, <1>3 DEF Settable
<1>5. jar' = [session |-> jar'["session"], state |-> jar'["state"], csrf |-> jar'["csrf"]]
  BY <1>2
<1>6. jar' \in Jar
  BY <1>4, <1>5 DEF Jar
<1> QED BY <1>2, <1>3, <1>6, PagesApart DEF Settable

\* A login vetted longer vouches for no fewer sessions.
Extends ==
  /\ UNCHANGED <<now, conf, key, starts>>
  /\ vetted' \in [Keys -> [Emails -> Nat]]
  /\ \A k \in Keys, e \in Emails :
       vetted[k][e] <= vetted'[k][e] /\ vetted'[k][e] <= now + sessionTTL

\* A session stays sealed while logins are only added.
LEMMA StaysSealed ==
  ASSUME TypeOK, Extends, NEW c \in {None} \cup Session, Sealed(vetted, c)
  PROVE  Sealed(vetted', c)
<1> SUFFICES ASSUME c # None PROVE c.exp <= vetted'[c.key][c.email]
  BY DEF Sealed
<1>1. c.exp <= vetted[c.key][c.email] /\ c.key \in Keys /\ c.email \in Emails /\ c.exp \in Nat
  BY DEF Sealed, Session
<1>2. vetted[c.key][c.email] \in Nat /\ vetted'[c.key][c.email] \in Nat
  BY <1>1 DEF TypeOK, Extends
<1> QED BY <1>1, <1>2 DEF Extends

\* What an answer to a fit request must satisfy to leave the door in order.
Orderly(r, status, set) ==
  /\ Settable(set)
  /\ status \in Pages => jar.csrf # None \/ "csrf" \in DOMAIN set
  /\ status = "login" => r.route \notin Auth
  /\ status \in {"provider", "welcome"} => r.want = Target(r.aim) /\ r.want \notin Auth

\* The tab of a request taken from an orderly jar has something sound under way.
LEMMA NewRequest ==
  ASSUME NEW v, NEW j \in Jar, Sealed(v, j.session),
         NEW route \in Routes, NEW hx \in BOOLEAN, NEW want \in Routes, NEW aim \in Routes,
         IF route \in {"login", "callback"} THEN want = Target(aim) /\ want \notin Auth
                                            ELSE route \in Auth \/ route \in {aim, Target(aim)}
  PROVE  /\ Request(j, route, hx, want, aim) \in Req
         /\ Sound(v, j, Request(j, route, hx, want, aim))
<1> DEFINE q == Request(j, route, hx, want, aim)
<1>1. /\ q \in Req /\ q.kind = "req" /\ q.route = route /\ q.want = want /\ q.aim = aim
      /\ q.csrf = j.csrf /\ q.session \in {None, j.session}
  BY RequestFits
<1>2. Sealed(v, q.session)
  BY <1>1 DEF Sealed
<1> HIDE DEF q
<1>3. Fit(v, j, q) /\ (q.route \notin Auth => q.route \in {q.aim, Target(q.aim)})
  BY <1>1, <1>2 DEF Fit, Auth
<1>4. Sound(v, j, q)
  BY <1>1, <1>3 DEF Sound
<1> QED BY <1>1, <1>4 DEF q

\* An answer leaves the door in order.
LEMMA Delivery ==
  ASSUME DoorInv, Extends, NEW t \in Tabs, NEW r \in Req, NEW status, NEW set,
         Orderly(r, status, set), Deliver(t, r, status, set),
         "session" \in DOMAIN set => Sealed(vetted', set["session"])
  PROVE  DoorInv'
<1>1. TypeOK /\ SessionInv /\ WireInv /\ PageInv /\ jar \in Jar
  BY DEF DoorInv, TypeOK
<1>2. /\ jar' \in Jar
      /\ jar'.session = IF "session" \in DOMAIN set THEN set["session"] ELSE jar.session
      /\ jar.csrf # None => jar'.csrf # None
      /\ "csrf" \in DOMAIN set => jar'.csrf # None
  BY <1>1, JarAfter DEF Orderly
<1>3. Sealed(vetted', jar'.session)
  <2>1. CASE "session" \in DOMAIN set
    BY <1>2, <2>1
  <2>2. CASE "session" \notin DOMAIN set
    <3>1. jar.session \in {None} \cup Session /\ Sealed(vetted, jar.session)
      BY <1>1 DEF Jar, SessionInv
    <3>2. Sealed(vetted', jar.session)
      BY <1>1, <3>1, StaysSealed
    <3> QED BY <1>2, <2>2, <3>2
  <2> QED BY <2>1, <2>2
<1>4. SessionInv'
  BY <1>3 DEF SessionInv, Extends
<1>5. /\ wire \in [Tabs -> {Idle} \cup Away \cup Req]
      /\ page \in [Tabs -> Pages \cup {"other"}]
  BY <1>1 DEF TypeOK
<1>6. \A w \in {Idle} \cup Away \cup Req : Sound(vetted, jar, w) => Sound(vetted', jar', w)
  <2> SUFFICES ASSUME NEW w \in {Idle} \cup Away \cup Req, Sound(vetted, jar, w)
               PROVE  Sound(vetted', jar', w)
    OBVIOUS
  <2>1. CASE w.kind = "req"
    <3>1. w \in Req
      BY <2>1 DEF Idle, Away
    <3>2. w.session \in {None} \cup Session
      BY <3>1 DEF Req
    <3>3. Fit(vetted, jar, w) /\ (w.route \notin Auth => w.route \in {w.aim, Target(w.aim)})
      BY <2>1 DEF Sound
    <3>4. Sealed(vetted', w.session)
      BY <1>1, <3>2, <3>3, StaysSealed DEF Fit
    <3>5. Fit(vetted', jar', w)
      BY <1>2, <3>3, <3>4 DEF Fit
    <3> QED BY <2>1, <3>3, <3>5 DEF Sound
  <2>2. CASE w.kind # "req"
    BY <2>2 DEF Sound
  <2> QED BY <2>1, <2>2
<1>7. wire'[t] \in {Idle} \cup Away \cup Req /\ Sound(vetted', jar', wire'[t])
  <2> DEFINE at == Location(r.route)
  <2>1. r.route \in Routes /\ r.want \in Routes /\ r.aim \in Routes
    BY DEF Req
  <2>2. Home \in Routes /\ "login" \in Routes /\ "loggedOut" \in Routes
    BY PagesApart DEF Routes, Auth
  <2>3. wire'[t] =
          CASE status = "login"    -> Request(jar', "login", FALSE, Target(at), at)
            [] status = "provider" -> [kind |-> "provider", want |-> r.want, aim |-> r.aim]
            [] status = "welcome"  -> Request(jar', r.want, FALSE, Home, r.aim)
            [] status = "bye"      -> Request(jar', "loggedOut", FALSE, Home, Home)
            [] OTHER               -> Idle
    BY <1>5 DEF Deliver
  <2>4. CASE status = "login"
    <3>1. at \in Routes \ Auth
      BY <2>1, <2>4, LocationApart DEF Orderly
    <3>3. Target(at) \in Routes \ Auth
      BY <3>1, TargetApart
    <3>2. wire'[t] = Request(jar', "login", FALSE, Target(at), at)
      BY <2>3, <2>4
    <3> DEFINE want == Target(at)
    <3>4. want \in Routes /\ want = Target(at) /\ want \notin Auth
      BY <3>3
    <3>5. wire'[t] = Request(jar', "login", FALSE, want, at)
      BY <3>2
    <3> HIDE DEF want, at
    <3>6. FALSE \in BOOLEAN /\ "login" \in {"login", "callback"}
      OBVIOUS
    <3>7. /\ Request(jar', "login", FALSE, want, at) \in Req
          /\ Sound(vetted', jar', Request(jar', "login", FALSE, want, at))
      BY <1>2, <1>3, <2>2, <3>1, <3>4, <3>6, NewRequest, ZenonT(60)
    <3> QED BY <3>5, <3>7
  <2>5. CASE status = "provider"
    <3>1. wire'[t] = [kind |-> "provider", want |-> r.want, aim |-> r.aim]
      BY <2>3, <2>5
    <3> QED BY <2>1, <2>5, <3>1 DEF Away, Orderly, Sound
  <2>6. CASE status = "welcome"
    <3>1. wire'[t] = Request(jar', r.want, FALSE, Home, r.aim)
      BY <2>3, <2>6
    <3>2. r.want = Target(r.aim) /\ r.want \notin Auth
      BY <2>6 DEF Orderly
    <3>3. r.want \notin {"login", "callback"}
      BY <3>2 DEF Auth
    <3> QED BY <1>2, <1>3, <2>1, <2>2, <3>1, <3>2, <3>3, NewRequest
  <2>7. CASE status = "bye"
    <3>1. wire'[t] = Request(jar', "loggedOut", FALSE, Home, Home)
      BY <2>3, <2>7
    <3>2. "loggedOut" \in Auth
      BY DEF Auth
    <3> QED BY <1>2, <1>3, <2>2, <3>1, <3>2, NewRequest
  <2>8. CASE status \notin {"login", "provider", "welcome", "bye"}
    <3>1. wire'[t] = Idle
      BY <2>3, <2>8
    <3> QED BY <3>1 DEF Idle, Sound
  <2> QED BY <2>4, <2>5, <2>6, <2>7, <2>8
<1>8. \A u \in Tabs \ {t} : wire'[u] = wire[u] /\ page'[u] = page[u]
  BY <1>5 DEF Deliver
<1>9. PICK w, q : wire' = [wire EXCEPT ![t] = w] /\ page' = [page EXCEPT ![t] = q]
  BY Zenon DEF Deliver
<1>10. page'[t] \in Pages \cup {"other"} /\ (page'[t] \in Pages => jar'.csrf # None)
  <2>1. page'[t] = IF status \in Pages THEN status
                   ELSE IF r.hx /\ status \notin {"login", "bye"} THEN page[t] ELSE "other"
    BY <1>5 DEF Deliver
  <2>2. page[t] \in Pages \cup {"other"} /\ (page[t] \in Pages => jar'.csrf # None)
    BY <1>1, <1>2, <1>5 DEF PageInv
  <2>3. CASE status \in Pages
    <3>1. page'[t] = status \/ page'[t] = page[t]
      BY <2>1, <2>3
    <3> QED BY <1>2, <2>2, <2>3, <3>1 DEF Orderly
  <2>4. CASE status \notin Pages
    <3>1. page'[t] \in {page[t], "other"}
      BY <2>1, <2>4
    <3> QED BY <2>2, <3>1, PagesApart
  <2> QED BY <2>3, <2>4
<1>11. WireInv'
  BY <1>1, <1>5, <1>6, <1>7, <1>8 DEF WireInv
<1>12. PageInv'
  BY <1>1, <1>2, <1>8, <1>10 DEF PageInv
<1>13. wire' \in [Tabs -> {Idle} \cup Away \cup Req] /\ page' \in [Tabs -> Pages \cup {"other"}]
  BY <1>5, <1>7, <1>9, <1>10
<1>14. TypeOK'
  BY <1>1, <1>2, <1>13 DEF TypeOK, Extends
<1> QED BY <1>4, <1>11, <1>12, <1>14 DEF DoorInv

-----------------------------------------------------------------------------
(* Answers that come through the chain                                     *)

\* The chain adds the csrf cookie wherever a page needs it.
LEMMA AnswerKeeps ==
  ASSUME DoorInv, Extends, NEW t \in Tabs, NEW r \in Req, Fit(vetted, jar, r),
         NEW status, NEW set, Answer(t, r, status, set),
         Settable(set), "csrf" \notin DOMAIN set,
         "session" \in DOMAIN set => Sealed(vetted', set["session"]),
         status \in Pages => ServesUI,
         status # "login",
         status \in {"provider", "welcome"} => r.want = Target(r.aim) /\ r.want \notin Auth
  PROVE  DoorInv'
<1> DEFINE more == [n \in DOMAIN set \cup {"csrf"} |-> IF n = "csrf" THEN "token" ELSE set[n]]
<1>1. CASE EnsuresCSRF(r)
  <2>1. Deliver(t, r, status, more)
    BY <1>1 DEF Answer
  <2>2. /\ DOMAIN more = DOMAIN set \cup {"csrf"} /\ more["csrf"] = "token"
        /\ \A n \in DOMAIN set : more[n] = set[n]
    OBVIOUS
  <2> HIDE DEF more
  <2>3. Settable(more) /\ ("session" \in DOMAIN more => Sealed(vetted', more["session"]))
    BY <2>2 DEF Settable
  <2>4. Orderly(r, status, more)
    BY <2>2, <2>3 DEF Orderly
  <2> QED BY <2>1, <2>3, <2>4, Delivery
<1>2. CASE ~EnsuresCSRF(r)
  <2>1. Deliver(t, r, status, set)
    BY <1>2 DEF Answer
  <2>2. status \in Pages => jar.csrf # None
    BY <1>2 DEF EnsuresCSRF, Fit
  <2>3. Orderly(r, status, set)
    BY <2>2 DEF Orderly
  <2> QED BY <2>1, <2>3, Delivery
<1> QED BY <1>1, <1>2

\* What vetted and the process keep when an answer changes neither.
LEMMA NothingVetted ==
  ASSUME DoorInv, UNCHANGED <<process, vetted>>
  PROVE  Extends
BY DEF DoorInv, TypeOK, SessionInv, Extends, process

LEMMA OneCookie ==
  ASSUME NEW name, NEW value
  PROVE  DOMAIN Cookie(name, value) = {name} /\ Cookie(name, value)[name] = value
BY DEF Cookie

LEMMA NoCookie ==
  Settable(NoCookies) /\ DOMAIN NoCookies = {}
BY DEF NoCookies, Settable

\* Each handler is reached on its own route only.
LEMMA OwnRoute ==
  ASSUME NEW r, NEW h \in {"login", "callback", "logout"} \cup Mutations, Reaches(r, h)
  PROVE  r.route = h
<1>1. h # None /\ h # Home
  BY PagesApart DEF Auth, Mutations
<1> QED BY <1>1 DEF Reaches, Handler

\* A page is served in UI mode only.
LEMMA PagesNeedUI ==
  ASSUME NEW route, Handler(route) \in Pages
  PROVE  ServesUI
BY PagesApart DEF Handler, Registered, HasAuthenticator, Probes

-----------------------------------------------------------------------------
(* The handlers *)

LEMMA TurnAwayKeeps ==
  ASSUME DoorInv, NEW t \in Tabs, NEW r \in Req, Fit(vetted, jar, r), TurnAway(t, r)
  PROVE  DoorInv'
<1> DEFINE status == IF ByToken(r.route) THEN "unauthorized" ELSE "login"
<1>1. Deliver(t, r, status, NoCookies) /\ Extends
  BY NothingVetted DEF TurnAway, history
<1>2. status \notin Pages
  BY DoorAssumption DEF Names
<1>3. status = "login" => r.route \notin Auth
  BY DEF TurnAway, Admitted, SessionAdmits, Exempt
<1>4. Orderly(r, status, NoCookies)
  BY <1>2, <1>3, NoCookie DEF Orderly
<1> QED BY <1>1, <1>4, NoCookie, Delivery

LEMMA ServeKeeps ==
  ASSUME DoorInv, NEW t \in Tabs, NEW r \in Req, Fit(vetted, jar, r), Serve(t, r)
  PROVE  DoorInv'
<1> DEFINE h == Handler(r.route)
           status == IF ~CSRFProtect(r) THEN "csrf" ELSE IF h = None THEN "notFound" ELSE h
<1>1. Answer(t, r, status, NoCookies) /\ Extends /\ (CSRFProtect(r) => h \in Reads \cup {None})
  BY NothingVetted DEF Serve, history
<1>2. status \in Pages => status = h
  BY DoorAssumption DEF Names
<1>3. status \in Pages => ServesUI
  BY <1>2, PagesNeedUI
<1>4. status \notin {"login", "provider", "welcome"}
  <2>1. {"login", "provider", "welcome"} \cap Reads = {}
    BY DoorAssumption DEF Names, Reads, Probes
  <2> QED BY <1>1, <2>1
<1> QED BY <1>1, <1>3, <1>4, NoCookie, AnswerKeeps

LEMMA HandleLoginKeeps ==
  ASSUME DoorInv, NEW t \in Tabs, NEW r \in Req, Fit(vetted, jar, r), HandleLogin(t, r)
  PROVE  DoorInv'
<1>1. Extends
  BY NothingVetted DEF HandleLogin
<1>2. r.route = "login"
  BY OwnRoute DEF HandleLogin
<1>3. {"provider", "limited"} \cap Pages = {}
  BY DoorAssumption DEF Names
<1>4. ASSUME Answer(t, r, "provider", Cookie("state", [of |-> t, exp |-> now + stateTTL]))
      PROVE  DoorInv'
  <2> DEFINE set == Cookie("state", [of |-> t, exp |-> now + stateTTL])
  <2>1. DOMAIN set = {"state"} /\ set["state"] = [of |-> t, exp |-> now + stateTTL]
    BY OneCookie
  <2>2. set["state"] \in State
    BY <2>1, DoorAssumption DEF State, DoorInv, TypeOK
  <2> HIDE DEF set
  <2>3. Settable(set)
    BY <2>1, <2>2 DEF Settable
  <2>4. r.want = Target(r.aim) /\ r.want \notin Auth
    BY <1>2 DEF Fit
  <2>5. Answer(t, r, "provider", set)
    BY <1>4 DEF set
  <2> QED BY <1>1, <1>3, <2>1, <2>3, <2>4, <2>5, AnswerKeeps
<1>5. ASSUME Answer(t, r, "limited", NoCookies)
      PROVE  DoorInv'
  BY <1>1, <1>3, <1>5, NoCookie, AnswerKeeps
<1> QED BY <1>4, <1>5 DEF HandleLogin

\* A cookie that only ends something.
LEMMA Ending ==
  ASSUME NEW name \in {"session", "state"}
  PROVE  /\ Settable(Cookie(name, None)) /\ "csrf" \notin DOMAIN Cookie(name, None)
         /\ "session" \in DOMAIN Cookie(name, None)
              => Sealed(vetted', Cookie(name, None)["session"])
<1> DEFINE set == Cookie(name, None)
<1>1. DOMAIN set = {name} /\ set[name] = None
  BY OneCookie
<1> HIDE DEF set
<1>2. /\ Settable(set) /\ "csrf" \notin DOMAIN set
      /\ "session" \in DOMAIN set => Sealed(vetted', set["session"])
  BY <1>1 DEF Settable, Sealed
<1> QED BY <1>2 DEF set

LEMMA HandleCallbackKeeps ==
  ASSUME DoorInv, NEW t \in Tabs, NEW r \in Req, Fit(vetted, jar, r), HandleCallback(t, r)
  PROVE  DoorInv'
<1>1. r.route = "callback"
  BY OwnRoute DEF HandleCallback
<1>2. r.want = Target(r.aim) /\ r.want \notin Auth
  BY <1>1 DEF Fit
<1>3. {"mismatch", "welcome", "failed", "denied"} \cap Pages = {}
  BY DoorAssumption DEF Names
<1>4. UNCHANGED process
  BY DEF HandleCallback
<1>5. ASSUME NEW status \in {"mismatch", "failed", "denied"}, UNCHANGED vetted,
             Answer(t, r, status, Cleared(t, r))
      PROVE  DoorInv'
  <2>1. Extends
    BY <1>4, <1>5, NothingVetted
  <2>2. CASE StateMatches(t, r)
    <3>1. Answer(t, r, status, Cookie("state", None))
      BY <1>5, <2>2 DEF Cleared
    <3> QED BY <1>3, <2>1, <3>1, Ending, AnswerKeeps
  <2>3. CASE ~StateMatches(t, r)
    <3>1. Answer(t, r, status, NoCookies)
      BY <1>5, <2>3 DEF Cleared
    <3> QED BY <1>3, <2>1, <3>1, NoCookie, AnswerKeeps
  <2> QED BY <2>2, <2>3
<1>6. ASSUME NEW e \in Emails,
             vetted' = [vetted EXCEPT ![key][e] = now + sessionTTL],
             Answer(t, r, "welcome",
                    [session |-> [email |-> e, exp |-> now + sessionTTL, key |-> key],
                     state |-> None])
      PROVE  DoorInv'
  <2> DEFINE c == [email |-> e, exp |-> now + sessionTTL, key |-> key]
             set == [session |-> c, state |-> None]
  <2>1. now \in Nat /\ key \in Keys /\ sessionTTL \in Nat /\ vetted \in [Keys -> [Emails -> Nat]]
    BY DoorAssumption DEF DoorInv, TypeOK
  <2>2. \A k \in Keys, d \in Emails : vetted[k][d] <= now + sessionTTL
    BY DEF DoorInv, SessionInv
  <2>3. /\ vetted' \in [Keys -> [Emails -> Nat]]
        /\ \A k \in Keys, d \in Emails :
             vetted'[k][d] = IF k = key /\ d = e THEN now + sessionTTL ELSE vetted[k][d]
    BY <1>6, <2>1
  <2>4. Extends
    <3>1. \A k \in Keys, d \in Emails :
            vetted[k][d] \in Nat /\ vetted[k][d] <= vetted'[k][d] /\ vetted'[k][d] <= now + sessionTTL
      BY <2>1, <2>2, <2>3
    <3> QED BY <1>4, <2>3, <3>1 DEF Extends, process
  <2>5. c \in Session /\ c.exp = vetted'[c.key][c.email] /\ c.exp \in Nat
    BY <2>1, <2>3 DEF Session
  <2>6. Sealed(vetted', c)
    BY <2>5 DEF Sealed
  <2>7. /\ DOMAIN set = {"session", "state"}
        /\ set["session"] = c /\ set["state"] = None
    OBVIOUS
  <2>8. Answer(t, r, "welcome", set)
    BY <1>6
  <2> HIDE DEF set, c
  <2>9. Settable(set)
    BY <2>5, <2>7 DEF Settable
  <2> QED BY <1>2, <1>3, <2>4, <2>6, <2>7, <2>8, <2>9, AnswerKeeps
<1> QED BY <1>5, <1>6 DEF HandleCallback, history

LEMMA HandleLogoutKeeps ==
  ASSUME DoorInv, NEW t \in Tabs, NEW r \in Req, Fit(vetted, jar, r), HandleLogout(t, r)
  PROVE  DoorInv'
<1>1. Extends /\ Answer(t, r, "bye", Cookie("session", None))
  BY NothingVetted DEF HandleLogout
<1>2. "bye" \notin Pages
  BY DoorAssumption DEF Names
<1> QED BY <1>1, <1>2, Ending, AnswerKeeps

LEMMA MutateKeeps ==
  ASSUME DoorInv, NEW t \in Tabs, NEW r \in Req, Fit(vetted, jar, r), Mutate(t, r)
  PROVE  DoorInv'
<1>1. Extends
  BY NothingVetted DEF Mutate, history
<1>2. PICK status \in {"forbidden", "done", "limited"} : Answer(t, r, status, NoCookies)
  BY DEF Mutate
<1>3. {"forbidden", "done", "limited"} \cap Pages = {}
  BY DoorAssumption DEF Names
<1> QED BY <1>1, <1>2, <1>3, NoCookie, AnswerKeeps

\* Serving a fit request keeps the door in order.
LEMMA HandleKeeps ==
  ASSUME DoorInv, NEW t \in Tabs, NEW r \in Req, Fit(vetted, jar, r), Handle(t, r)
  PROVE  DoorInv'
BY TurnAwayKeeps, ServeKeeps, HandleLoginKeeps, HandleCallbackKeeps, HandleLogoutKeeps,
   MutateKeeps DEF Handle

-----------------------------------------------------------------------------
(* The other actions, and the invariant *)

LEMMA HomeIsRoute == Home \in Routes /\ Home \notin Auth
BY PagesApart DEF Routes

LEMMA HandleNavigationKeeps ==
  ASSUME DoorInv, NEW t \in Tabs, HandleNavigation(t)
  PROVE  DoorInv'
<1>1. wire[t].kind = "req" /\ Handle(t, wire[t])
  BY DEF HandleNavigation
<1>2. wire[t] \in Req
  BY <1>1 DEF DoorInv, TypeOK, Idle, Away
<1>3. Fit(vetted, jar, wire[t])
  BY <1>1 DEF DoorInv, WireInv, Sound
<1> QED BY <1>1, <1>2, <1>3, HandleKeeps

\* A request htmx makes from a page, wherever it leads.
LEMMA FromAPage ==
  ASSUME DoorInv, NEW route \in Controls
  PROVE  /\ Request(jar, route, TRUE, Home, Home) \in Req
         /\ Fit(vetted, jar, Request(jar, route, TRUE, Home, Home))
<1> DEFINE r == Request(jar, route, TRUE, Home, Home)
<1>1. route \in Routes /\ route \notin {"login", "callback"}
  BY DEF Controls, Routes, Mutations, Auth
<1>2. jar \in Jar /\ Sealed(vetted, jar.session)
  BY DEF DoorInv, TypeOK, SessionInv
<1>3. /\ r \in Req /\ r.route = route /\ r.csrf = jar.csrf
      /\ r.session \in {None, jar.session}
  BY <1>1, <1>2, HomeIsRoute DEF Request, Req, Jar
<1> HIDE DEF r
<1>4. Fit(vetted, jar, r)
  BY <1>1, <1>2, <1>3 DEF Fit, Sealed
<1> QED BY <1>3, <1>4 DEF r

LEMMA HtmxKeeps ==
  ASSUME DoorInv, NEW t \in Tabs, NEW route \in Controls, Htmx(t, route)
  PROVE  DoorInv'
BY FromAPage, HandleKeeps DEF Htmx

LEMMA BrowseKeeps ==
  ASSUME DoorInv, NEW t \in Tabs, NEW p \in Pages, Browse(t, p)
  PROVE  DoorInv'
<1>1. TypeOK /\ SessionInv /\ WireInv /\ PageInv
  BY DEF DoorInv
<1>2. /\ UNCHANGED <<now, conf, key, starts, jar, vetted>>
      /\ wire' = [wire EXCEPT ![t] = Request(jar, p, FALSE, Home, p)]
      /\ page' = [page EXCEPT ![t] = "other"]
  BY DEF Browse, process
<1>3. p \in Routes /\ p \notin Auth
  BY PagesApart DEF Routes
<1>4. /\ Request(jar, p, FALSE, Home, p) \in Req
      /\ Sound(vetted, jar, Request(jar, p, FALSE, Home, p))
  BY <1>1, <1>3, HomeIsRoute, NewRequest DEF TypeOK, SessionInv, Auth
<1>5. TypeOK'
  BY <1>1, <1>2, <1>4 DEF TypeOK
<1>6. WireInv'
  BY <1>1, <1>2, <1>4 DEF WireInv, TypeOK
<1>7. PageInv'
  BY <1>1, <1>2, PagesApart DEF PageInv, TypeOK
<1>8. SessionInv'
  BY <1>1, <1>2 DEF SessionInv
<1> QED BY <1>5, <1>6, <1>7, <1>8 DEF DoorInv

LEMMA AuthenticateKeeps ==
  ASSUME DoorInv, NEW t \in Tabs, Authenticate(t)
  PROVE  DoorInv'
<1> DEFINE w == wire[t]
<1>1. TypeOK /\ SessionInv /\ WireInv /\ PageInv
  BY DEF DoorInv
<1>2. /\ UNCHANGED <<now, conf, key, starts, jar, page, vetted>>
      /\ wire' = [wire EXCEPT ![t] = Request(jar, "callback", FALSE, w.want, w.aim)]
      /\ w.kind = "provider"
  BY DEF Authenticate, process, browser, history
<1>3. w \in Away /\ w.want = Target(w.aim) /\ w.want \notin Auth
  BY <1>1, <1>2 DEF TypeOK, Idle, Req, WireInv, Sound
<1>4. w.want \in Routes /\ w.aim \in Routes /\ "callback" \in Routes
  BY <1>3 DEF Away, Routes, Auth
<1>5. /\ Request(jar, "callback", FALSE, w.want, w.aim) \in Req
      /\ Sound(vetted, jar, Request(jar, "callback", FALSE, w.want, w.aim))
  BY <1>1, <1>3, <1>4, NewRequest DEF TypeOK, SessionInv
<1>6. TypeOK'
  BY <1>1, <1>2, <1>5 DEF TypeOK
<1>7. WireInv'
  BY <1>1, <1>2, <1>5 DEF WireInv, TypeOK
<1> QED BY <1>1, <1>2, <1>6, <1>7 DEF DoorInv, SessionInv, PageInv

LEMMA QuitKeeps ==
  ASSUME DoorInv, Quit
  PROVE  DoorInv'
<1>1. TypeOK /\ SessionInv
  BY DEF DoorInv
<1>2. /\ UNCHANGED <<now, conf, key, starts, vetted>>
      /\ wire' = [t \in Tabs |-> Idle] /\ page' = [t \in Tabs |-> "other"]
      /\ jar' = [jar EXCEPT !.csrf = None]
  BY DEF Quit, process
<1>3. jar' \in Jar /\ jar'.session = jar.session
  BY <1>1, <1>2 DEF TypeOK, Jar
<1>4. TypeOK'
  BY <1>1, <1>2, <1>3 DEF TypeOK
<1>5. SessionInv'
  BY <1>1, <1>2, <1>3 DEF SessionInv
<1>6. WireInv'
  BY <1>2 DEF WireInv, Sound, Idle
<1>7. PageInv'
  BY <1>2, PagesApart DEF PageInv
<1> QED BY <1>4, <1>5, <1>6, <1>7 DEF DoorInv

LEMMA LapseKeeps ==
  ASSUME DoorInv, Lapse
  PROVE  DoorInv'
<1>1. TypeOK /\ SessionInv /\ WireInv /\ PageInv
  BY DEF DoorInv
<1>2. UNCHANGED <<now, conf, key, starts, page, wire, vetted>>
  BY DEF Lapse, process
<1>3. jar' \in Jar /\ jar'.session \in {None, jar.session} /\ jar'.csrf = jar.csrf
  BY <1>1 DEF Lapse, TypeOK, Jar
<1>4. TypeOK'
  BY <1>1, <1>2, <1>3 DEF TypeOK
<1>5. SessionInv'
  BY <1>1, <1>2, <1>3 DEF SessionInv, Sealed
<1>6. WireInv'
  BY <1>1, <1>2, <1>3 DEF WireInv, Sound, Fit
<1>7. PageInv'
  BY <1>1, <1>2, <1>3 DEF PageInv
<1> QED BY <1>4, <1>5, <1>6, <1>7 DEF DoorInv

LEMMA TickKeeps ==
  ASSUME DoorInv, Tick
  PROVE  DoorInv'
<1>1. TypeOK /\ SessionInv /\ WireInv /\ PageInv
  BY DEF DoorInv
<1>2. UNCHANGED <<conf, key, starts, jar, page, wire, vetted>> /\ now' = now + 1
  BY DEF Tick, browser, history
<1>3. TypeOK'
  BY <1>1, <1>2 DEF TypeOK
<1>4. SessionInv'
  <2>1. \A k \in Keys, e \in Emails : vetted[k][e] \in Nat /\ vetted[k][e] <= now + sessionTTL
    BY <1>1 DEF TypeOK, SessionInv
  <2>2. now \in Nat /\ sessionTTL \in Nat
    BY <1>1, DoorAssumption DEF TypeOK
  <2>3. \A k \in Keys, e \in Emails : vetted[k][e] <= now + 1 + sessionTTL
    BY <2>1, <2>2
  <2> QED BY <1>1, <1>2, <2>3 DEF SessionInv
<1> QED BY <1>1, <1>2, <1>3, <1>4 DEF DoorInv, WireInv, PageInv

LEMMA RestartKeeps ==
  ASSUME DoorInv, NEW cfg \in Confs, Restart(cfg)
  PROVE  DoorInv'
<1>1. TypeOK /\ SessionInv /\ WireInv /\ PageInv
  BY DEF DoorInv
<1>2. /\ UNCHANGED <<now, jar, vetted>> /\ conf' = cfg
      /\ starts < MaxRestarts /\ starts' = starts + 1 /\ key' = SessionKey(cfg, starts')
      /\ wire' = [t \in Tabs |-> IF wire[t].kind = "req" THEN Idle ELSE wire[t]]
      /\ page' = [t \in Tabs |-> IF wire[t].kind = "req" THEN "other" ELSE page[t]]
  BY DEF Restart
<1>3. starts' \in 0..MaxRestarts
  BY <1>1, <1>2, DoorAssumption DEF TypeOK
<1>4. key' \in Keys
  BY <1>2, <1>3 DEF Keys
<1>5. wire' \in [Tabs -> {Idle} \cup Away \cup Req] /\ page' \in [Tabs -> Pages \cup {"other"}]
  BY <1>1, <1>2 DEF TypeOK
<1>6. TypeOK'
  BY <1>1, <1>2, <1>3, <1>4, <1>5 DEF TypeOK
<1>7. WireInv'
  BY <1>1, <1>2 DEF WireInv, Sound, Idle
<1>8. PageInv'
  BY <1>1, <1>2, PagesApart DEF PageInv
<1> QED BY <1>1, <1>2, <1>6, <1>7, <1>8 DEF DoorInv, SessionInv

\* The inductive invariant: every cookie and every request under way is sealed
\* by a login that was vetted, no request has a csrf cookie the browser has lost,
\* every page on a screen has left one, and a login knows where its tab goes.
THEOREM DoorStaysInOrder == Spec => []DoorInv
<1>1. Init => DoorInv
  <2> SUFFICES ASSUME Init PROVE DoorInv
    OBVIOUS
  <2>1. key \in Keys /\ starts \in 0..MaxRestarts
    BY DoorAssumption DEF Init, Keys
  <2>2. jar \in Jar /\ jar.session = None
    BY DEF Init, Jar
  <2>3. TypeOK
    BY <2>1, <2>2 DEF Init, TypeOK
  <2>4. SessionInv
    BY <2>2, DoorAssumption DEF Init, SessionInv, Sealed
  <2>5. WireInv
    BY DEF Init, WireInv, Sound, Idle
  <2>6. PageInv
    BY PagesApart DEF Init, PageInv
  <2> QED BY <2>3, <2>4, <2>5, <2>6 DEF DoorInv
<1>2. DoorInv /\ [Next]_vars => DoorInv'
  <2> SUFFICES ASSUME DoorInv, [Next]_vars PROVE DoorInv'
    OBVIOUS
  <2>1. ASSUME NEW t \in Tabs, HandleNavigation(t) PROVE DoorInv'
    BY <2>1, HandleNavigationKeeps
  <2>2. ASSUME NEW t \in Tabs, Authenticate(t) PROVE DoorInv'
    BY <2>2, AuthenticateKeeps
  <2>3. ASSUME NEW t \in Tabs, NEW p \in Pages, Browse(t, p) PROVE DoorInv'
    BY <2>3, BrowseKeeps
  <2>4. ASSUME NEW t \in Tabs, NEW route \in Controls, Htmx(t, route) PROVE DoorInv'
    BY <2>4, HtmxKeeps
  <2>5. CASE Quit
    BY <2>5, QuitKeeps
  <2>6. CASE Lapse
    BY <2>6, LapseKeeps
  <2>7. CASE Tick
    BY <2>7, TickKeeps
  <2>8. ASSUME NEW cfg \in Confs, Restart(cfg) PROVE DoorInv'
    BY <2>8, RestartKeeps
  <2>9. CASE UNCHANGED vars
    BY <2>9 DEF vars, process, browser, history, DoorInv, TypeOK, SessionInv, WireInv, PageInv
  <2> QED BY <2>1, <2>2, <2>3, <2>4, <2>5, <2>6, <2>7, <2>8, <2>9 DEF Next
<1> QED BY <1>1, <1>2, PTL DEF Spec

-----------------------------------------------------------------------------
(* What the invariant is for *)

\* The session of a request that the Middleware lets pass was vetted.
LEMMA PassingIsVouched ==
  ASSUME TypeOK, NEW r, r.session \in {None} \cup Session, Sealed(vetted, r.session),
         parse(r.session)
  PROVE  Vouched(r)
<1>1. r.session # None /\ r.session.key = key /\ now < r.session.exp
  BY DEF parse
<1>2. /\ r.session.exp <= vetted[key][r.session.email]
      /\ r.session.exp \in Nat /\ r.session.email \in Emails
  BY <1>1 DEF Sealed, Session
<1>3. now \in Nat /\ vetted[key][r.session.email] \in Nat
  BY <1>2 DEF TypeOK
<1> QED BY <1>1, <1>2, <1>3 DEF Vouched

\* A mutating route is reached in UI mode only, by one who may operate.
LEMMA MutationsGranted ==
  ASSUME NEW r, r.route \in Mutations, Granted(r)
  PROVE  ServesUI /\ CSRFProtect(r) /\ CanOperate(r)
<1>1. None \notin Reads \cup Mutations
  BY PagesApart, DoorAssumption DEF Reads, Names, Probes
<1>2. r.route \in Registered
  <2>1. Handler(r.route) # None
    BY <1>1 DEF Granted, Reaches
  <2>2. IsPost(r.route)
    BY DEF IsPost
  <2> QED BY <2>1, <2>2 DEF Handler
<1>3. Handler(r.route) = r.route
  BY <1>2 DEF Handler
<1>4. r.route \notin Reads
  BY PagesApart DEF Reads, Mutations, Probes
<1>5. CSRFProtect(r) /\ CanOperate(r)
  BY <1>3, <1>4 DEF Granted, Reaches
<1>6. ServesUI
  BY <1>2 DEF Registered, HasAuthenticator, Mutations
<1> QED BY <1>5, <1>6

LEMMA GrantedIsEarned ==
  ASSUME TypeOK, NEW r, r.session \in {None} \cup Session, Sealed(vetted, r.session),
         Granted(r)
  PROVE  Earned(r)
<1>1. Admitted(r)
  BY DEF Granted, Reaches
<1>2. ASSUME HasAuthenticator
      PROVE  \/ r.route \in Exempt
             \/ r.route = "v1" /\ conf.token # None /\ r.bearer = conf.token
             \/ Vouched(r)
  <2>1. ServesUI /\ conf.oidc
    BY <1>2 DEF HasAuthenticator
  <2>2. CASE ByToken(r.route)
    <3>1. r.route = "v1" /\ conf.token # None
      BY <2>1, <2>2 DEF ByToken, isCollectorAPI
    <3>2. BearerAuth(r)
      BY <1>1, <2>1, <2>2 DEF Admitted
    <3> QED BY <3>1, <3>2 DEF BearerAuth
  <2>3. CASE ~ByToken(r.route)
    <3>1. SessionAdmits(r)
      BY <1>1, <2>1, <2>3 DEF Admitted
    <3> QED BY <3>1, PassingIsVouched DEF SessionAdmits
  <2> QED BY <2>2, <2>3
<1>3. ASSUME r.route \in Mutations
      PROVE  /\ ServesUI
             /\ HasAuthenticator => Vouched(r) /\ r.session.email \in emailSet(conf.operators)
  <2>1. ServesUI /\ CanOperate(r)
    BY <1>3, MutationsGranted
  <2>2. r.route \notin Exempt /\ r.route # "v1"
    BY <1>3 DEF Mutations, Exempt, Auth, Probes
  <2>3. ASSUME HasAuthenticator
        PROVE  Vouched(r) /\ r.session.email \in emailSet(conf.operators)
    <3>1. ~ByToken(r.route)
      BY <2>1, <2>2 DEF ByToken, isCollectorAPI
    <3>2. Email(r) = r.session.email
      BY <2>2, <2>3, <3>1 DEF Email
    <3> QED BY <1>2, <2>1, <2>2, <2>3, <3>2 DEF CanOperate
  <2> QED BY <2>1, <2>3
<1>4. ~ServesUI /\ conf.token # None => r.route = "healthz" \/ r.bearer = conf.token
  BY <1>1 DEF Admitted, ByToken, BearerAuth
<1> QED BY <1>2, <1>3, <1>4 DEF Earned

\* No path but those Middleware exempts is reached without a live session or the
\* configured token, whatever the configurations, restarts and tabs, and a
\* CronJob is changed for a current operator only.
THEOREM AccessAlwaysEarned == Spec => []AccessIsEarned
<1>1. DoorInv => AccessIsEarned
  <2> SUFFICES ASSUME DoorInv PROVE AccessIsEarned
    OBVIOUS
  <2>1. TypeOK
    BY DEF DoorInv
  <2>2. ASSUME NEW t \in Tabs, wire[t].kind = "req", Granted(wire[t])
        PROVE  Earned(wire[t])
    <3>1. wire[t] \in Req
      BY <2>1, <2>2 DEF TypeOK, Idle, Away
    <3>2. wire[t].session \in {None} \cup Session
      BY <3>1 DEF Req
    <3>3. Sealed(vetted, wire[t].session)
      BY <2>2 DEF DoorInv, WireInv, Sound, Fit
    <3> QED BY <2>1, <2>2, <3>2, <3>3, GrantedIsEarned
  <2>3. ASSUME NEW route \in Controls, Granted(Request(jar, route, TRUE, Home, Home))
        PROVE  Earned(Request(jar, route, TRUE, Home, Home))
    <3> DEFINE r == Request(jar, route, TRUE, Home, Home)
    <3>1. r \in Req /\ Fit(vetted, jar, r) /\ Granted(r)
      BY <2>3, FromAPage
    <3> HIDE DEF r
    <3>2. r.session \in {None} \cup Session /\ Sealed(vetted, r.session)
      BY <3>1 DEF Req, Fit
    <3>3. Earned(r)
      BY <2>1, <3>1, <3>2, GrantedIsEarned
    <3> QED BY <3>3 DEF r
  <2>4. ASSUME NEW route \in Routes, NEW token \in Tokens, Granted(Call(route, token))
        PROVE  Earned(Call(route, token)) /\ route \notin Mutations
    <3> DEFINE r == Call(route, token)
    <3>1. r.session = None /\ r.csrf = None /\ r.route = route /\ Granted(r)
      BY <2>4 DEF Call
    <3> HIDE DEF r
    <3>2. Earned(r)
      BY <2>1, <3>1, GrantedIsEarned DEF Sealed
    <3>3. route \notin Mutations
      BY <3>1, MutationsGranted DEF CSRFProtect, IsPost
    <3> QED BY <3>2, <3>3 DEF r
  <2> QED BY <2>2, <2>3, <2>4 DEF AccessIsEarned
<1> QED BY <1>1, DoorStaysInOrder, PTL

\* A control on a page carries the token the browser has: it is never refused.
THEOREM OwnPostsAlwaysPass == Spec => []OwnPostsPass
<1>1. DoorInv => OwnPostsPass
  BY DEF DoorInv, PageInv, OwnPostsPass, CSRFProtect, Request
<1> QED BY <1>1, DoorStaysInOrder, PTL

\* Whatever other tabs do to the jar, a login leads where its own tab was going.
THEOREM LoginsLand == Spec => []LandsWhereAsked
<1>1. DoorInv => LandsWhereAsked
  BY DEF DoorInv, WireInv, Sound, LandsWhereAsked
<1> QED BY <1>1, DoorStaysInOrder, PTL

-----------------------------------------------------------------------------
(* The rate limiters *)

\* The limiters count as this module does.
LEMMA SameCount ==
  \A S : /\ loginLimiter!Cardinality(S) = Cardinality(S)
         /\ triggerLimiter!Cardinality(S) = Cardinality(S)
BY DEF loginLimiter!Cardinality, triggerLimiter!Cardinality, Cardinality

\* The request an address gets through at t, after those in G.
Another(t, G) == [at |-> t, no |-> Cardinality({g \in G : g.at = t}) + 1]

\* A request let through counts once more than those before it.
LEMMA AnotherCounts ==
  ASSUME NEW t \in Nat, NEW G, IsFiniteSet(G), G \subseteq [at : Nat, no : Nat],
         \A g \in G : g.at = t => g.no <= Cardinality({h \in G : h.at = t})
  PROVE  /\ Another(t, G) \in [at : Nat, no : Nat] /\ Another(t, G) \notin G
         /\ IsFiniteSet(G \cup {Another(t, G)})
         /\ \A g \in G \cup {Another(t, G)} :
              g.at = t => g.no <= Cardinality({h \in G \cup {Another(t, G)} : h.at = t})
<1> DEFINE x == Another(t, G)
           now0 == {g \in G : g.at = t}
           now1 == {g \in G \cup {x} : g.at = t}
<1>1. IsFiniteSet(now0) /\ Cardinality(now0) \in Nat
  BY FS_Subset, FS_CardinalityType
<1>2. x = [at |-> t, no |-> Cardinality(now0) + 1]
  BY DEF Another
<1> HIDE DEF x
<1>3. x \in [at : Nat, no : Nat] /\ x.at = t /\ x.no = Cardinality(now0) + 1
  BY <1>1, <1>2
<1>4. x \notin G
  BY <1>1, <1>3
<1>5. IsFiniteSet(G \cup {x})
  BY FS_AddElement
<1>6. now1 = now0 \cup {x} /\ x \notin now0
  BY <1>3, <1>4
<1>7. Cardinality(now1) = Cardinality(now0) + 1
  BY <1>1, <1>6, FS_AddElement
<1>8. ASSUME NEW g \in G \cup {x}, g.at = t PROVE g.no <= Cardinality(now1)
  BY <1>1, <1>3, <1>7, <1>8
<1> QED BY <1>3, <1>4, <1>5, <1>8 DEF x

\* Counting the requests of a set, and those of it since the bucket was opened.
LEMMA Counts ==
  ASSUME NEW b, NEW G, IsFiniteSet(G)
  PROVE  /\ IsFiniteSet(Since(b, G)) /\ Since(b, G) \subseteq G
         /\ Cardinality(G) \in Nat /\ Cardinality(Since(b, G)) \in Nat
         /\ Cardinality(G \ Since(b, G)) \in Nat
         /\ Cardinality(G \ Since(b, G)) = Cardinality(G) - Cardinality(Since(b, G))
<1>1. Since(b, G) \subseteq G
  BY DEF Since
<1>2. IsFiniteSet(Since(b, G)) /\ G \cap Since(b, G) = Since(b, G)
  BY <1>1, FS_Subset
<1>3. IsFiniteSet(G \ Since(b, G))
  BY FS_Subset
<1>4. Cardinality(G \ Since(b, G)) = Cardinality(G) - Cardinality(G \cap Since(b, G))
  BY FS_Difference
<1> QED BY <1>1, <1>2, <1>3, <1>4, FS_CardinalityType

\* A request let through is noted with those before it.
LEMMA AdmitNoted ==
  ASSUME NEW t \in Nat, NEW G, Noted(t, G)
  PROVE  /\ Noted(t, G \cup {Another(t, G)})
         /\ Another(t, G) \notin G /\ Another(t, G).at = t
<1>1. Another(t, G).at = t
  BY DEF Another
<1>2. /\ IsFiniteSet(G) /\ G \subseteq [at : Nat, no : Nat]
      /\ \A g \in G : g.at <= t /\ t <= g.at + window
      /\ \A g \in G : g.at = t => g.no <= Cardinality({h \in G : h.at = t})
  BY DEF Noted
<1>3. /\ Another(t, G) \in [at : Nat, no : Nat] /\ Another(t, G) \notin G
      /\ IsFiniteSet(G \cup {Another(t, G)})
      /\ \A g \in G \cup {Another(t, G)} :
           g.at = t => g.no <= Cardinality({h \in G \cup {Another(t, G)} : h.at = t})
  BY <1>2, AnotherCounts
<1>4. \A g \in G \cup {Another(t, G)} : g.at <= t /\ t <= g.at + window
  BY <1>1, <1>2, DoorAssumption
<1> QED BY <1>1, <1>2, <1>3, <1>4 DEF Noted

\* The first request of a window is alone in it, and everything recent belonged
\* to the window before.
LEMMA OpeningAccounts ==
  ASSUME NEW lim \in Nat \ {0}, NEW t \in Nat, NEW b, NEW G,
         InOrder(lim, t, b, G), b = None \/ t > b.reset
  PROVE  Accounts(lim, t, [count |-> 1, reset |-> t + window], G \cup {Another(t, G)})
<1> DEFINE x == Another(t, G)
           c == [count |-> 1, reset |-> t + window]
           H == G \cup {x}
<1>1. window \in Nat
  BY DoorAssumption
<1>2. Noted(t, G) /\ Noted(t, H) /\ x \notin G /\ x.at = t
  BY AdmitNoted DEF InOrder
<1>3. c \in [count : Nat, reset : Nat] /\ c.count = 1 /\ c.reset = t + window
  BY <1>1
<1> HIDE DEF x, c
<1>4. (\A g \in G : g.at < t) /\ Cardinality(G) <= lim
  <2>1. CASE b = None
    BY <2>1, FS_EmptySet DEF InOrder
  <2>2. CASE b # None
    <3>1. Accounts(lim, t, b, G)
      BY <2>2 DEF InOrder
    <3>2. b.reset < t /\ b.reset \in Nat
      BY <2>2, <3>1 DEF Accounts
    <3>3. /\ IsFiniteSet(G) /\ G \subseteq [at : Nat, no : Nat]
          /\ \A g \in G : t <= g.at + window
      BY <1>2 DEF Noted
    <3>4. Since(b, G) = G
      BY <1>1, <3>2, <3>3 DEF Since
    <3>5. Cardinality(G) <= b.count /\ b.count <= lim /\ b.count \in Nat /\ Cardinality(G) \in Nat
      BY <3>1, <3>3, <3>4, FS_CardinalityType DEF Accounts
    <3>6. \A g \in G : g.at < t
      BY <3>1, <3>2, <3>3 DEF Accounts
    <3> QED BY <3>5, <3>6
  <2> QED BY <2>1, <2>2
<1>5. Since(c, H) = {x} /\ H \ Since(c, H) = G
  <2>1. \A g \in G : g.at \in Nat /\ ~(t + window <= g.at + window)
    BY <1>1, <1>2, <1>4 DEF Noted
  <2> QED BY <1>1, <1>2, <1>3, <2>1 DEF Since
<1> HIDE DEF H
<1>6. Cardinality(Since(c, H)) = 1
  BY <1>5, FS_Singleton
<1>7. \A g \in H : g.at <= c.reset
  <2>1. \A g \in H : g.at \in Nat /\ g.at <= t
    BY <1>2 DEF Noted
  <2> QED BY <1>1, <1>3, <2>1
<1>8. Cardinality(H \ Since(c, H)) <= lim
  BY <1>4, <1>5, Zenon
<1>9. /\ Cardinality(Since(c, H)) <= c.count /\ Cardinality(Since(c, H)) = c.count
      /\ c.count <= lim /\ c.reset <= t + window
  BY <1>1, <1>3, <1>6
<1>10. Accounts(lim, t, c, H)
  BY <1>3, <1>4, <1>7, <1>8, <1>9 DEF Accounts
<1> QED BY <1>10 DEF x, c, H

\* A request counted in a window that is not full.
LEMMA CountingAccounts ==
  ASSUME NEW lim \in Nat \ {0}, NEW t \in Nat, NEW b, NEW G,
         Noted(t, G), Accounts(lim, t, b, G), ~(t > b.reset), ~(b.count >= lim)
  PROVE  Accounts(lim, t, [count |-> b.count + 1, reset |-> b.reset], G \cup {Another(t, G)})
<1> DEFINE x == Another(t, G)
           c == [count |-> b.count + 1, reset |-> b.reset]
           H == G \cup {x}
<1>1. window \in Nat
  BY DoorAssumption
<1>2. Noted(t, H) /\ x \notin G /\ x.at = t
  BY AdmitNoted
<1>3. /\ b \in [count : Nat, reset : Nat] /\ b.count \in Nat /\ b.reset \in Nat
      /\ b.reset <= t + window /\ t <= b.reset /\ b.count + 1 <= lim
      /\ Cardinality(Since(b, G)) = b.count /\ Cardinality(G \ Since(b, G)) <= lim
      /\ \A g \in G : g.at <= b.reset
  BY DEF Accounts
<1>4. c \in [count : Nat, reset : Nat] /\ c.count = b.count + 1 /\ c.reset = b.reset
  BY <1>3
<1> HIDE DEF x, c
<1>5. /\ Since(c, H) = Since(b, G) \cup {x} /\ x \notin Since(b, G)
      /\ H \ Since(c, H) = G \ Since(b, G)
  BY <1>2, <1>3, <1>4 DEF Since
<1>6. IsFiniteSet(Since(b, G))
  BY Counts DEF Noted
<1>7. \A g \in H : g.at <= c.reset
  BY <1>2, <1>3, <1>4
<1> HIDE DEF H
<1>8. Cardinality(Since(b, G) \cup {x}) = Cardinality(Since(b, G)) + 1
  BY <1>5, <1>6, FS_AddElement
<1>9. Cardinality(Since(c, H)) = Cardinality(Since(b, G)) + 1 /\ Cardinality(H \ Since(c, H)) <= lim
  <2>1. Cardinality(Since(c, H)) = Cardinality(Since(b, G)) + 1
    BY <1>5, <1>8, Zenon
  <2>2. Cardinality(H \ Since(c, H)) <= lim
    BY <1>3, <1>5, Zenon
  <2> QED BY <2>1, <2>2
<1>10. Cardinality(Since(c, H)) = c.count /\ c.count <= lim
  BY <1>3, <1>4, <1>9
<1>11. Accounts(lim, t, c, H)
  BY <1>3, <1>4, <1>7, <1>9, <1>10 DEF Accounts
<1> QED BY <1>11 DEF x, c, H

\* The bucket once a request is let through.
Counted(t, b) ==
  IF b = None \/ t > b.reset THEN [count |-> 1, reset |-> t + window]
                             ELSE [count |-> b.count + 1, reset |-> b.reset]

\* A request let through leaves the books of its address in order.
LEMMA AdmitInOrder ==
  ASSUME NEW lim \in Nat \ {0}, NEW t \in Nat, NEW b, NEW G,
         InOrder(lim, t, b, G),
         b = None \/ t > b.reset \/ ~(b.count >= lim)
  PROVE  InOrder(lim, t, Counted(t, b), G \cup {Another(t, G)})
<1>1. Noted(t, G) /\ Noted(t, G \cup {Another(t, G)})
  BY AdmitNoted DEF InOrder
<1>2. Accounts(lim, t, Counted(t, b), G \cup {Another(t, G)})
  <2>1. CASE b = None \/ t > b.reset
    BY <2>1, OpeningAccounts DEF Counted
  <2>2. CASE b # None /\ ~(t > b.reset)
    BY <1>1, <2>2, CountingAccounts DEF Counted, InOrder
  <2> QED BY <2>1, <2>2
<1>3. Counted(t, b) # None
  BY <1>2, DoorAssumption DEF Accounts
<1> QED BY <1>1, <1>2, <1>3 DEF InOrder

\* A tick leaves the books in order: while the window of the bucket lasts, it
\* forgets only requests from before that window.
LEMMA AgeInOrder ==
  ASSUME NEW lim \in Nat \ {0}, NEW t \in Nat, NEW b, NEW G,
         InOrder(lim, t, b, G)
  PROVE  InOrder(lim, t + 1, b, {g \in G : t + 1 <= g.at + window})
<1> DEFINE H == {g \in G : t + 1 <= g.at + window}
<1>1. window \in Nat
  BY DoorAssumption
<1>2. IsFiniteSet(G) /\ G \subseteq [at : Nat, no : Nat] /\ \A g \in G : g.at <= t
  BY DEF InOrder, Noted
<1>3. H \subseteq G /\ IsFiniteSet(H) /\ H \subseteq [at : Nat, no : Nat]
  BY <1>2, FS_Subset
<1>4. \A g \in H : g.at <= t + 1 /\ t + 1 <= g.at + window /\ g.at # t + 1
  BY <1>1, <1>2
<1>5. Noted(t + 1, H)
  BY <1>3, <1>4 DEF Noted
<1>6. ASSUME b # None PROVE Accounts(lim, t + 1, b, H)
  <2>1. /\ b \in [count : Nat, reset : Nat] /\ b.count <= lim /\ b.reset <= t + window
        /\ \A g \in G : g.at <= b.reset
        /\ Cardinality(Since(b, G)) <= b.count /\ Cardinality(G \ Since(b, G)) <= lim
        /\ t <= b.reset => Cardinality(Since(b, G)) = b.count
    BY <1>6 DEF InOrder, Accounts
  <2>2. Since(b, H) \subseteq Since(b, G) /\ H \ Since(b, H) \subseteq G \ Since(b, G)
    BY DEF Since
  <2>3. IsFiniteSet(Since(b, G)) /\ IsFiniteSet(G \ Since(b, G))
    BY <1>2, Counts, FS_Subset
  <2>4. /\ Cardinality(Since(b, H)) <= Cardinality(Since(b, G))
        /\ Cardinality(H \ Since(b, H)) <= Cardinality(G \ Since(b, G))
    BY <2>2, <2>3, FS_Subset
  <2>5. Cardinality(Since(b, H)) <= b.count /\ Cardinality(H \ Since(b, H)) <= lim
    <3> HIDE DEF H
    <3>1. /\ Cardinality(Since(b, G)) \in Nat /\ Cardinality(G \ Since(b, G)) \in Nat
          /\ Cardinality(Since(b, H)) \in Nat /\ Cardinality(H \ Since(b, H)) \in Nat
      BY <1>2, <1>3, Counts
    <3> QED BY <2>1, <2>4, <3>1
  <2>6. ASSUME t + 1 <= b.reset PROVE Cardinality(Since(b, H)) = b.count
    <3>1. Since(b, H) = Since(b, G)
      BY <1>1, <1>2, <2>1, <2>6 DEF Since
    <3> QED BY <2>1, <2>6, <3>1
  <2>7. b.reset <= (t + 1) + window
    BY <1>1, <2>1
  <2> HIDE DEF H
  <2> QED BY <1>3, <2>1, <2>5, <2>6, <2>7 DEF Accounts
<1>7. b = None => H = {}
  BY <1>3 DEF InOrder
<1> HIDE DEF H
<1>8. InOrder(lim, t + 1, b, H)
  BY <1>5, <1>6, <1>7 DEF InOrder
<1> QED BY <1>8 DEF H

\* A new process's books are in order.
LEMMA NewInOrder ==
  ASSUME NEW lim, NEW t
  PROVE  InOrder(lim, t, None, {})
BY FS_EmptySet DEF InOrder, Noted

\* Books in order give what the limiter promises.
LEMMA PromiseKept ==
  ASSUME NEW lim \in Nat \ {0}, NEW t \in Nat, NEW b, NEW G,
         InOrder(lim, t, b, G)
  PROVE  Cardinality(G) <= 2 * lim /\ (Spent(lim, t, b) => Cardinality(G) >= lim)
<1>1. CASE b = None
  BY <1>1, FS_EmptySet DEF InOrder, Spent
<1>2. CASE b # None
  <2>1. /\ IsFiniteSet(G) /\ b.count \in Nat /\ b.count <= lim
        /\ Cardinality(Since(b, G)) <= b.count /\ Cardinality(G \ Since(b, G)) <= lim
        /\ Spent(lim, t, b) => Cardinality(Since(b, G)) = b.count /\ lim <= b.count
    BY <1>2 DEF InOrder, Noted, Accounts, Spent
  <2> QED BY <2>1, Counts
<1> QED BY <1>1, <1>2

\* One address is let through: its bucket and its requests change.
LEMMA AdmitBooks ==
  ASSUME NEW lim \in Nat \ {0}, NEW t \in Nat, NEW bs, NEW rs, NEW rf,
         BooksInOrder(lim, t, bs, rs, rf), NEW ip \in Addrs,
         bs[ip] = None \/ t > bs[ip].reset \/ ~(bs[ip].count >= lim)
  PROVE  BooksInOrder(lim, t, [bs EXCEPT ![ip] = Counted(t, bs[ip])],
                      [rs EXCEPT ![ip] = rs[ip] \cup {Another(t, rs[ip])}], rf)
<1>1. InOrder(lim, t, Counted(t, bs[ip]), rs[ip] \cup {Another(t, rs[ip])})
  BY AdmitInOrder DEF BooksInOrder
<1>2. ip \notin rf
  <2> SUFFICES ASSUME ip \in rf PROVE FALSE
    OBVIOUS
  <2>1. bs[ip] # None /\ t <= bs[ip].reset /\ lim <= bs[ip].count
    BY DEF BooksInOrder, Spent
  <2>2. bs[ip].count \in Nat /\ bs[ip].reset \in Nat
    BY <2>1 DEF BooksInOrder, InOrder, Accounts
  <2> QED BY <2>1, <2>2
<1> QED BY <1>1, <1>2 DEF BooksInOrder

\* One address is refused.
LEMMA RefuseBooks ==
  ASSUME NEW lim \in Nat \ {0}, NEW t \in Nat, NEW bs, NEW rs, NEW rf,
         BooksInOrder(lim, t, bs, rs, rf), NEW ip \in Addrs,
         bs[ip] # None, ~(t > bs[ip].reset), bs[ip].count >= lim
  PROVE  BooksInOrder(lim, t, bs, rs, rf \cup {ip})
<1>1. bs[ip].count \in Nat /\ bs[ip].reset \in Nat
  BY DEF BooksInOrder, InOrder, Accounts
<1>2. Spent(lim, t, bs[ip])
  BY <1>1 DEF Spent
<1> QED BY <1>2 DEF BooksInOrder

\* The clock moves.
LEMMA AgeBooks ==
  ASSUME NEW lim \in Nat \ {0}, NEW t \in Nat, NEW bs, NEW rs, NEW rf,
         BooksInOrder(lim, t, bs, rs, rf)
  PROVE  BooksInOrder(lim, t + 1, bs,
                      [ip \in Addrs |-> {g \in rs[ip] : t + 1 <= g.at + window}], {})
<1>1. ASSUME NEW ip \in Addrs
      PROVE  InOrder(lim, t + 1, bs[ip], {g \in rs[ip] : t + 1 <= g.at + window})
  BY AgeInOrder DEF BooksInOrder
<1> QED BY <1>1 DEF BooksInOrder

\* Every step of the login limiter leaves its books in order.
LEMMA LoginBooks ==
  ASSUME LimitersInv, UNCHANGED now,
         \/ UNCHANGED loginVars \/ loginLimiter!Forget
         \/ loginLimiter!Admit(ownAddr) \/ loginLimiter!Refuse(ownAddr)
  PROVE  BooksInOrder(loginLimit, now, loginBuckets, loginRecent, loginRefused)'
<1>1. /\ loginLimit \in Nat \ {0} /\ ownAddr \in Addrs /\ now \in Nat
      /\ BooksInOrder(loginLimit, now, loginBuckets, loginRecent, loginRefused)
  BY DoorAssumption DEF LimitersInv
<1>2. CASE UNCHANGED loginVars
  BY <1>1, <1>2 DEF loginVars
<1>3. CASE loginLimiter!Forget
  <2>1. BooksInOrder(loginLimit, now, [ip \in Addrs |-> None], [ip \in Addrs |-> {}], {})
    BY NewInOrder DEF BooksInOrder
  <2> QED BY <1>3, <2>1 DEF loginLimiter!Forget
<1>4. CASE loginLimiter!Admit(ownAddr)
  <2>1. /\ loginBuckets' = [loginBuckets EXCEPT ![ownAddr] = Counted(now, loginBuckets[ownAddr])]
        /\ loginRecent' = [loginRecent EXCEPT
                             ![ownAddr] = loginRecent[ownAddr] \cup {Another(now, loginRecent[ownAddr])}]
        /\ loginRefused' = loginRefused
    <3>1. loginLimiter!Grant(now, loginRecent[ownAddr]) = Another(now, loginRecent[ownAddr])
      BY SameCount DEF loginLimiter!Grant, Another
    <3>2. loginRecent' = [loginRecent EXCEPT
                             ![ownAddr] = loginRecent[ownAddr] \cup {loginLimiter!Grant(now, loginRecent[ownAddr])}]
      BY <1>4 DEF loginLimiter!Admit
    <3>3. loginBuckets' = [loginBuckets EXCEPT ![ownAddr] = Counted(now, loginBuckets[ownAddr])]
      BY <1>4 DEF loginLimiter!Admit, loginLimiter!Fresh, loginLimiter!Opened, loginLimiter!Counted,
                    Counted
    <3>4. loginRefused' = loginRefused
      BY <1>4 DEF loginLimiter!Admit
    <3> QED BY <3>1, <3>2, <3>3, <3>4
  <2>2. \/ loginBuckets[ownAddr] = None \/ now > loginBuckets[ownAddr].reset
        \/ ~(loginBuckets[ownAddr].count >= loginLimit)
    BY <1>4 DEF loginLimiter!Admit, loginLimiter!Blocked, loginLimiter!Fresh, loginLimiter!Full
  <2>3. BooksInOrder(loginLimit, now, loginBuckets', loginRecent', loginRefused')
    BY <1>1, <2>1, <2>2, AdmitBooks
  <2> QED BY <2>3
<1>5. CASE loginLimiter!Refuse(ownAddr)
  <2>1. /\ loginBuckets[ownAddr] # None /\ ~(now > loginBuckets[ownAddr].reset)
        /\ loginBuckets[ownAddr].count >= loginLimit
        /\ loginBuckets' = loginBuckets /\ loginRecent' = loginRecent
        /\ loginRefused' = loginRefused \cup {ownAddr}
    BY <1>5 DEF loginLimiter!Refuse, loginLimiter!Blocked, loginLimiter!Fresh, loginLimiter!Full
  <2>2. BooksInOrder(loginLimit, now, loginBuckets', loginRecent', loginRefused')
    BY <1>1, <2>1, RefuseBooks
  <2> QED BY <2>2
<1> QED BY <1>2, <1>3, <1>4, <1>5

\* Every step of the trigger limiter leaves its books in order.
LEMMA TriggerBooks ==
  ASSUME LimitersInv, UNCHANGED now,
         \/ UNCHANGED triggerVars \/ triggerLimiter!Forget
         \/ triggerLimiter!Admit(ownAddr) \/ triggerLimiter!Refuse(ownAddr)
  PROVE  BooksInOrder(triggerLimit, now, triggerBuckets, triggerRecent, triggerRefused)'
<1>1. /\ triggerLimit \in Nat \ {0} /\ ownAddr \in Addrs /\ now \in Nat
      /\ BooksInOrder(triggerLimit, now, triggerBuckets, triggerRecent, triggerRefused)
  BY DoorAssumption DEF LimitersInv
<1>2. CASE UNCHANGED triggerVars
  BY <1>1, <1>2 DEF triggerVars
<1>3. CASE triggerLimiter!Forget
  <2>1. BooksInOrder(triggerLimit, now, [ip \in Addrs |-> None], [ip \in Addrs |-> {}], {})
    BY NewInOrder DEF BooksInOrder
  <2> QED BY <1>3, <2>1 DEF triggerLimiter!Forget
<1>4. CASE triggerLimiter!Admit(ownAddr)
  <2>1. /\ triggerBuckets' = [triggerBuckets EXCEPT ![ownAddr] = Counted(now, triggerBuckets[ownAddr])]
        /\ triggerRecent' = [triggerRecent EXCEPT
                             ![ownAddr] = triggerRecent[ownAddr] \cup {Another(now, triggerRecent[ownAddr])}]
        /\ triggerRefused' = triggerRefused
    <3>1. triggerLimiter!Grant(now, triggerRecent[ownAddr]) = Another(now, triggerRecent[ownAddr])
      BY SameCount DEF triggerLimiter!Grant, Another
    <3>2. triggerRecent' = [triggerRecent EXCEPT
                             ![ownAddr] = triggerRecent[ownAddr] \cup {triggerLimiter!Grant(now, triggerRecent[ownAddr])}]
      BY <1>4 DEF triggerLimiter!Admit
    <3>3. triggerBuckets' = [triggerBuckets EXCEPT ![ownAddr] = Counted(now, triggerBuckets[ownAddr])]
      BY <1>4 DEF triggerLimiter!Admit, triggerLimiter!Fresh, triggerLimiter!Opened, triggerLimiter!Counted,
                    Counted
    <3>4. triggerRefused' = triggerRefused
      BY <1>4 DEF triggerLimiter!Admit
    <3> QED BY <3>1, <3>2, <3>3, <3>4
  <2>2. \/ triggerBuckets[ownAddr] = None \/ now > triggerBuckets[ownAddr].reset
        \/ ~(triggerBuckets[ownAddr].count >= triggerLimit)
    BY <1>4 DEF triggerLimiter!Admit, triggerLimiter!Blocked, triggerLimiter!Fresh, triggerLimiter!Full
  <2>3. BooksInOrder(triggerLimit, now, triggerBuckets', triggerRecent', triggerRefused')
    BY <1>1, <2>1, <2>2, AdmitBooks
  <2> QED BY <2>3
<1>5. CASE triggerLimiter!Refuse(ownAddr)
  <2>1. /\ triggerBuckets[ownAddr] # None /\ ~(now > triggerBuckets[ownAddr].reset)
        /\ triggerBuckets[ownAddr].count >= triggerLimit
        /\ triggerBuckets' = triggerBuckets /\ triggerRecent' = triggerRecent
        /\ triggerRefused' = triggerRefused \cup {ownAddr}
    BY <1>5 DEF triggerLimiter!Refuse, triggerLimiter!Blocked, triggerLimiter!Fresh, triggerLimiter!Full
  <2>2. BooksInOrder(triggerLimit, now, triggerBuckets', triggerRecent', triggerRefused')
    BY <1>1, <2>1, RefuseBooks
  <2> QED BY <2>2
<1> QED BY <1>2, <1>3, <1>4, <1>5

\* Nothing but these steps, the clock and a restart touches a limiter.
LEMMA ServingLimits ==
  ASSUME LimitersInv, NEW t, NEW r, Handle(t, r)
  PROVE  LimitersInv'
<1>1. UNCHANGED now
  BY DEF Handle, TurnAway, Serve, HandleLogin, HandleCallback, HandleLogout, Mutate, process
<1>2. UNCHANGED loginVars \/ loginLimiter!Admit(ownAddr) \/ loginLimiter!Refuse(ownAddr)
  BY DEF Handle, TurnAway, Serve, HandleLogin, HandleCallback, HandleLogout, Mutate
<1>3. UNCHANGED triggerVars \/ triggerLimiter!Admit(ownAddr) \/ triggerLimiter!Refuse(ownAddr)
  BY DEF Handle, TurnAway, Serve, HandleLogin, HandleCallback, HandleLogout, Mutate
<1>4. BooksInOrder(loginLimit, now, loginBuckets, loginRecent, loginRefused)'
  BY <1>1, <1>2, LoginBooks
<1>5. BooksInOrder(triggerLimit, now, triggerBuckets, triggerRecent, triggerRefused)'
  BY <1>1, <1>3, TriggerBooks
<1> QED BY <1>1, <1>4, <1>5 DEF LimitersInv

\* Both limiters' books agree at all times with what they have let through.
THEOREM LimitersStayInOrder == Spec => []LimitersInv
<1>1. Init => LimitersInv
  <2> SUFFICES ASSUME Init PROVE LimitersInv
    OBVIOUS
  <2>1. ASSUME NEW lim
        PROVE  BooksInOrder(lim, 0, [ip \in Addrs |-> None], [ip \in Addrs |-> {}], {})
    BY NewInOrder DEF BooksInOrder
  <2>2. /\ now = 0
        /\ loginBuckets = [ip \in Addrs |-> None] /\ triggerBuckets = [ip \in Addrs |-> None]
        /\ loginRecent = [ip \in Addrs |-> {}] /\ triggerRecent = [ip \in Addrs |-> {}]
        /\ loginRefused = {} /\ triggerRefused = {}
    BY DEF Init, loginLimiter!LimiterInit, triggerLimiter!LimiterInit
  <2>3. /\ BooksInOrder(loginLimit, now, loginBuckets, loginRecent, loginRefused)
        /\ BooksInOrder(triggerLimit, now, triggerBuckets, triggerRecent, triggerRefused)
    BY <2>1, <2>2, Zenon
  <2> QED BY <2>2, <2>3 DEF LimitersInv
<1>2. LimitersInv /\ [Next]_vars => LimitersInv'
  <2> SUFFICES ASSUME LimitersInv, [Next]_vars PROVE LimitersInv'
    OBVIOUS
  <2>1. ASSUME UNCHANGED now, UNCHANGED loginVars, UNCHANGED triggerVars PROVE LimitersInv'
    BY <2>1 DEF LimitersInv, loginVars, triggerVars
  <2>2. ASSUME NEW t \in Tabs, HandleNavigation(t) PROVE LimitersInv'
    BY <2>2, ServingLimits DEF HandleNavigation
  <2>3. ASSUME NEW t \in Tabs, Authenticate(t) PROVE LimitersInv'
    BY <2>1, <2>3 DEF Authenticate, process
  <2>4. ASSUME NEW t \in Tabs, NEW p \in Pages, Browse(t, p) PROVE LimitersInv'
    BY <2>1, <2>4 DEF Browse, process
  <2>5. ASSUME NEW t \in Tabs, NEW route \in Controls, Htmx(t, route) PROVE LimitersInv'
    BY <2>5, ServingLimits DEF Htmx
  <2>6. CASE Quit
    BY <2>1, <2>6 DEF Quit, process
  <2>7. CASE Lapse
    BY <2>1, <2>7 DEF Lapse, process
  <2>8. CASE Tick
    <3>1. /\ now' = now + 1 /\ now' \in Nat
          /\ loginBuckets' = loginBuckets /\ triggerBuckets' = triggerBuckets
          /\ loginRecent' = [ip \in Addrs |-> {g \in loginRecent[ip] : now + 1 <= g.at + window}]
          /\ triggerRecent' = [ip \in Addrs |-> {g \in triggerRecent[ip] : now + 1 <= g.at + window}]
          /\ loginRefused' = {} /\ triggerRefused' = {}
      BY <2>8 DEF Tick, LimitersInv, loginLimiter!Age, loginLimiter!Lately,
                  triggerLimiter!Age, triggerLimiter!Lately
    <3>2. now \in Nat /\ loginLimit \in Nat \ {0} /\ triggerLimit \in Nat \ {0}
      BY DoorAssumption DEF LimitersInv
    <3>3. BooksInOrder(loginLimit, now', loginBuckets', loginRecent', loginRefused')
      BY <3>1, <3>2, AgeBooks DEF LimitersInv
    <3>4. BooksInOrder(triggerLimit, now', triggerBuckets', triggerRecent', triggerRefused')
      BY <3>1, <3>2, AgeBooks DEF LimitersInv
    <3> QED BY <3>1, <3>3, <3>4 DEF LimitersInv
  <2>9. ASSUME NEW cfg \in Confs, Restart(cfg) PROVE LimitersInv'
    <3>1. UNCHANGED now /\ loginLimiter!Forget /\ triggerLimiter!Forget
      BY <2>9 DEF Restart
    <3> QED BY <3>1, LoginBooks, TriggerBooks DEF LimitersInv
  <2>10. CASE UNCHANGED vars
    BY <2>1, <2>10 DEF vars, process
  <2> QED BY <2>2, <2>3, <2>4, <2>5, <2>6, <2>7, <2>8, <2>9, <2>10 DEF Next
<1> QED BY <1>1, <1>2, PTL DEF Spec

\* Wherever a stretch as long as a window begins, a limiter lets at most twice
\* its limit through in it.
THEOREM NeverMoreThanTwice == Spec => []AtMostTwice
<1>1. LimitersInv => AtMostTwice
  <2> SUFFICES ASSUME LimitersInv, NEW ip \in Addrs
               PROVE  /\ Cardinality(loginRecent[ip]) <= 2 * loginLimit
                      /\ Cardinality(triggerRecent[ip]) <= 2 * triggerLimit
    BY SameCount DEF AtMostTwice, loginLimiter!WithinTwice, triggerLimiter!WithinTwice
  <2>1. now \in Nat /\ loginLimit \in Nat \ {0} /\ triggerLimit \in Nat \ {0}
    BY DoorAssumption DEF LimitersInv
  <2>2. /\ InOrder(loginLimit, now, loginBuckets[ip], loginRecent[ip])
        /\ InOrder(triggerLimit, now, triggerBuckets[ip], triggerRecent[ip])
    BY DEF LimitersInv, BooksInOrder
  <2> QED BY <2>1, <2>2, PromiseKept
<1> QED BY <1>1, LimitersStayInOrder, PTL

\* Who is refused has really been let through as often as the limit within the
\* last window.
THEOREM RefusalsAreDeserved == Spec => []RefusedHadItsShare
<1>1. LimitersInv => RefusedHadItsShare
  <2> SUFFICES ASSUME LimitersInv
               PROVE  /\ \A ip \in loginRefused : Cardinality(loginRecent[ip]) >= loginLimit
                      /\ \A ip \in triggerRefused : Cardinality(triggerRecent[ip]) >= triggerLimit
    BY SameCount DEF RefusedHadItsShare, loginLimiter!HadItsShare, triggerLimiter!HadItsShare
  <2>1. now \in Nat /\ loginLimit \in Nat \ {0} /\ triggerLimit \in Nat \ {0}
    BY DoorAssumption DEF LimitersInv
  <2>2. ASSUME NEW ip \in loginRefused PROVE Cardinality(loginRecent[ip]) >= loginLimit
    <3>1. /\ InOrder(loginLimit, now, loginBuckets[ip], loginRecent[ip])
         /\ Spent(loginLimit, now, loginBuckets[ip])
      BY DEF LimitersInv, BooksInOrder
    <3> QED BY <2>1, <3>1, PromiseKept
  <2>3. ASSUME NEW ip \in triggerRefused PROVE Cardinality(triggerRecent[ip]) >= triggerLimit
    <3>1. /\ InOrder(triggerLimit, now, triggerBuckets[ip], triggerRecent[ip])
         /\ Spent(triggerLimit, now, triggerBuckets[ip])
      BY DEF LimitersInv, BooksInOrder
    <3> QED BY <2>1, <3>1, PromiseKept
  <2> QED BY <2>2, <2>3
<1> QED BY <1>1, LimitersStayInOrder, PTL
=============================================================================
