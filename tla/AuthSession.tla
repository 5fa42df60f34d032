----------------------------- MODULE AuthSession -----------------------------
(***************************************************************************)
(* One browser tab and the accounts of the server.  The tab keeps a token  *)
(* (auth/session.ts), the identity that was loaded with it (stores/auth.ts)*)
(* and a page (router/index.ts).  Logins, the restoration of a session and *)
(* the requests of the pages are coroutines: each goes on when its answers *)
(* arrive, with whatever the others have left in the store meanwhile.  Any *)
(* answer 401 clears the token that is current then (api/request.ts).      *)
(***************************************************************************)
EXTENDS Naturals, FiniteSets

CONSTANTS
  Person,    \* users of the server
  Slot,      \* bound: logins of the tab in flight
  Tokens,    \* bound: number of access tokens issued
  Targets,   \* bound: pages the user asks for
  InFlight,  \* bound: requests of the pages per token
  Fails,     \* whether identity requests may time out or break
  Regrants,  \* whether roles are granted while the tab is open
  None       \* no token, nobody, no page

Restore == "restore"
Loader == Slot \cup {Restore}
Parts == {"roles", "permissions"}
Public == {"login", "register"}
Pages == Public \cup {"app", "pending"}
Token == 1 .. Tokens

ASSUME SessionAssumption ==
  /\ Tokens \in Nat \ {0} /\ InFlight \in Nat \ {0} /\ Targets \subseteq Pages
  /\ Fails \in BOOLEAN /\ Regrants \in BOOLEAN
  /\ None \notin Person /\ None \notin Token /\ None \notin Pages /\ Restore \notin Slot

VARIABLES
  tab,      \* token, identity, page, and the navigation under way
  login,    \* Login.vue's submissions
  load,     \* the running loadIdentity of each submission and of restoreSession
  flight,   \* requests of the pages by the token they carry
  owner,    \* whose token it is, None when not yet issued
  expired,  \* tokens past their exp, or of users disabled since
  granted   \* users who hold a role

tabVars == <<tab, login, load, flight, owner, expired, granted>>
server == <<owner, expired, granted>>

NoLoad == [pc |-> "none", token |-> None, part |-> [q \in Parts |-> "settled"]]
NewLoad(k) == [pc |-> "running", token |-> k, part |-> [q \in Parts |-> "sent"]]
NoSubmission == [pc |-> "idle", account |-> None]

(* get_current_user reads the token and the user anew at every request.    *)
Valid(k) == k # None /\ k \notin expired
-----------------------------------------------------------------------------
Reset(t) == [t EXCEPT !.user = None, !.role = FALSE, !.permission = FALSE]
SignedOut(t) == [Reset(t) EXCEPT !.token = None]

(* Where the guard sends a navigation: unauthenticated to public pages, an *)
(* account without a role to pending-access, others away from public pages.*)
Destination(t, authenticated, target) ==
  IF ~authenticated THEN IF target \in Public THEN target ELSE "login"
  ELSE IF ~t.role THEN "pending"
  ELSE IF target \in Public THEN "app" ELSE target

(* A missing permission redirects to "/", whose own permission may be the  *)
(* missing one: then the guard redirects for ever.                         *)
Allowed(t, target) == [t EXCEPT !.to = target,
  !.at = IF target = "app" /\ ~t.permission THEN "loop" ELSE "component"]

(* beforeEach with restoreSession, up to its await.                        *)
Guarded(t, target) ==
  IF t.token = None THEN Allowed(Reset(t), Destination(Reset(t), FALSE, target))
  ELSE IF t.user # None THEN Allowed(t, Destination(t, TRUE, target))
  ELSE [t EXCEPT !.to = target, !.at = "guard"]

-----------------------------------------------------------------------------
(***************************************************************************)
(* Deliberate faults, for testing the properties; no specification uses    *)
(* them.                                                                   *)
(***************************************************************************)
OnlyWithToken(t) ==
  IF t.token = None \/ t.page = "login" THEN [t EXCEPT !.token = None]
  ELSE Guarded([t EXCEPT !.token = None], "login")
RestoringAtStart(t, l) ==
  IF t.at = "guard" /\ t.page = "start" THEN [l EXCEPT ![Restore] = NewLoad(t.token)] ELSE l
AfterAnyNavigation(p) == load[p].pc = "failing" /\ tab.at = "none"
-----------------------------------------------------------------------------
(* The guard once restoreSession has answered; a redirect is guarded again.*)
Resumed(t, authenticated) ==
  LET d == Destination(t, authenticated, t.to) IN
  IF t.at # "guard" THEN t
  ELSE IF d = t.to THEN Allowed(t, d) ELSE Guarded(t, d)

(* restorePromise is shared: a guard that waits starts at most one load.   *)
Restoring(t, l) ==
  IF t.at = "guard" /\ l[Restore].pc = "none" THEN [l EXCEPT ![Restore] = NewLoad(t.token)]
  ELSE l
-----------------------------------------------------------------------------
(* The interceptor's branch for 401, with the handler of the router.       *)
Unauthorized(t) ==
  LET cleared == [t EXCEPT !.token = None] IN
  IF t.page = "login" THEN cleared ELSE Guarded(cleared, "login")

(* A rejected load waits for the redirect its 401 caused, if any; then its *)
(* catch runs before the event loop takes anything else.  A guard that     *)
(* redirects for ever takes nothing else at all.                           *)
Rejected(p) == load[p].pc = "failing" /\ ~(tab.to = "login" /\ tab.at = "component")
Runs == tab.at # "loop" /\ \A p \in Loader : ~Rejected(p)

Go(t, l) == tab' = t /\ load' = Restoring(t, l)

Opened(k) == Guarded([token |-> k, user |-> None, role |-> FALSE, permission |-> FALSE,
                      page |-> "start", to |-> None, at |-> "none"], "app")

TabInit ==
  /\ \E kept \in {1, None}, a \in Person :
       /\ owner = [k \in Token |-> IF k = kept THEN a ELSE None]
       /\ tab = Opened(kept)
  /\ load = Restoring(tab, [p \in Loader |-> NoLoad])
  /\ login = [s \in Slot |-> NoSubmission]
  /\ flight = [k \in Token \cup {None} |-> 0]
  /\ expired = {}
  /\ granted \in SUBSET Person

(* Reloading the page keeps only the token in localStorage; reloading it   *)
(* again before it shows anything would change nothing.                    *)
Reload ==
  /\ Runs /\ tab.page # "start"
  /\ Go(Opened(tab.token), [p \in Loader |-> NoLoad])
  /\ login' = [s \in Slot |-> NoSubmission]
  /\ flight' = [k \in DOMAIN flight |-> 0]
  /\ UNCHANGED server

Navigate(target) ==
  /\ Runs /\ tab.page # "start"
  /\ Go(Guarded(tab, target), load)
  /\ UNCHANGED <<login, flight, server>>

Logout ==
  /\ Runs /\ tab.page \in {"app", "pending"}
  /\ Go(Guarded(SignedOut(tab), "login"), load)
  /\ UNCHANGED <<login, flight, server>>

Sent(k) == [flight EXCEPT ![k] = IF @ < InFlight THEN @ + 1 ELSE @]

(* The component is there and the page changes.  Behind the guard every    *)
(* page asks for its data on arrival but one: views/ai/Assistant.vue asks  *)
(* nothing before a question is sent.                                      *)
FinishNavigation ==
  /\ Runs /\ tab.at = "component"
  /\ tab' = [tab EXCEPT !.page = tab.to, !.to = None, !.at = "none"]
  /\ flight' \in IF tab.to = "app" THEN {flight, Sent(tab.token)} ELSE {flight}
  /\ UNCHANGED <<login, load, server>>

PageRequest ==
  /\ Runs /\ tab.page = "app"
  /\ flight[tab.token] < InFlight
  /\ flight' = Sent(tab.token)
  /\ UNCHANGED <<tab, login, load, server>>

PageAnswered(k) ==
  /\ Runs /\ flight[k] > 0
  /\ flight' = [flight EXCEPT ![k] = @ - 1]
  /\ Go(IF Valid(k) THEN tab ELSE Unauthorized(tab), load)
  /\ UNCHANGED <<login, server>>
-----------------------------------------------------------------------------
(* Login.vue's submit: the form stays open while a submission runs.        *)
Submit(s, a) ==
  /\ Runs /\ tab.page = "login"
  /\ login[s].pc = "idle"
  /\ login' = [login EXCEPT ![s] = [pc |-> "posted", account |-> a]]
  /\ UNCHANGED <<tab, load, flight, server>>

Issue(k, a) ==
  /\ \A j \in Token : owner[j] = None <=> j >= k
  /\ owner' = [owner EXCEPT ![k] = a]

LoginAnswered(s) ==
  /\ Runs /\ login[s].pc = "posted"
  /\ \E k \in Token :
       /\ Issue(k, login[s].account)
       /\ tab' = [tab EXCEPT !.token = k]
       /\ load' = [load EXCEPT ![s] = NewLoad(k)]
  /\ login' = [login EXCEPT ![s].pc = "loading"]
  /\ UNCHANGED <<flight, expired, granted>>

LoginRefused(s) ==
  /\ Runs /\ login[s].pc = "posted"
  /\ login' = [login EXCEPT ![s] = NoSubmission]
  /\ UNCHANGED <<tab, load, flight, server>>

(* /auth/roles and /auth/permissions read the database at different times; *)
(* /auth/me, sent with them, is answered or refused as they are.           *)
Found(a) == IF a \in granted THEN "ok" ELSE "empty"
ServerAnswers(p, q) ==
  LET k == load[p].token
      result == IF Valid(k) THEN Found(owner[k]) ELSE "refused" IN
  /\ load[p].part[q] = "sent"
  /\ \E r \in {result} \cup (IF Fails THEN {"failed"} ELSE {}) :
       load' = [load EXCEPT ![p].part[q] = r]
  /\ UNCHANGED <<tab, login, flight, server>>

(* loadIdentity's three assignments, and what its caller does next.        *)
Identified(p) ==
  [tab EXCEPT !.user = owner[load[p].token], !.role = load[p].part["roles"] = "ok",
              !.permission = load[p].part["permissions"] = "ok"]
Loaded(p) ==
  LET t == Identified(p) IN
  /\ Runs /\ load[p].pc = "running"
  /\ \A q \in Parts : load[p].part[q] \in {"ok", "empty"}
  /\ Go(IF p = Restore THEN Resumed(t, TRUE)
        ELSE Guarded(t, IF t.role THEN "app" ELSE "pending"), [load EXCEPT ![p] = NoLoad])
  /\ login' = [s \in Slot |-> IF s = p THEN NoSubmission ELSE login[s]]
  /\ UNCHANGED <<flight, server>>

(* Promise.all rejects at the first rejection; the others arrive later.    *)
PartRejected(p, q) ==
  /\ Runs /\ load[p].part[q] \in {"refused", "failed"}
  /\ Go(IF load[p].part[q] = "refused" THEN Unauthorized(tab) ELSE tab,
        [load EXCEPT ![p].part[q] = "settled", ![p].pc = "failing"])
  /\ UNCHANGED <<login, flight, server>>

(* The catch of login and of restoreSession; the answers still missing are *)
(* those of an ordinary request.                                           *)
Outstanding(p) == Cardinality({q \in Parts : load[p].part[q] \in {"sent", "refused"}})
Catch(p) ==
  LET t == SignedOut(tab)
      k == load[p].token IN
  /\ Rejected(p)
  /\ Go(IF p = Restore THEN Resumed(t, FALSE) ELSE t, [load EXCEPT ![p] = NoLoad])
  /\ login' = [s \in Slot |-> IF s = p THEN NoSubmission ELSE login[s]]
  /\ flight' = [flight EXCEPT ![k] = IF @ + Outstanding(p) < InFlight
                                       THEN @ + Outstanding(p) ELSE InFlight]
  /\ UNCHANGED server
-----------------------------------------------------------------------------
Expire(k) ==
  /\ owner[k] # None /\ k \notin expired
  /\ expired' = expired \cup {k}
  /\ UNCHANGED <<tab, login, load, flight, owner, granted>>

(* An administrator assigns a role; removals are left out.                 *)
Grant(a) ==
  /\ Regrants
  /\ a \notin granted
  /\ granted' = granted \cup {a}
  /\ UNCHANGED <<tab, login, load, flight, owner, expired>>

User == \/ Reload \/ Logout \/ PageRequest
        \/ \E target \in Targets : Navigate(target)
        \/ \E s \in Slot, a \in Person : Submit(s, a)

Answer(s) == LoginAnswered(s) \/ LoginRefused(s)

TabNext ==
  \/ User \/ FinishNavigation
  \/ \E k \in Token \cup {None} : PageAnswered(k)
  \/ \E s \in Slot : Answer(s)
  \/ \E p \in Loader : \/ Loaded(p) \/ Catch(p)
                       \/ \E q \in Parts : ServerAnswers(p, q) \/ PartRejected(p, q)
  \/ \E k \in Token : Expire(k)
  \/ \E a \in Person : Grant(a)

(* Every request is answered or times out in the client; what a coroutine  *)
(* or the router has to do next, the event loop does.                      *)
TabFairness ==
  /\ WF_tabVars(FinishNavigation)
  /\ \A k \in Token \cup {None} : WF_tabVars(PageAnswered(k))
  /\ \A s \in Slot : WF_tabVars(Answer(s))
  /\ \A p \in Loader :
       /\ WF_tabVars(Loaded(p)) /\ WF_tabVars(Catch(p))
       /\ \A q \in Parts : WF_tabVars(ServerAnswers(p, q)) /\ WF_tabVars(PartRejected(p, q))

TabSpec == TabInit /\ [][TabNext]_tabVars
-----------------------------------------------------------------------------
(* Every variable keeps its type.                                          *)
TabTypeOK ==
  /\ tab \in [token : Token \cup {None}, user : Person \cup {None}, role : BOOLEAN,
              permission : BOOLEAN, page : Pages \cup {"start"}, to : Pages \cup {None},
              at : {"none", "guard", "component", "loop"}]
  /\ login \in [Slot -> [pc : {"idle", "posted", "loading"}, account : Person \cup {None}]]
  /\ load \in [Loader -> [pc : {"none", "running", "failing"}, token : Token \cup {None},
       part : [Parts -> {"settled", "sent", "ok", "empty", "refused", "failed"}]]]
  /\ flight \in [Token \cup {None} -> 0 .. InFlight]
  /\ owner \in [Token -> Person \cup {None}]
  /\ expired \subseteq Token /\ granted \subseteq Person

(* Whoever waits in the tab waits for something that is under way: a guard *)
(* for a restoration, a submitted login for its load, and a load for       *)
(* answers to requests that were sent with a token the server had issued;  *)
(* also after the refusals, redirects and reloads of others.               *)
EveryWaitIsAnswered ==
  /\ tab.at = "guard" => load[Restore].pc # "none"
  /\ \A s \in Slot : login[s].pc = "loading" <=> load[s].pc # "none"
  /\ \A p \in Loader : load[p].pc # "none" =>
       /\ load[p].token # None /\ owner[load[p].token] # None
       /\ load[p].pc = "running" => \A q \in Parts : load[p].part[q] # "settled"

(* "Pinia Auth Store keeps the current user, roles, permissions and the    *)
(* authentication state" (frontend/README.md): the user shown is the one   *)
(* the token acts for, once nothing that loads it is under way.            *)
IdentityMatchesToken ==
  tab.token # None /\ tab.user # None /\ (\A p \in Loader : load[p].pc = "none")
    => tab.user = owner[tab.token]

(* A tab that has lost its token leaves the pages behind the guard with    *)
(* the first refusal still to come, be it of a request it makes there      *)
(* without a token or of one sent earlier with an expired token: it ends   *)
(* at a public page or signed in, unless the guard redirects for ever.     *)
(* Without such a refusal it may stay: where a page asks nothing, and the  *)
(* 401 that cleared the token came while the login page was still shown.   *)
Refused(k) == flight[k] > 0 /\ ~Valid(k)
TokenlessAppLeaves ==
  tab.page = "app" /\ tab.token = None /\ (\E k \in Token \cup {None} : Refused(k)) ~>
    tab.page # "app" \/ tab.token # None \/ tab.at = "loop"

(* A submitted login comes to an end, however the refusals and failures of *)
(* its own requests and of older ones fall, with the same exception.       *)
LoginEnds ==
  \A s \in Slot : login[s].pc # "idle" ~> login[s].pc = "idle" \/ tab.at = "loop"
=============================================================================
