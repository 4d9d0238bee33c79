----------------------------- MODULE AuthLogin ------------------------------
(***************************************************************************)
(* Signing in from the page: NativeAuthService (auth_service.py), the      *)
(* login part of the SDK's MessageRouter, and the browser login of the     *)
(* app-server (account_processor.rs).  One click starts one login; each is *)
(* served by a thread of the HTTP server, waited for by a thread of its    *)
(* own, and polled by the page that started it.  The polls of one page     *)
(* share one timer; all logins share one app-server process, which may die *)
(* and is then never replaced.                                             *)
(***************************************************************************)
EXTENDS Naturals, Sequences, SequencesExt

CONSTANTS
  MaxLogins,  \* bound: clicks on the sign-in button
  MaxPages    \* bound: windows of the browser that show the page

ASSUME LoginsAssumption == MaxLogins \in Nat \ {0}
ASSUME PagesAssumption == MaxPages \in Nat \ {0}

\* Logins are numbered in the order of the clicks, pages in that of their first one.
Logins == 1..MaxLogins
Pages == 1..MaxPages

VARIABLES
  process,   \* the app-server: "absent" (not started yet), "running" or "gone"
  task,      \* the login task in the app-server, per login
  outcome,   \* what the login ended with
  shutdown,  \* has the callback server of a login been told to stop?
  active,    \* active_login, 0 for None
  signedIn,  \* the account AuthManager has cached
  wire,      \* the app-server's standard output
  reading,   \* the SDK's reader thread runs
  starter,   \* the thread serving POST /api/account/login/chatgpt
  listed,    \* the router's _login_notifications has the login's queue
  queue,     \* that queue
  early,     \* _pending_login_notifications
  attempts,  \* the login in NativeAuthService._attempts, 0 when empty
  state,     \* LoginAttempt.state
  waiter,    \* the thread in _wait_for_login
  tab,       \* the page on which the login is clicked
  page,      \* what that page does about the login: its chain of polls
  timer      \* loginPollTimer of a page: the login it was set for last, 0 at first

serverVars == <<task, outcome, shutdown, active, signedIn>>
routerVars == <<listed, queue, early>>
serviceVars == <<starter, attempts, state, waiter>>
pageVars == <<tab, page, timer>>
vars == <<process, serverVars, wire, reading, routerVars, serviceVars, pageVars>>

Results == {"ok", "bad"}
Items == Results \cup {"closed"}
Message(type, l, result) == [type |-> type, login |-> l, result |-> result]

TypeOK ==
  /\ process \in {"absent", "running", "gone"}
  /\ task \in [Logins -> {"none", "serving", "reloading", "clearing", "ended"}]
  /\ outcome \in [Logins -> Results \cup {"none"}]
  /\ shutdown \in [Logins -> BOOLEAN]
  /\ active \in 0..MaxLogins
  /\ signedIn \in BOOLEAN
  /\ wire \in Seq([type : {"started", "completed"}, login : Logins, result : Results])
  /\ reading \in BOOLEAN
  /\ starter \in [Logins -> {"idle", "asking", "answered", "listing", "served", "error"}]
  /\ listed \in [Logins -> BOOLEAN]
  /\ queue \in [Logins -> Seq(Items)]
  /\ early \in [Logins -> Seq(Results)]
  /\ attempts \in 0..MaxLogins
  /\ state \in [Logins -> {"none", "pending", "succeeded", "failed"}]
  /\ waiter \in [Logins -> {"none", "register", "fetch", "get", "done"}]
  /\ tab \in [Logins -> Pages]
  /\ page \in [Logins -> {"off", "asking", "pending", "timer", "account", "with", "without",
                          "connected", "disconnected", "failed", "lost", "dropped"}]
  /\ timer \in [Pages -> 0..MaxLogins]

Init ==
  /\ process = "absent" /\ reading = FALSE
  /\ task = [l \in Logins |-> "none"] /\ outcome = [l \in Logins |-> "none"]
  /\ shutdown = [l \in Logins |-> FALSE]
  /\ active = 0 /\ signedIn = FALSE /\ wire = <<>>
  /\ listed = [l \in Logins |-> FALSE]
  /\ queue = [l \in Logins |-> <<>>] /\ early = [l \in Logins |-> <<>>]
  /\ starter = [l \in Logins |-> "idle"]
  /\ attempts = 0 /\ state = [l \in Logins |-> "none"]
  /\ waiter = [l \in Logins |-> "none"] /\ page = [l \in Logins |-> "off"]
  /\ tab \in {t \in [Logins -> Pages] : \A l \in Logins : t[l] <= l}
  /\ timer = [t \in Pages |-> 0]

-----------------------------------------------------------------------------
(* The app-server                                                          *)

\* Mutant of Replace: dropping the login that is replaced does not stop its
\* callback server.
ReplaceQuietly(l) == active' = l /\ UNCHANGED shutdown
\* The new login takes the place of the active one, whose drop shuts its
\* callback server down.
Replace(l) ==
  /\ active' = l
  /\ shutdown' = [k \in Logins |-> shutdown[k] \/ k = active]

\* account/login/start.  The requests are serialized by the key account-auth.
\* (The /cancel that bind_server sends to a busy port only hastens the end of a
\* login that is about to be replaced, which FinishLogin allows at any time.)
StartLogin(l) ==
  /\ process = "running" /\ starter[l] = "asking" /\ task[l] = "none"
  /\ Replace(l)
  /\ task' = [task EXCEPT ![l] = "serving"]
  /\ wire' = Append(wire, Message("started", l, "ok"))
  /\ UNCHANGED <<process, outcome, signedIn, reading, routerVars, serviceVars, pageVars>>

\* No port to bind, or a configuration that forbids this login.
RefuseLogin(l) ==
  /\ process = "running" /\ starter[l] = "asking" /\ task[l] = "none"
  /\ task' = [task EXCEPT ![l] = "ended"]
  /\ wire' = Append(wire, Message("started", l, "bad"))
  /\ UNCHANGED <<process, outcome, shutdown, active, signedIn, reading, routerVars,
                 serviceVars, pageVars>>

\* The callback server ends: the browser came back, the login was told to stop
\* (it may be past that point), or ten minutes have gone by.  The completion is
\* sent before the new credentials are loaded.
FinishLogin(l, result) ==
  /\ process = "running" /\ task[l] = "serving"
  /\ outcome' = [outcome EXCEPT ![l] = result]
  /\ task' = [task EXCEPT ![l] = IF result = "ok" THEN "reloading" ELSE "clearing"]
  /\ wire' = Append(wire, Message("completed", l, result))
  /\ UNCHANGED <<process, shutdown, active, signedIn, reading, routerVars,
                 serviceVars, pageVars>>

Reload(l) ==
  /\ process = "running" /\ task[l] = "reloading"
  /\ signedIn' = TRUE
  /\ task' = [task EXCEPT ![l] = "clearing"]
  /\ UNCHANGED <<process, outcome, shutdown, active, wire, reading, routerVars,
                 serviceVars, pageVars>>

\* Mutant of ClearActive: clears it whoever it belongs to.
ClearActiveAlways(l) == active' = 0
ClearActive(l) == active' = IF active = l THEN 0 ELSE active

\* The end of the login's task.  Setting the guard to None drops an ActiveLogin,
\* and so stops the callback server of whatever login it held.
EndLogin(l) ==
  /\ process = "running" /\ task[l] = "clearing"
  /\ ClearActive(l)
  /\ shutdown' = [k \in Logins |-> shutdown[k] \/ (k = active /\ active' = 0)]
  /\ task' = [task EXCEPT ![l] = "ended"]
  /\ UNCHANGED <<process, outcome, signedIn, wire, reading, routerVars, serviceVars, pageVars>>

\* What it had written stays in the pipe.
ProcessDies ==
  /\ process = "running"
  /\ process' = "gone"
  /\ UNCHANGED <<serverVars, wire, reading, routerVars, serviceVars, pageVars>>

-----------------------------------------------------------------------------
(* The SDK's reader thread and router                                      *)

\* Mutant of RouteEarly: a completion nobody has registered for is dropped, as
\* route_notification does with turn/completed.
RouteEarlyDrops(l, result) == UNCHANGED routerVars
\* route_notification for a login that has no queue yet.
RouteEarly(l, result) ==
  /\ early' = [early EXCEPT ![l] = Append(@, result)]
  /\ UNCHANGED <<listed, queue>>

Route ==
  /\ reading /\ wire # <<>>
  /\ wire' = Tail(wire)
  /\ LET m == Head(wire)
     IN \/ /\ m.type = "started"
           /\ starter' = [starter EXCEPT ![m.login] =
                            IF m.result = "ok" THEN "answered" ELSE "error"]
           /\ UNCHANGED routerVars
        \/ /\ m.type = "completed" /\ listed[m.login]
           /\ queue' = [queue EXCEPT ![m.login] = Append(@, m.result)]
           /\ UNCHANGED <<starter, listed, early>>
        \/ /\ m.type = "completed" /\ ~listed[m.login]
           /\ RouteEarly(m.login, m.result)
           /\ UNCHANGED starter
  /\ UNCHANGED <<process, serverVars, reading, attempts, state, waiter, pageVars>>

\* End of file: fail_all.  Pending notifications are forgotten.
FailAll ==
  /\ reading /\ process = "gone" /\ wire = <<>>
  /\ reading' = FALSE
  /\ starter' = [l \in Logins |-> IF starter[l] = "asking" THEN "error" ELSE starter[l]]
  /\ queue' = [l \in Logins |-> IF listed[l] THEN Append(queue[l], "closed") ELSE queue[l]]
  /\ listed' = [l \in Logins |-> FALSE]
  /\ early' = [l \in Logins |-> <<>>]
  /\ UNCHANGED <<process, serverVars, wire, attempts, state, waiter, pageVars>>

\* register_login: nothing when the login has a queue; else a new one, which
\* the notifications that came early go to.
Register(l) ==
  IF listed[l] THEN UNCHANGED routerVars
  ELSE /\ listed' = [listed EXCEPT ![l] = TRUE]
       /\ queue' = [queue EXCEPT ![l] = early[l]]
       /\ early' = [early EXCEPT ![l] = <<>>]

-----------------------------------------------------------------------------
(* NativeAuthService                                                       *)

\* start_chatgpt_login up to the wait for the response.  _ensure_client starts
\* the process the first time only; a write to one that is gone raises.  The
\* page has its button disabled until an earlier click was answered.
Enabled(l) ==
  \A k \in 1..(l - 1) : /\ starter[k] # "idle"
                        /\ tab[k] = tab[l] => starter[k] = "error" \/ page[k] # "off"
ClickLogin(l) ==
  /\ starter[l] = "idle" /\ Enabled(l)
  /\ starter' = [starter EXCEPT ![l] = IF process = "gone" THEN "error" ELSE "asking"]
  /\ process' = IF process = "absent" THEN "running" ELSE process
  /\ reading' = (reading \/ process = "absent")
  /\ UNCHANGED <<serverVars, wire, routerVars, attempts, state, waiter, pageVars>>

\* The process does not start or does not answer initialize.
ClickFails(l) ==
  /\ starter[l] = "idle" /\ Enabled(l) /\ process = "absent"
  /\ starter' = [starter EXCEPT ![l] = "error"]
  /\ UNCHANGED <<process, serverVars, wire, reading, routerVars, attempts, state,
                 waiter, pageVars>>

\* The end of account_login_start.
ListLogin(l) ==
  /\ starter[l] = "answered"
  /\ Register(l)
  /\ starter' = [starter EXCEPT ![l] = "listing"]
  /\ UNCHANGED <<process, serverVars, wire, reading, attempts, state, waiter, pageVars>>

\* The attempt replaces all others, its waiter starts and the page is answered.
PublishAttempt(l) ==
  /\ starter[l] = "listing"
  /\ attempts' = l
  /\ state' = [state EXCEPT ![l] = "pending"]
  /\ starter' = [starter EXCEPT ![l] = "served"]
  /\ waiter' = [waiter EXCEPT ![l] = "register"]
  /\ UNCHANGED <<process, serverVars, wire, reading, routerVars, pageVars>>

WaiterRegisters(l) ==
  /\ waiter[l] = "register"
  /\ Register(l)
  /\ waiter' = [waiter EXCEPT ![l] = "fetch"]
  /\ UNCHANGED <<process, serverVars, wire, reading, starter, attempts, state, pageVars>>

\* Mutant of Fail: the thread dies of the exception.
FailQuietly(l) == UNCHANGED state
\* The except branch of _wait_for_login.
Fail(l) == state' = [state EXCEPT ![l] = "failed"]

\* next_login_notification looks its queue up; without one it raises.
WaiterFetches(l) ==
  /\ waiter[l] = "fetch"
  /\ IF listed[l]
     THEN /\ waiter' = [waiter EXCEPT ![l] = "get"]
          /\ UNCHANGED state
     ELSE /\ waiter' = [waiter EXCEPT ![l] = "done"]
          /\ Fail(l)
  /\ UNCHANGED <<process, serverVars, wire, reading, routerVars, starter, attempts, pageVars>>

\* Mutant of StateOf: the result is stored as it is.
StateOfRaw(result) == result
StateOf(result) == IF result = "ok" THEN "succeeded" ELSE "failed"

\* queue.get() returns; the login is unregistered and the attempt settled.
WaiterGets(l) ==
  /\ waiter[l] = "get" /\ queue[l] # <<>>
  /\ queue' = [queue EXCEPT ![l] = Tail(@)]
  /\ listed' = [listed EXCEPT ![l] = FALSE]
  /\ waiter' = [waiter EXCEPT ![l] = "done"]
  /\ IF Head(queue[l]) = "closed"
     THEN Fail(l)
     ELSE state' = [state EXCEPT ![l] = StateOf(Head(queue[l]))]
  /\ UNCHANGED <<process, serverVars, wire, reading, early, starter, attempts, pageVars>>

-----------------------------------------------------------------------------
(* The page                                                                *)

OnlyPages == UNCHANGED <<process, serverVars, wire, reading, routerVars, serviceVars>>
Show(l, view) == page' = [page EXCEPT ![l] = view] /\ UNCHANGED <<tab, timer>> /\ OnlyPages

\* The start of pollLogin: whatever timer loginPollTimer names is cleared, which
\* may be that of another login, and the request is sent.  A chain whose timer
\* is cleared before it fires has ended, with nothing shown.
BeginPoll(l) ==
  /\ page' = [k \in Logins |-> IF k = l THEN "asking"
                              ELSE IF timer[tab[l]] = k /\ page[k] = "timer" THEN "dropped"
                              ELSE page[k]]
  /\ UNCHANGED <<tab, timer>>
  /\ OnlyPages

\* startLogin gets the login's id; the timer of a login fires.
StartPolling(l) == starter[l] = "served" /\ page[l] = "off" /\ BeginPoll(l)
TimerFires(l) == page[l] = "timer" /\ BeginPoll(l)

\* The first half of login_status, under the lock.  An attempt that was
\* replaced is a 404, which ends the chain.
Poll(l) ==
  /\ page[l] = "asking"
  /\ \/ attempts # l /\ Show(l, "lost")
     \/ attempts = l /\ state[l] = "succeeded" /\ Show(l, "account")
     \/ attempts = l /\ state[l] = "failed" /\ Show(l, "failed")
     \/ attempts = l /\ state[l] = "pending" /\ Show(l, "pending")

\* The page learns that the login was pending, and sets the timer anew.
SetTimer(l) ==
  /\ page[l] = "pending"
  /\ page' = [page EXCEPT ![l] = "timer"]
  /\ timer' = [timer EXCEPT ![tab[l]] = l]
  /\ UNCHANGED tab
  /\ OnlyPages

\* The other half, for a login that succeeded: status() asks the app-server.
ReadAccount(l) ==
  /\ page[l] = "account"
  /\ \/ process = "running" /\ Show(l, IF signedIn THEN "with" ELSE "without")
     \/ process = "gone" /\ Show(l, "lost")

\* checkAccount asks for the account once more, and is not repeated.
CheckAccount(l) ==
  /\ page[l] \in {"with", "without"}
  /\ Show(l, IF process = "running" /\ signedIn THEN "connected" ELSE "disconnected")

-----------------------------------------------------------------------------
Server(l) ==
  \/ StartLogin(l) \/ RefuseLogin(l) \/ Reload(l) \/ EndLogin(l)
  \/ \E result \in Results : FinishLogin(l, result)
Service(l) ==
  \/ ListLogin(l) \/ PublishAttempt(l)
  \/ WaiterRegisters(l) \/ WaiterFetches(l) \/ WaiterGets(l)
Browser(l) ==
  \/ StartPolling(l) \/ TimerFires(l) \/ Poll(l) \/ SetTimer(l)
  \/ ReadAccount(l) \/ CheckAccount(l)

Next ==
  \/ \E l \in Logins :
       Server(l) \/ Service(l) \/ Browser(l) \/ ClickLogin(l) \/ ClickFails(l)
  \/ ProcessDies \/ Route \/ FailAll

Spec == Init /\ [][Next]_vars

\* Threads and tasks run when they can, a login ends after ten minutes at the
\* latest, and pages go on polling.  Nobody has to click, nothing has to die.
Fairness ==
  /\ WF_vars(Route) /\ WF_vars(FailAll)
  /\ \A l \in Logins : WF_vars(Server(l)) /\ WF_vars(Service(l)) /\ WF_vars(Browser(l))
FairSpec == Spec /\ Fairness

-----------------------------------------------------------------------------
(* Properties                                                              *)

\* Two clicks never leave two callback servers: every login that still serves
\* callbacks and is not the active one has been told to stop.
OneLoginServes ==
  \A l \in Logins : process = "running" /\ task[l] = "serving" /\ ~shutdown[l] => active = l

\* A login that waits for its browser is stopped only by a newer one: the end of
\* a replaced login, however late, does not stop the login that replaced it
\* ("it may have been replaced or cancelled", account_processor.rs).
OnlyNewerStops ==
  [][\A l \in Logins : task[l] = "serving" /\ ~shutdown[l] /\ shutdown'[l]
                         => active' \notin {0, l}]_vars

\* While the connection lives, a completion the reader has taken is never lost,
\* however early it comes: it waits with the router, it is in the login's own
\* queue, or the attempt has settled with that result.  And no attempt is ever
\* reported as succeeded unless its own login did.
CompletionKept ==
  \A l \in Logins :
    /\ reading /\ outcome[l] # "none" /\ Message("completed", l, outcome[l]) \notin ToSet(wire)
         => \/ early[l] = <<outcome[l]>>
            \/ queue[l] = <<outcome[l]>> /\ listed[l]
            \/ state[l] = StateOf(outcome[l])
    /\ state[l] = "succeeded" => outcome[l] = "ok"

\* The connection died after account_login_start had registered the login and
\* before its waiter did: the waiter has registered a queue nobody will fill.
Stranded(l) == ~reading /\ waiter[l] = "get" /\ queue[l] = <<>>

\* Another login was clicked on the same page and has been polled there.
SharesTimer(l) == \E k \in Logins \ {l} : tab[k] = tab[l] /\ page[k] # "off"

\* Every click is answered, and the page goes on asking until it shows how the
\* attempt ended.  It stops before that only for a reason that can be named: the
\* attempt was replaced or the process is gone, another login of the same page
\* cleared the timer, or the attempt is stranded.
LoginsSettle ==
  \A l \in Logins : starter[l] # "idle"
    ~> \/ starter[l] = "error"
       \/ page[l] \in {"connected", "disconnected", "failed"}
       \/ page[l] = "lost" /\ (attempts # l \/ process = "gone")
       \/ page[l] = "dropped" /\ SharesTimer(l)
       \/ Stranded(l)

-----------------------------------------------------------------------------
(* What docs, tests and the page promise and the code does not keep        *)

\* fail_all puts the failure into every queue "so no SDK call blocks forever
\* waiting for a response that cannot arrive" (_message_router.py).
NoCallBlocksForever == \A l \in Logins : ~Stranded(l)

\* The account that comes with a login that succeeded is signed in
\* (test_auth_service.py asserts it).
AccountComesWithSuccess == \A l \in Logins : page[l] # "without"

\* While an attempt is the current one and pending, the page that shows "Waiting
\* for ChatGPT sign-in" (home.js) does wait: its polls have not been given up.
PageWaits == \A l \in Logins : attempts = l /\ state[l] = "pending" => page[l] # "dropped"
=============================================================================
