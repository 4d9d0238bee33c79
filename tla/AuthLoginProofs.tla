-------------------------- MODULE AuthLoginProofs --------------------------
(***************************************************************************)
(* The safety of AuthLogin for any number of logins.  Types come first,    *)
(* then the app-server's active login, which needs no more than its type,  *)
(* and last the way of a completion from the app-server to the attempt.    *)
(***************************************************************************)
EXTENDS AuthLogin, SequenceTheorems, TLAPS

Messages == [type : {"started", "completed"}, login : Logins, result : Results]

-----------------------------------------------------------------------------
(* Types                                                                   *)

\* Nothing is started, and everything has its type.
LEMMA TypeInit == Init => TypeOK
<1> SUFFICES ASSUME Init PROVE TypeOK
  OBVIOUS
<1>1. /\ wire \in Seq(Messages)
      /\ queue \in [Logins -> Seq(Items)]
      /\ early \in [Logins -> Seq(Results)]
  BY DEF Init
<1>2. active \in 0..MaxLogins /\ attempts \in 0..MaxLogins
  BY LoginsAssumption DEF Init
<1>3. signedIn \in BOOLEAN /\ reading \in BOOLEAN
  BY DEF Init
<1>4. shutdown \in [Logins -> BOOLEAN] /\ listed \in [Logins -> BOOLEAN]
  BY DEF Init
<1>5. tab \in [Logins -> Pages] /\ timer \in [Pages -> 0..MaxLogins]
  BY LoginsAssumption DEF Init
<1> QED
  BY <1>1, <1>2, <1>3, <1>4, <1>5 DEF Init, TypeOK, Messages

\* What account/login/start and the end of a login put on the wire.
LEMMA MessageType ==
  ASSUME NEW t \in {"started", "completed"}, NEW l \in Logins, NEW r \in Results
  PROVE  Message(t, l, r) \in Messages
  BY DEF Message, Messages

\* Registering keeps the types of the router.
LEMMA RegisterType ==
  ASSUME TypeOK, NEW l \in Logins, Register(l)
  PROVE  /\ listed' \in [Logins -> BOOLEAN]
         /\ queue' \in [Logins -> Seq(Items)]
         /\ early' \in [Logins -> Seq(Results)]
<1> USE DEF TypeOK
<1>1. CASE listed[l]
  BY <1>1 DEF Register, routerVars
<1>2. CASE ~listed[l]
  <2>1. early[l] \in Seq(Items)
    BY SeqMonotonic DEF Items
  <2>2. <<>> \in Seq(Results)
    OBVIOUS
  <2> QED
    BY <1>2, <2>1, <2>2 DEF Register
<1> QED
  BY <1>1, <1>2

\* Every step of the app-server keeps the types.
LEMMA ServerType ==
  ASSUME TypeOK, NEW l \in Logins, Server(l)
  PROVE  TypeOK'
<1> USE LoginsAssumption DEF TypeOK, serverVars, routerVars, serviceVars, pageVars
<1> USE MessageType DEF Messages
<1>a. ASSUME NEW m \in Messages PROVE Append(wire, m) \in Seq(Messages)
  OBVIOUS
<1>b. Message("started", l, "ok") \in Messages /\ Message("started", l, "bad") \in Messages
  BY DEF Results
<1>1. CASE StartLogin(l)
  <2>1. wire' \in Seq(Messages)
    BY <1>1, <1>a, <1>b DEF StartLogin
  <2>2. active' \in 0..MaxLogins
    BY <1>1 DEF StartLogin, Replace, Logins
  <2>3. shutdown' \in [Logins -> BOOLEAN]
    BY <1>1 DEF StartLogin, Replace
  <2> QED
    BY <1>1, <2>1, <2>2, <2>3 DEF StartLogin
<1>2. CASE RefuseLogin(l)
  <2>1. wire' \in Seq(Messages)
    BY <1>2, <1>a, <1>b DEF RefuseLogin
  <2> QED
    BY <1>2, <2>1 DEF RefuseLogin
<1>3. CASE Reload(l)
  BY <1>3 DEF Reload, Logins
<1>4. CASE EndLogin(l)
  <2>1. active' \in 0..MaxLogins
    BY <1>4 DEF EndLogin, ClearActive
  <2>2. shutdown' \in [Logins -> BOOLEAN]
    BY <1>4 DEF EndLogin
  <2> QED
    BY <1>4, <2>1, <2>2 DEF EndLogin
<1>5. ASSUME NEW r \in Results, FinishLogin(l, r) PROVE TypeOK'
  <2>1. wire' \in Seq(Messages)
    BY <1>5, <1>a DEF FinishLogin
  <2>2. /\ outcome' \in [Logins -> Results \cup {"none"}]
        /\ task' \in [Logins -> {"none", "serving", "reloading", "clearing", "ended"}]
    BY <1>5 DEF FinishLogin
  <2> QED
    BY <1>5, <2>1, <2>2 DEF FinishLogin
<1> QED
  BY <1>1, <1>2, <1>3, <1>4, <1>5 DEF Server

\* So does every step of the threads of the service.
LEMMA ServiceType ==
  ASSUME TypeOK, NEW l \in Logins, Service(l)
  PROVE  TypeOK'
<1> USE DEF TypeOK, serverVars, pageVars
<1>1. CASE ListLogin(l)
  BY <1>1, RegisterType DEF ListLogin
<1>2. CASE PublishAttempt(l)
  BY <1>2, LoginsAssumption DEF PublishAttempt, routerVars, Logins
<1>3. CASE WaiterRegisters(l)
  BY <1>3, RegisterType DEF WaiterRegisters
<1>4. CASE WaiterFetches(l)
  <2>0. \/ waiter' = [waiter EXCEPT ![l] = "get"]
        \/ waiter' = [waiter EXCEPT ![l] = "done"]
    BY <1>4, Zenon DEF WaiterFetches
  <2>1. waiter' \in [Logins -> {"none", "register", "fetch", "get", "done"}]
    BY <2>0
  <2>2. state' \in [Logins -> {"none", "pending", "succeeded", "failed"}]
    BY <1>4 DEF WaiterFetches, Fail
  <2>3. UNCHANGED <<process, serverVars, wire, reading, routerVars, starter, attempts, pageVars>>
    BY <1>4 DEF WaiterFetches
  <2> QED
    BY <2>1, <2>2, <2>3 DEF routerVars
<1>5. CASE WaiterGets(l)
  <2>1. queue' \in [Logins -> Seq(Items)]
    BY <1>5 DEF WaiterGets
  <2>2. state' \in [Logins -> {"none", "pending", "succeeded", "failed"}]
    BY <1>5 DEF WaiterGets, Fail, StateOf
  <2> QED
    BY <1>5, <2>1, <2>2 DEF WaiterGets
<1> QED
  BY <1>1, <1>2, <1>3, <1>4, <1>5 DEF Service

\* A page moves nothing but its own chains of polls.
LEMMA BrowserStep == ASSUME NEW l \in Logins, Browser(l) PROVE OnlyPages
  BY DEF Browser, StartPolling, TimerFires, BeginPoll, Poll, SetTimer, ReadAccount,
         CheckAccount, Show

\* And those keep their types.
LEMMA BrowserType ==
  ASSUME TypeOK, NEW l \in Logins, Browser(l)
  PROVE  TypeOK'
<1> USE DEF TypeOK
<1> DEFINE Views == {"off", "asking", "pending", "timer", "account", "with", "without",
                     "connected", "disconnected", "failed", "lost", "dropped"}
<1>1. ASSUME NEW v \in Views, Show(l, v)
      PROVE  page' \in [Logins -> Views] /\ UNCHANGED <<tab, timer>>
  BY <1>1 DEF Show
<1>2. CASE BeginPoll(l)
  BY <1>2, BrowserStep DEF BeginPoll, OnlyPages, serverVars, routerVars, serviceVars
<1>3. CASE SetTimer(l)
  <2>1. timer' \in [Pages -> 0..MaxLogins]
    BY <1>3, LoginsAssumption DEF SetTimer, Logins
  <2>2. page' \in [Logins -> Views] /\ UNCHANGED tab
    BY <1>3 DEF SetTimer
  <2> QED
    BY <2>1, <2>2, BrowserStep DEF OnlyPages, serverVars, routerVars, serviceVars
<1>4. CASE Poll(l) \/ ReadAccount(l) \/ CheckAccount(l)
  <2>1. page' \in [Logins -> Views] /\ UNCHANGED <<tab, timer>>
    <3>1. \E v \in Views : Show(l, v)
      BY <1>4 DEF Poll, ReadAccount, CheckAccount
    <3> QED
      BY <1>1, <3>1
  <2> QED
    BY <2>1, BrowserStep DEF OnlyPages, serverVars, routerVars, serviceVars
<1> QED
  BY <1>2, <1>3, <1>4 DEF Browser, StartPolling, TimerFires

\* And everybody else: the reader and the clicks.
LEMMA TypeStep == TypeOK /\ [Next]_vars => TypeOK'
<1> SUFFICES ASSUME TypeOK, [Next]_vars PROVE TypeOK'
  OBVIOUS
<1> USE DEF TypeOK, pageVars
<1>1. CASE Route
  <2> DEFINE m == Head(wire)
  <2>1. m \in Messages /\ Tail(wire) \in Seq(Messages)
    <3>1. wire \in Seq(Messages) /\ wire # <<>>
      BY <1>1 DEF Route, Messages
    <3> QED
      BY <3>1, HeadTailProperties
  <2>2. m.login \in Logins /\ m.result \in Results /\ m.result \in Items
    BY <2>1 DEF Messages, Items
  <2> HIDE DEF m
  <2>3. CASE /\ starter' = [starter EXCEPT ![m.login] =
                              IF m.result = "ok" THEN "answered" ELSE "error"]
             /\ UNCHANGED routerVars
    BY <1>1, <2>1, <2>2, <2>3 DEF Route, routerVars, serverVars, Messages
  <2>4. CASE /\ queue' = [queue EXCEPT ![m.login] = Append(@, m.result)]
             /\ UNCHANGED <<starter, listed, early>>
    <3>0. Append(queue[m.login], m.result) \in Seq(Items)
      BY <2>2
    <3>1. queue' \in [Logins -> Seq(Items)]
      BY <2>2, <2>4, <3>0
    <3>2. wire' \in Seq(Messages)
      BY <1>1, <2>1 DEF Route, m
    <3>3. UNCHANGED <<process, serverVars, reading, attempts, state, waiter, pageVars>>
      BY <1>1 DEF Route
    <3> QED
      BY <2>4, <3>1, <3>2, <3>3 DEF serverVars, Messages
  <2>5. CASE RouteEarly(m.login, m.result) /\ UNCHANGED starter
    <3>0. Append(early[m.login], m.result) \in Seq(Results)
      BY <2>2
    <3>1. early' \in [Logins -> Seq(Results)]
      BY <2>2, <2>5, <3>0 DEF RouteEarly
    <3>2. wire' \in Seq(Messages)
      BY <1>1, <2>1 DEF Route, m
    <3>3. UNCHANGED <<process, serverVars, reading, attempts, state, waiter, pageVars>>
      BY <1>1 DEF Route
    <3> QED
      BY <2>5, <3>1, <3>2, <3>3 DEF RouteEarly, serverVars, Messages
  <2> QED
    BY <1>1, <2>3, <2>4, <2>5 DEF Route, m
<1>2. CASE FailAll
  <2>1. queue' \in [Logins -> Seq(Items)]
    BY <1>2 DEF FailAll, Items
  <2>2. early' \in [Logins -> Seq(Results)]
    BY <1>2 DEF FailAll
  <2>3. listed' \in [Logins -> BOOLEAN] /\ reading' \in BOOLEAN
    BY <1>2 DEF FailAll
  <2>4. starter' \in [Logins -> {"idle", "asking", "answered", "listing", "served", "error"}]
    BY <1>2 DEF FailAll
  <2> QED
    BY <1>2, <2>1, <2>2, <2>3, <2>4 DEF FailAll, serverVars
<1>3. CASE ProcessDies
  BY <1>3 DEF ProcessDies, serverVars, routerVars, serviceVars
<1>4. ASSUME NEW l \in Logins, ClickLogin(l) \/ ClickFails(l) PROVE TypeOK'
  BY <1>4 DEF ClickLogin, ClickFails, serverVars, routerVars
<1>5. CASE UNCHANGED vars
  BY <1>5 DEF vars, serverVars, routerVars, serviceVars
<1> QED
  BY <1>1, <1>2, <1>3, <1>4, <1>5, ServerType, ServiceType, BrowserType DEF Next

\* Every variable keeps its type, for any number of logins.
THEOREM TypeCorrect == Spec => []TypeOK
  BY TypeInit, TypeStep, PTL DEF Spec

-----------------------------------------------------------------------------
(* The active login of the app-server                                      *)

\* OneLoginServes, whether or not the process still runs.
StopsOthers == \A l \in Logins : task[l] = "serving" /\ ~shutdown[l] => active = l

\* Only the start and the end of a login touch what StopsOthers is about, and
\* the end of one that was replaced leaves the slot to the login in it.
LEMMA StopsOthersStep == TypeOK /\ StopsOthers /\ [Next]_vars => StopsOthers'
<1> SUFFICES ASSUME TypeOK, StopsOthers, [Next]_vars PROVE StopsOthers'
  OBVIOUS
<1> USE DEF TypeOK, StopsOthers
<1>1. ASSUME NEW l \in Logins, StartLogin(l) PROVE StopsOthers'
  BY <1>1 DEF StartLogin, Replace
<1>2. ASSUME NEW l \in Logins, EndLogin(l) PROVE StopsOthers'
  BY <1>2 DEF EndLogin, ClearActive
<1>3. ASSUME NEW l \in Logins,
             RefuseLogin(l) \/ Reload(l) \/ \E r \in Results : FinishLogin(l, r)
      PROVE  StopsOthers'
  BY <1>3 DEF RefuseLogin, Reload, FinishLogin
<1>4. CASE UNCHANGED serverVars
  BY <1>4 DEF serverVars
<1>5. ASSUME NEW l \in Logins,
             Service(l) \/ Browser(l) \/ ClickLogin(l) \/ ClickFails(l)
      PROVE  UNCHANGED serverVars
  BY <1>5, BrowserStep DEF OnlyPages, Service, ListLogin, PublishAttempt, WaiterRegisters,
                           WaiterFetches, WaiterGets, ClickLogin, ClickFails
<1>6. ProcessDies \/ Route \/ FailAll \/ UNCHANGED vars => UNCHANGED serverVars
  BY DEF ProcessDies, Route, FailAll, vars
<1> QED
  BY <1>1, <1>2, <1>3, <1>4, <1>5, <1>6 DEF Next, Server

\* Both facts hold throughout.
LEMMA StopsOthersHolds == Spec => [](TypeOK /\ StopsOthers)
<1>1. Init => StopsOthers
  BY DEF Init, StopsOthers
<1> QED
  BY <1>1, TypeInit, TypeStep, StopsOthersStep, PTL DEF Spec

\* However many sign-ins are clicked and however late replaced logins end, at
\* most one callback server has not been told to stop, that of active_login.
THEOREM OneLoginServesHolds == Spec => []OneLoginServes
<1>1. StopsOthers => OneLoginServes
  BY DEF StopsOthers, OneLoginServes
<1> QED
  BY <1>1, StopsOthersHolds, PTL

\* The end of a login never shuts down the callback server of another one.
THEOREM OnlyNewerStopsHolds == Spec => OnlyNewerStops
<1> DEFINE Newer == \A l \in Logins : task[l] = "serving" /\ ~shutdown[l] /\ shutdown'[l]
                                        => active' \notin {0, l}
<1>1. TypeOK /\ StopsOthers /\ [Next]_vars => [Newer]_vars
  <2> SUFFICES ASSUME TypeOK, StopsOthers, Next PROVE Newer
    OBVIOUS
  <2> USE DEF TypeOK
  <2>1. ASSUME NEW l \in Logins, StartLogin(l) PROVE Newer
    BY <2>1, LoginsAssumption DEF StartLogin, Replace, Logins
  <2>2. ASSUME NEW l \in Logins, EndLogin(l) PROVE Newer
    BY <2>2, LoginsAssumption DEF EndLogin, ClearActive, Logins
  <2>3. CASE UNCHANGED shutdown
    BY <2>3
  <2>4. ASSUME NEW l \in Logins,
               \/ RefuseLogin(l) \/ Reload(l) \/ \E r \in Results : FinishLogin(l, r)
               \/ Service(l) \/ Browser(l) \/ ClickLogin(l) \/ ClickFails(l)
        PROVE  UNCHANGED shutdown
    BY <2>4, BrowserStep DEF RefuseLogin, Reload, FinishLogin, serverVars,
                Service, ListLogin, PublishAttempt, WaiterRegisters, WaiterFetches, WaiterGets,
                OnlyPages, ClickLogin, ClickFails
  <2>5. ProcessDies \/ Route \/ FailAll => UNCHANGED shutdown
    BY DEF ProcessDies, Route, FailAll, serverVars
  <2> QED
    BY <2>1, <2>2, <2>3, <2>4, <2>5 DEF Next, Server
<1> QED
  BY <1>1, StopsOthersHolds, PTL DEF Spec, OnlyNewerStops

-----------------------------------------------------------------------------
(* The way of a completion                                                 *)

OnWire(l) == \E i \in 1..Len(wire) : wire[i].type = "completed" /\ wire[i].login = l
\* The reader has taken the completion off the wire.
Arrived(l) == outcome[l] # "none" /\ ~OnWire(l)

\* One message of each kind for each login, and what it says is so.
WireIsSound ==
  /\ \A i \in 1..Len(wire) : wire[i].type = "started" =>
       starter[wire[i].login] = "asking" /\ task[wire[i].login] # "none"
  /\ \A i \in 1..Len(wire) : wire[i].type = "completed" =>
       outcome[wire[i].login] = wire[i].result
  /\ \A i, j \in 1..Len(wire) :
       wire[i].type = wire[j].type /\ wire[i].login = wire[j].login => i = j

\* A process is started once.  Before that there is nothing.
Connection ==
  /\ process = "absent" =>
       /\ wire = <<>> /\ ~reading
       /\ \A l \in Logins : task[l] = "none" /\ starter[l] \in {"idle", "error"}
  /\ process = "running" => reading
  /\ ~reading => wire = <<>> /\ \A l \in Logins : early[l] = <<>>

\* How far a login has come in the app-server, in the handler and in the waiter.
Order(l) ==
  /\ task[l] \in {"none", "serving"} => outcome[l] = "none"
  /\ starter[l] = "idle" => task[l] = "none"
  /\ starter[l] \notin {"listing", "served"} => ~listed[l] /\ queue[l] = <<>>
  /\ starter[l] = "served" <=> waiter[l] # "none"
  /\ waiter[l] = "none" => state[l] = "none"
  /\ waiter[l] \in {"register", "fetch", "get"} => state[l] = "pending"
  /\ waiter[l] = "done" => ~listed[l]
  /\ reading /\ starter[l] \in {"listing", "served"} /\ waiter[l] # "done" => listed[l]

\* What is in the queue, or was taken from it, is what the login ended with.
Genuine(l) ==
  /\ \A i \in 1..Len(queue[l]) : queue[l][i] \in {"closed", outcome[l]}
  /\ state[l] = "succeeded" => outcome[l] = "ok"

\* While the connection lives, the completion is in one place.
Place(l) ==
  reading =>
    \/ ~Arrived(l) /\ early[l] = <<>> /\ queue[l] = <<>> /\ waiter[l] # "done"
    \/ /\ Arrived(l)
       /\ \/ early[l] = <<outcome[l]>> /\ queue[l] = <<>> /\ ~listed[l] /\ waiter[l] # "done"
          \/ early[l] = <<>> /\ queue[l] = <<outcome[l]>> /\ listed[l] /\ waiter[l] # "done"
          \/ /\ early[l] = <<>> /\ queue[l] = <<>> /\ waiter[l] = "done"
             /\ state[l] = StateOf(outcome[l])

Delivery ==
  /\ WireIsSound
  /\ Connection
  /\ \A l \in Logins : Order(l) /\ Genuine(l) /\ Place(l)

\* Before the first click.
LEMMA DeliveryInit == Init => Delivery
<1> SUFFICES ASSUME Init PROVE Delivery
  OBVIOUS
<1>1. WireIsSound /\ Connection
  BY DEF Init, WireIsSound, Connection
<1>2. ASSUME NEW l \in Logins PROVE Order(l) /\ Genuine(l) /\ Place(l)
  BY DEF Init, Order, Genuine, Place
<1> QED
  BY <1>1, <1>2 DEF Delivery

\* A message behind the others: it is the only new one.
LEMMA AppendWire ==
  ASSUME TypeOK, NEW m \in Messages, wire' = Append(wire, m)
  PROVE  /\ Len(wire') = Len(wire) + 1
         /\ wire'[Len(wire) + 1] = m
         /\ \A i \in 1..Len(wire) : wire'[i] = wire[i]
         /\ \A k \in Logins :
              OnWire(k)' <=> OnWire(k) \/ (m.type = "completed" /\ m.login = k)
<1>1. wire \in Seq(Messages)
  BY DEF TypeOK, Messages
<1>2. /\ Len(wire') = Len(wire) + 1
      /\ wire'[Len(wire) + 1] = m
      /\ \A i \in 1..Len(wire) : wire'[i] = wire[i]
  BY <1>1, AppendProperties
<1> QED
  BY <1>1, <1>2 DEF OnWire

\* The first message is taken off; a completion is then no longer there.
LEMMA TailWire ==
  ASSUME TypeOK, WireIsSound, wire # <<>>, wire' = Tail(wire)
  PROVE  /\ Head(wire) \in Messages /\ Head(wire) = wire[1] /\ 1 \in 1..Len(wire)
         /\ Len(wire') = Len(wire) - 1
         /\ \A i \in 1..Len(wire') : i + 1 \in 1..Len(wire) /\ wire'[i] = wire[i + 1]
         /\ \A k \in Logins :
              OnWire(k)' <=> OnWire(k) /\ ~(wire[1].type = "completed" /\ wire[1].login = k)
<1>1. wire \in Seq(Messages)
  BY DEF TypeOK, Messages
<1>2. /\ Head(wire) \in Messages /\ Head(wire) = wire[1] /\ 1 \in 1..Len(wire)
      /\ Len(wire') = Len(wire) - 1
      /\ \A i \in 1..Len(wire') : i + 1 \in 1..Len(wire) /\ wire'[i] = wire[i + 1]
  BY <1>1, HeadTailProperties
<1>3. ASSUME NEW k \in Logins, OnWire(k)'
      PROVE  OnWire(k) /\ ~(wire[1].type = "completed" /\ wire[1].login = k)
  BY <1>1, <1>2, <1>3 DEF OnWire, WireIsSound
<1>4. ASSUME NEW k \in Logins, OnWire(k), ~(wire[1].type = "completed" /\ wire[1].login = k)
      PROVE  OnWire(k)'
  <2>1. PICK i \in 1..Len(wire) : wire[i].type = "completed" /\ wire[i].login = k
    BY <1>4 DEF OnWire
  <2>2. i # 1
    BY <1>4, <2>1
  <2>3. i - 1 \in 1..Len(wire') /\ wire'[i - 1] = wire[i]
    BY <1>1, <1>2, <2>2
  <2> QED
    BY <2>1, <2>3 DEF OnWire
<1> QED
  BY <1>2, <1>3, <1>4

\* What a message on the wire is made of.
LEMMA WireTypes ==
  ASSUME TypeOK
  PROVE  /\ Len(wire) \in Nat
         /\ \A i \in 1..Len(wire) : /\ wire[i].type \in {"started", "completed"}
                                   /\ wire[i].login \in Logins
                                   /\ wire[i].result \in Results
<1>1. wire \in Seq(Messages)
  BY DEF TypeOK, Messages
<1>2. \A i \in 1..Len(wire) : wire[i] \in Messages
  BY <1>1, ElementOfSeq
<1> QED
  BY <1>1, <1>2 DEF Messages

\* Steps of the app-server.
LEMMA ServerDelivery ==
  ASSUME TypeOK, Delivery, NEW l \in Logins, Server(l)
  PROVE  Delivery'
<1> USE DEF serverVars, routerVars, serviceVars
<1>0. WireIsSound /\ Connection /\ \A k \in Logins : Order(k) /\ Genuine(k) /\ Place(k)
  BY DEF Delivery
<1>w. /\ Len(wire) \in Nat
      /\ \A i \in 1..Len(wire) : /\ wire[i].type \in {"started", "completed"}
                                /\ wire[i].login \in Logins
                                /\ wire[i].result \in Results
  BY WireTypes
<1>1. ASSUME StartLogin(l) \/ RefuseLogin(l) PROVE Delivery'
  <2>1. PICK r \in Results : wire' = Append(wire, Message("started", l, r))
    BY <1>1 DEF StartLogin, RefuseLogin, Results
  <2> DEFINE m == Message("started", l, r)
  <2>2. m \in Messages /\ m.type = "started" /\ m.login = l
    BY MessageType DEF Message
  <2>3. /\ Len(wire') = Len(wire) + 1
        /\ wire'[Len(wire) + 1] = m
        /\ \A i \in 1..Len(wire) : wire'[i] = wire[i]
        /\ \A k \in Logins : OnWire(k)' <=> OnWire(k)
    BY <2>1, <2>2, AppendWire
  <2> HIDE DEF m
  <2>4. /\ task[l] = "none" /\ task'[l] # "none" /\ starter[l] = "asking"
        /\ \A k \in Logins : k # l => task'[k] = task[k]
        /\ UNCHANGED <<process, outcome, reading, routerVars, serviceVars>>
        /\ process = "running"
    BY <1>1 DEF TypeOK, StartLogin, RefuseLogin
  <2>5. WireIsSound'
    <3>1. \A i \in 1..Len(wire') : i \in 1..Len(wire) \/ i = Len(wire) + 1
      BY <1>w, <2>3
    <3>2. \A i \in 1..Len(wire) : wire[i].login \in Logins /\ (wire[i].type = "started" => wire[i].login # l)
      BY <1>0, <1>w, <2>4 DEF WireIsSound
    <3>3. \A i, j \in 1..Len(wire') :
            wire'[i].type = wire'[j].type /\ wire'[i].login = wire'[j].login => i = j
      BY <1>0, <2>2, <2>3, <3>1, <3>2 DEF WireIsSound
    <3>4. \A i \in 1..Len(wire') : wire'[i].type = "started" =>
            starter'[wire'[i].login] = "asking" /\ task'[wire'[i].login] # "none"
      BY <1>0, <2>2, <2>3, <2>4, <3>1, <3>2 DEF WireIsSound
    <3>5. \A i \in 1..Len(wire') : wire'[i].type = "completed" =>
            outcome'[wire'[i].login] = wire'[i].result
      BY <1>0, <2>2, <2>3, <2>4, <3>1 DEF WireIsSound
    <3> QED
      BY <3>3, <3>4, <3>5 DEF WireIsSound
  <2>6. Connection'
    BY <1>0, <2>4 DEF Connection
  <2>7. ASSUME NEW k \in Logins PROVE Order(k)' /\ Genuine(k)' /\ Place(k)'
    <3>1. Order(k)'
      BY <1>0, <2>4 DEF Order
    <3>2. Genuine(k)' /\ Place(k)'
      BY <1>0, <2>3, <2>4 DEF Genuine, Place, Arrived, StateOf
    <3> QED
      BY <3>1, <3>2
  <2> QED
    BY <2>5, <2>6, <2>7 DEF Delivery
<1>2. ASSUME NEW r \in Results, FinishLogin(l, r) PROVE Delivery'
  <2> DEFINE m == Message("completed", l, r)
  <2>2. m \in Messages /\ m.type = "completed" /\ m.login = l /\ m.result = r
    BY MessageType DEF Message
  <2>3. /\ Len(wire') = Len(wire) + 1
        /\ wire'[Len(wire) + 1] = m
        /\ \A i \in 1..Len(wire) : wire'[i] = wire[i]
        /\ \A k \in Logins : OnWire(k)' <=> OnWire(k) \/ k = l
    BY <1>2, <2>2, AppendWire DEF FinishLogin
  <2> HIDE DEF m
  <2>4. /\ task[l] = "serving" /\ task'[l] \notin {"none", "serving"}
        /\ outcome[l] = "none" /\ outcome'[l] = r /\ r # "none"
        /\ \A k \in Logins : k # l => task'[k] = task[k] /\ outcome'[k] = outcome[k]
        /\ UNCHANGED <<process, reading, routerVars, serviceVars>>
        /\ process = "running"
    BY <1>0, <1>2 DEF TypeOK, FinishLogin, Order, Results
  <2>5. WireIsSound'
    <3>1. \A i \in 1..Len(wire') : i \in 1..Len(wire) \/ i = Len(wire) + 1
      BY <1>w, <2>3
    <3>2. \A i \in 1..Len(wire) : wire[i].login \in Logins /\ wire[i].result # "none"
      BY <1>w DEF Results
    <3>3. \A i \in 1..Len(wire) : wire[i].type = "completed" => wire[i].login # l
      BY <1>0, <2>4, <3>2 DEF WireIsSound
    <3>4. \A i, j \in 1..Len(wire') :
            wire'[i].type = wire'[j].type /\ wire'[i].login = wire'[j].login => i = j
      BY <1>0, <2>2, <2>3, <3>1, <3>3 DEF WireIsSound
    <3>5. \A i \in 1..Len(wire') : wire'[i].type = "started" =>
            starter'[wire'[i].login] = "asking" /\ task'[wire'[i].login] # "none"
      BY <1>0, <2>2, <2>3, <2>4, <3>1, <3>2 DEF WireIsSound
    <3>6. \A i \in 1..Len(wire') : wire'[i].type = "completed" =>
            outcome'[wire'[i].login] = wire'[i].result
      BY <1>0, <2>2, <2>3, <2>4, <3>1, <3>2, <3>3 DEF WireIsSound
    <3> QED
      BY <3>4, <3>5, <3>6 DEF WireIsSound
  <2>6. Connection'
    BY <1>0, <2>4 DEF Connection
  <2>7. ASSUME NEW k \in Logins PROVE Order(k)' /\ Genuine(k)' /\ Place(k)'
    <3>1. Order(k)'
      BY <1>0, <2>4 DEF Order
    <3>2. Place(k)'
      BY <1>0, <2>3, <2>4 DEF Place, Arrived, StateOf
    <3>3. Genuine(k)'
      BY <1>0, <2>4 DEF TypeOK, Genuine, Items, Results
    <3> QED
      BY <3>1, <3>2, <3>3
  <2> QED
    BY <2>5, <2>6, <2>7 DEF Delivery
<1>3. ASSUME Reload(l) \/ EndLogin(l) PROVE Delivery'
  <2>1. /\ task[l] \notin {"none", "serving"} /\ task'[l] \notin {"none", "serving"}
        /\ process = "running"
        /\ \A k \in Logins : k # l => task'[k] = task[k]
        /\ UNCHANGED <<process, outcome, wire, reading, routerVars, serviceVars>>
    BY <1>3 DEF TypeOK, Reload, EndLogin
  <2>2. WireIsSound'
    BY <1>0, <1>w, <2>1 DEF WireIsSound
  <2>3. Connection'
    BY <1>0, <2>1 DEF Connection
  <2>4. ASSUME NEW k \in Logins PROVE Order(k)' /\ Genuine(k)' /\ Place(k)'
    <3>1. Order(k)'
      BY <1>0, <2>1 DEF Order
    <3>2. Genuine(k)' /\ Place(k)'
      BY <1>0, <2>1 DEF Genuine, Place, Arrived, OnWire, StateOf
    <3> QED
      BY <3>1, <3>2
  <2> QED
    BY <2>2, <2>3, <2>4 DEF Delivery
<1> QED
  BY <1>1, <1>2, <1>3 DEF Server

\* Registering while the connection lives moves an early completion into the
\* new queue; the queue that is there already stays.
LEMMA RegisterMoves ==
  ASSUME TypeOK, NEW l \in Logins, Register(l)
  PROVE  /\ listed'[l]
         /\ listed[l] => queue'[l] = queue[l] /\ early'[l] = early[l]
         /\ ~listed[l] => queue'[l] = early[l] /\ early'[l] = <<>>
         /\ \A k \in Logins : k # l =>
              listed'[k] = listed[k] /\ queue'[k] = queue[k] /\ early'[k] = early[k]
  BY DEF TypeOK, Register, routerVars

\* A queue of one item.
LEMMA HeadTailOfOne == ASSUME NEW x PROVE Head(<<x>>) = x /\ Tail(<<x>>) = <<>>
  OBVIOUS

\* Steps of the handler and of the waiter.
LEMMA ServiceDelivery ==
  ASSUME TypeOK, Delivery, NEW l \in Logins, Service(l)
  PROVE  Delivery'
<1> USE DEF serverVars, routerVars
<1>0. WireIsSound /\ Connection /\ \A k \in Logins : Order(k) /\ Genuine(k) /\ Place(k)
  BY DEF Delivery
<1>1. UNCHANGED <<process, serverVars, wire, reading>>
  BY DEF Service, ListLogin, PublishAttempt, WaiterRegisters, WaiterFetches, WaiterGets
<1>2. \A k \in Logins : k # l => /\ starter'[k] = starter[k] /\ listed'[k] = listed[k]
                                 /\ queue'[k] = queue[k] /\ early'[k] = early[k]
                                 /\ state'[k] = state[k] /\ waiter'[k] = waiter[k]
  <2>1. CASE ListLogin(l) \/ WaiterRegisters(l)
    BY <2>1, RegisterMoves DEF TypeOK, ListLogin, WaiterRegisters
  <2>2. CASE PublishAttempt(l) \/ WaiterFetches(l)
    BY <2>2 DEF TypeOK, PublishAttempt, WaiterFetches, Fail
  <2>3. CASE WaiterGets(l)
    BY <2>3 DEF TypeOK, WaiterGets, Fail
  <2> QED
    BY <2>1, <2>2, <2>3 DEF Service
<1>3. ASSUME NEW k \in Logins, k # l PROVE Order(k)' /\ Genuine(k)' /\ Place(k)'
  <2>1. Order(k)'
    BY <1>0, <1>1, <1>2, <1>3 DEF Order
  <2>2. Genuine(k)'
    BY <1>0, <1>1, <1>2, <1>3 DEF Genuine
  <2>3. Place(k)'
    BY <1>0, <1>1, <1>2, <1>3 DEF Place, Arrived, OnWire, StateOf
  <2> QED
    BY <2>1, <2>2, <2>3
<1>4. /\ starter'[l] = "asking" <=> starter[l] = "asking"
      /\ starter'[l] \notin {"idle", "error"}
      /\ ~reading /\ early[l] = <<>> => early'[l] = <<>>
      /\ process # "absent"
  <2>1. starter[l] \in {"answered", "listing", "served"}
    BY <1>0 DEF Service, ListLogin, PublishAttempt, WaiterRegisters, WaiterFetches, WaiterGets,
                Order
  <2>2. starter'[l] \in {"answered", "listing", "served"}
    BY <2>1 DEF TypeOK, Service, ListLogin, PublishAttempt, WaiterRegisters, WaiterFetches,
                WaiterGets
  <2>3. early'[l] \in {early[l], <<>>}
    BY RegisterMoves DEF Service, ListLogin, PublishAttempt, WaiterRegisters, WaiterFetches,
                WaiterGets
  <2> QED
    BY <1>0, <2>1, <2>2, <2>3 DEF Connection
<1>5. WireIsSound'
  BY <1>0, <1>1, <1>2, <1>4, WireTypes DEF WireIsSound
<1>6. Connection'
  BY <1>0, <1>1, <1>2, <1>4 DEF Connection
<1>7. OnWire(l)' = OnWire(l) /\ Arrived(l)' = Arrived(l)
  BY <1>1 DEF OnWire, Arrived
<1>8. CASE ListLogin(l)
  <2>1. /\ starter[l] = "answered" /\ starter'[l] = "listing"
        /\ UNCHANGED <<attempts, state, waiter>>
    BY <1>8 DEF TypeOK, ListLogin
  <2>2. ~listed[l] /\ queue[l] = <<>> /\ waiter[l] = "none" /\ state[l] = "none"
    BY <1>0, <2>1 DEF Order
  <2>3. listed'[l] /\ queue'[l] = early[l] /\ early'[l] = <<>>
    BY <1>8, <2>2, RegisterMoves DEF ListLogin
  <2>4. Order(l)'
    BY <1>0, <1>1, <2>1, <2>2, <2>3 DEF Order
  <2>5. Place(l)'
    BY <1>0, <1>1, <1>7, <2>1, <2>2, <2>3 DEF Place, Arrived, TypeOK
  <2>6. reading \/ early[l] = <<>>
    BY <1>0 DEF Connection
  <2>7. early[l] \in {<<>>, <<outcome[l]>>}
    BY <1>0, <2>6 DEF Place
  <2>8. Genuine(l)'
    BY <1>0, <1>1, <2>1, <2>2, <2>3, <2>7 DEF Genuine
  <2> QED
    BY <1>3, <1>5, <1>6, <2>4, <2>5, <2>8 DEF Delivery
<1>9. CASE PublishAttempt(l)
  <2>1. /\ starter[l] = "listing" /\ starter'[l] = "served"
        /\ state'[l] = "pending" /\ waiter'[l] = "register"
        /\ UNCHANGED routerVars
    BY <1>9 DEF TypeOK, PublishAttempt
  <2>2. waiter[l] = "none" /\ state[l] = "none"
    BY <1>0, <2>1 DEF Order
  <2>3. Order(l)'
    BY <1>0, <1>1, <2>1, <2>2 DEF Order
  <2>4. Genuine(l)'
    BY <1>0, <1>1, <2>1, <2>2 DEF Genuine
  <2>5. Place(l)'
    BY <1>0, <1>1, <1>7, <2>1, <2>2 DEF Place
  <2> QED
    BY <1>3, <1>5, <1>6, <2>3, <2>4, <2>5 DEF Delivery
<1>10. CASE WaiterRegisters(l)
  <2>1. /\ waiter[l] = "register" /\ waiter'[l] = "fetch"
        /\ UNCHANGED <<starter, state>>
    BY <1>10 DEF TypeOK, WaiterRegisters
  <2>2. starter[l] = "served" /\ state[l] = "pending" /\ (reading => listed[l])
    BY <1>0, <2>1 DEF Order
  <2>3. /\ listed'[l]
        /\ listed[l] => queue'[l] = queue[l] /\ early'[l] = early[l]
        /\ ~listed[l] => queue'[l] = early[l] /\ early'[l] = <<>>
    BY <1>10, RegisterMoves DEF WaiterRegisters
  <2>4. Order(l)'
    BY <1>0, <1>1, <2>1, <2>2, <2>3 DEF Order
  <2>5. ~listed[l] => early[l] = <<>>
    BY <1>0, <2>2 DEF Connection
  <2>6. Genuine(l)'
    BY <1>0, <1>1, <2>1, <2>2, <2>3, <2>5 DEF Genuine
  <2>7. Place(l)'
    BY <1>0, <1>1, <1>7, <2>1, <2>2, <2>3 DEF Place
  <2> QED
    BY <1>3, <1>5, <1>6, <2>4, <2>6, <2>7 DEF Delivery
<1>11. CASE WaiterFetches(l)
  <2>1. /\ waiter[l] = "fetch" /\ UNCHANGED <<starter, routerVars>>
        /\ \/ listed[l] /\ waiter'[l] = "get" /\ UNCHANGED state
           \/ ~listed[l] /\ waiter'[l] = "done" /\ state'[l] = "failed"
    BY <1>11 DEF TypeOK, WaiterFetches, Fail
  <2>2. starter[l] = "served" /\ state[l] = "pending" /\ (reading => listed[l])
    BY <1>0, <2>1 DEF Order
  <2>3. Order(l)'
    BY <1>0, <1>1, <2>1, <2>2 DEF Order
  <2>4. Genuine(l)'
    BY <1>0, <1>1, <2>1, <2>2 DEF Genuine
  <2>5. Place(l)'
    BY <1>0, <1>1, <1>7, <2>1, <2>2 DEF Place
  <2> QED
    BY <1>3, <1>5, <1>6, <2>3, <2>4, <2>5 DEF Delivery
<1>12. CASE WaiterGets(l)
  <2> DEFINE item == Head(queue[l])
  <2>1. /\ waiter[l] = "get" /\ waiter'[l] = "done" /\ ~listed'[l]
        /\ queue[l] # <<>> /\ queue'[l] = Tail(queue[l])
        /\ state'[l] = IF item = "closed" THEN "failed" ELSE StateOf(item)
        /\ UNCHANGED <<starter, early>>
    BY <1>12 DEF TypeOK, WaiterGets, Fail
  <2>2. queue[l] \in Seq(Items)
    BY DEF TypeOK
  <2>3. item = queue[l][1] /\ 1 \in 1..Len(queue[l])
    BY <2>1, <2>2, HeadTailProperties
  <2>4. item \in {"closed", outcome[l]}
    BY <1>0, <2>3 DEF Genuine
  <2>5. starter[l] = "served"
    BY <1>0, <2>1 DEF Order
  <2>6. Order(l)'
    BY <1>0, <1>1, <2>1, <2>4, <2>5 DEF Order
  <2>7. Genuine(l)'
    BY <1>0, <1>1, <2>1, <2>2, <2>4 DEF Genuine, StateOf
  <2>8. reading => Arrived(l) /\ early[l] = <<>> /\ queue[l] = <<outcome[l]>>
    BY <1>0, <2>1 DEF Place
  <2>9. reading => item = outcome[l] /\ Tail(queue[l]) = <<>> /\ outcome[l] # "closed"
    <3>1. outcome[l] # "closed"
      BY DEF TypeOK, Results
    <3> QED
      BY <2>8, <3>1, HeadTailOfOne
  <2>10. Place(l)'
    BY <1>1, <1>7, <2>1, <2>8, <2>9 DEF Place
  <2> QED
    BY <1>3, <1>5, <1>6, <2>6, <2>7, <2>10 DEF Delivery
<1> QED
  BY <1>8, <1>9, <1>10, <1>11, <1>12 DEF Service

\* The reader routes one message.
LEMMA RouteDelivery ==
  ASSUME TypeOK, Delivery, Route
  PROVE  Delivery'
<1> USE DEF serverVars, routerVars
<1>0. WireIsSound /\ Connection /\ \A k \in Logins : Order(k) /\ Genuine(k) /\ Place(k)
  BY DEF Delivery
<1> DEFINE m == wire[1]
<1>1. /\ Head(wire) = m /\ m \in Messages /\ 1 \in 1..Len(wire)
      /\ Len(wire') = Len(wire) - 1
      /\ \A i \in 1..Len(wire') : i + 1 \in 1..Len(wire) /\ wire'[i] = wire[i + 1]
      /\ \A k \in Logins :
           OnWire(k)' <=> OnWire(k) /\ ~(m.type = "completed" /\ m.login = k)
  BY <1>0, TailWire DEF Route
<1>2. m.login \in Logins /\ m.result \in Results
  BY <1>1 DEF Messages
<1>3. /\ reading /\ wire # <<>>
      /\ UNCHANGED <<process, serverVars, reading, attempts, state, waiter>>
      /\ process # "absent"
  BY <1>0 DEF Route, Connection
<1>4. Connection'
  BY <1>0, <1>3 DEF Connection
<1>5. \A i \in 1..Len(wire') : wire'[i].login \in Logins
  BY <1>1, WireTypes
<1>6. /\ \A i \in 1..Len(wire') : wire'[i].type = "completed" =>
           outcome'[wire'[i].login] = wire'[i].result
      /\ \A i, j \in 1..Len(wire') :
           wire'[i].type = wire'[j].type /\ wire'[i].login = wire'[j].login => i = j
  <2>1. ASSUME NEW i \in 1..Len(wire'), wire'[i].type = "completed"
        PROVE  outcome'[wire'[i].login] = wire'[i].result
    BY <1>0, <1>1, <1>3, <2>1 DEF WireIsSound
  <2>2. ASSUME NEW i \in 1..Len(wire'), NEW j \in 1..Len(wire'),
               wire'[i].type = wire'[j].type, wire'[i].login = wire'[j].login
        PROVE  i = j
    <3>1. i + 1 = j + 1
      BY <1>0, <1>1, <2>2 DEF WireIsSound
    <3> QED
      BY <3>1
  <2> QED
    BY <2>1, <2>2
<1>7. CASE m.type = "started"
  <2>1. /\ starter[m.login] = "asking" /\ task[m.login] # "none"
        /\ starter'[m.login] \in {"answered", "error"}
        /\ \A k \in Logins : k # m.login => starter'[k] = starter[k]
        /\ UNCHANGED routerVars
    BY <1>0, <1>1, <1>2, <1>7 DEF Route, WireIsSound, TypeOK
  <2>2. WireIsSound'
    <3>1. \A i \in 1..Len(wire') : wire'[i].type = "started" => wire'[i].login # m.login
      BY <1>0, <1>1, <1>7 DEF WireIsSound
    <3>2. ASSUME NEW i \in 1..Len(wire'), wire'[i].type = "started"
          PROVE  starter'[wire'[i].login] = "asking" /\ task'[wire'[i].login] # "none"
      BY <1>0, <1>1, <1>3, <1>5, <2>1, <3>1, <3>2 DEF WireIsSound
    <3> QED
      BY <1>6, <3>2 DEF WireIsSound
  <2>3. ASSUME NEW k \in Logins PROVE Order(k)' /\ Genuine(k)' /\ Place(k)'
    <3>1. Order(k)'
      BY <1>0, <1>3, <2>1 DEF Order
    <3>2. Genuine(k)' /\ Place(k)'
      BY <1>0, <1>1, <1>3, <1>7, <2>1 DEF Genuine, Place, Arrived, StateOf
    <3> QED
      BY <3>1, <3>2
  <2> QED
    BY <1>4, <2>2, <2>3 DEF Delivery
<1>8. CASE m.type = "completed"
  <2>0. PICK l \in Logins : l = m.login
    BY <1>2
  <2>1. /\ \/ /\ listed[l] /\ queue' = [queue EXCEPT ![l] = Append(@, m.result)]
              /\ UNCHANGED <<listed, early>>
           \/ /\ ~listed[l] /\ early' = [early EXCEPT ![l] = Append(@, m.result)]
              /\ UNCHANGED <<listed, queue>>
        /\ UNCHANGED starter
    BY <1>1, <1>8, <2>0 DEF Route, RouteEarly
  <2>2. outcome[l] = m.result /\ outcome[l] # "none" /\ OnWire(l) /\ ~OnWire(l)'
    <3>1. outcome[l] = m.result /\ outcome[l] # "none"
      BY <1>0, <1>1, <1>2, <1>8, <2>0 DEF WireIsSound, Results
    <3>2. OnWire(l)
      BY <1>1, <1>8, <2>0 DEF OnWire
    <3>3. ~OnWire(l)'
      BY <1>1, <1>8, <2>0
    <3> QED
      BY <3>1, <3>2, <3>3
  <2>3. reading /\ early[l] = <<>> /\ queue[l] = <<>> /\ waiter[l] # "done"
    BY <1>0, <1>2, <1>3, <2>2 DEF Place, Arrived
  <2>4. /\ \/ listed[l] /\ queue'[l] = <<outcome[l]>> /\ early'[l] = <<>>
           \/ ~listed[l] /\ early'[l] = <<outcome[l]>> /\ queue'[l] = <<>>
        /\ UNCHANGED listed
        /\ \A k \in Logins : k # l => queue'[k] = queue[k] /\ early'[k] = early[k]
    <3>1. Append(queue[l], m.result) = <<outcome[l]>> /\ Append(early[l], m.result) = <<outcome[l]>>
      BY <2>2, <2>3
    <3>2. CASE listed[l] /\ queue' = [queue EXCEPT ![l] = Append(@, m.result)] /\ UNCHANGED <<listed, early>>
      BY <2>3, <3>1, <3>2 DEF TypeOK
    <3>3. CASE ~listed[l] /\ early' = [early EXCEPT ![l] = Append(@, m.result)] /\ UNCHANGED <<listed, queue>>
      BY <2>3, <3>1, <3>3 DEF TypeOK
    <3> QED
      BY <2>1, <3>2, <3>3
  <2>5. WireIsSound'
    <3>1. ASSUME NEW i \in 1..Len(wire'), wire'[i].type = "started"
          PROVE  starter'[wire'[i].login] = "asking" /\ task'[wire'[i].login] # "none"
      BY <1>0, <1>1, <1>3, <2>1, <3>1 DEF WireIsSound
    <3> QED
      BY <1>6, <3>1 DEF WireIsSound
  <2>6. ASSUME NEW k \in Logins PROVE Order(k)' /\ Genuine(k)' /\ Place(k)'
    <3>1. Order(k)'
      BY <1>0, <1>3, <2>1, <2>4 DEF Order
    <3>2. Genuine(k)'
      BY <1>0, <1>3, <2>1, <2>4 DEF Genuine
    <3>3. Place(k)'
      <4>1. CASE k = l
        BY <1>3, <2>1, <2>2, <2>3, <2>4, <4>1 DEF Place, Arrived
      <4>2. CASE k # l
        BY <1>0, <1>1, <1>3, <2>0, <2>1, <2>4, <4>2 DEF Place, Arrived, StateOf
      <4> QED
        BY <4>1, <4>2
    <3> QED
      BY <3>1, <3>2, <3>3
  <2> QED
    BY <1>4, <2>5, <2>6 DEF Delivery
<1> QED
  BY <1>1, <1>7, <1>8 DEF Messages

\* The end of the connection: what follows about a queue is only that its items
\* are genuine.
LEMMA FailAllDelivery ==
  ASSUME TypeOK, Delivery, FailAll
  PROVE  Delivery'
<1> USE DEF serverVars
<1>0. WireIsSound /\ Connection /\ \A k \in Logins : Order(k) /\ Genuine(k) /\ Place(k)
  BY DEF Delivery
<1>1. /\ wire = <<>> /\ process = "gone" /\ ~reading'
      /\ UNCHANGED <<process, serverVars, wire, state, waiter>>
  BY DEF FailAll
<1>2. WireIsSound'
  BY <1>1 DEF WireIsSound
<1>3. Connection'
  BY <1>1 DEF Connection, FailAll
<1>4. ASSUME NEW k \in Logins PROVE Order(k)' /\ Genuine(k)' /\ Place(k)'
  <2>1. /\ ~listed'[k] /\ early'[k] = <<>>
        /\ starter'[k] = IF starter[k] = "asking" THEN "error" ELSE starter[k]
        /\ queue'[k] = IF listed[k] THEN Append(queue[k], "closed") ELSE queue[k]
    BY DEF FailAll
  <2>2. Order(k)'
    BY <1>0, <1>1, <2>1 DEF Order
  <2>3. Genuine(k)'
    <3>1. queue[k] \in Seq(Items) /\ "closed" \in Items
      BY DEF TypeOK, Items
    <3>2. \A i \in 1..Len(queue'[k]) : queue'[k][i] \in {"closed", outcome[k]}
      BY <1>0, <2>1, <3>1 DEF Genuine
    <3> QED
      BY <1>0, <1>1, <3>2 DEF Genuine
  <2>4. Place(k)'
    BY <1>1 DEF Place
  <2> QED
    BY <2>2, <2>3, <2>4
<1> QED
  BY <1>2, <1>3, <1>4 DEF Delivery

\* A click.  The first one starts the process, before which nothing happened.
LEMMA ClickDelivery ==
  ASSUME TypeOK, Delivery, NEW l \in Logins, ClickLogin(l) \/ ClickFails(l)
  PROVE  Delivery'
<1> USE DEF serverVars, routerVars
<1>0. WireIsSound /\ Connection /\ \A k \in Logins : Order(k) /\ Genuine(k) /\ Place(k)
  BY DEF Delivery
<1>1. /\ starter[l] = "idle" /\ starter'[l] \in {"asking", "error"}
      /\ \A k \in Logins : k # l => starter'[k] = starter[k]
      /\ UNCHANGED <<serverVars, wire, routerVars, state, waiter>>
      /\ \/ UNCHANGED <<process, reading>> /\ (process = "absent" => starter'[l] = "error")
         \/ process = "absent" /\ process' = "running" /\ reading'
  BY DEF TypeOK, ClickLogin, ClickFails
<1>2. WireIsSound'
  BY <1>0, <1>1, WireTypes DEF WireIsSound
<1>3. Connection'
  BY <1>0, <1>1 DEF Connection
<1>4. ASSUME NEW k \in Logins PROVE Order(k)' /\ Genuine(k)' /\ Place(k)'
  <2>1. process = "absent" => /\ starter[k] \in {"idle", "error"} /\ outcome[k] = "none"
                              /\ early[k] = <<>> /\ queue[k] = <<>> /\ waiter[k] = "none"
    BY <1>0 DEF Connection, Order
  <2>2. Order(k)'
    BY <1>0, <1>1, <2>1 DEF Order
  <2>3. Genuine(k)'
    BY <1>0, <1>1 DEF Genuine
  <2>4. Place(k)'
    <3>1. Arrived(k)' = Arrived(k)
      BY <1>1 DEF Arrived, OnWire
    <3>2. CASE UNCHANGED <<process, reading>>
      BY <1>0, <1>1, <3>1, <3>2 DEF Place
    <3>3. CASE process = "absent"
      BY <1>1, <2>1, <3>1, <3>3 DEF Place, Arrived
    <3> QED
      BY <1>1, <3>2, <3>3
  <2> QED
    BY <2>2, <2>3, <2>4
<1> QED
  BY <1>2, <1>3, <1>4 DEF Delivery

\* No step loses, doubles or invents a completion.
LEMMA DeliveryStep == TypeOK /\ Delivery /\ [Next]_vars => Delivery'
<1> SUFFICES ASSUME TypeOK, Delivery, [Next]_vars PROVE Delivery'
  OBVIOUS
<1>1. CASE ProcessDies
  <2>1. Connection'
    BY <1>1 DEF Delivery, Connection, ProcessDies, serverVars, routerVars, serviceVars
  <2>2. WireIsSound'
    BY <1>1 DEF Delivery, WireIsSound, ProcessDies, serverVars, serviceVars
  <2>3. ASSUME NEW k \in Logins PROVE Order(k)' /\ Genuine(k)' /\ Place(k)'
    BY <1>1 DEF Delivery, Order, Genuine, Place, Arrived, OnWire, StateOf, ProcessDies,
                serverVars, routerVars, serviceVars
  <2> QED
    BY <2>1, <2>2, <2>3 DEF Delivery
<1>2. CASE UNCHANGED <<process, serverVars, wire, reading, routerVars, serviceVars>>
  <2>1. WireIsSound' /\ Connection'
    BY <1>2 DEF Delivery, WireIsSound, Connection, serverVars, routerVars, serviceVars
  <2>2. ASSUME NEW k \in Logins PROVE Order(k)' /\ Genuine(k)' /\ Place(k)'
    BY <1>2 DEF Delivery, Order, Genuine, Place, Arrived, OnWire, StateOf, serverVars,
                routerVars, serviceVars
  <2> QED
    BY <2>1, <2>2 DEF Delivery
<1>3. ASSUME NEW l \in Logins, Browser(l)
      PROVE  UNCHANGED <<process, serverVars, wire, reading, routerVars, serviceVars>>
  BY <1>3, BrowserStep DEF OnlyPages
<1>4. UNCHANGED vars =>
        UNCHANGED <<process, serverVars, wire, reading, routerVars, serviceVars>>
  BY DEF vars
<1> QED
  BY <1>1, <1>2, <1>3, <1>4, ServerDelivery, ServiceDelivery, RouteDelivery, FailAllDelivery,
     ClickDelivery DEF Next

\* While the connection lives, a completion that the reader has taken is in the
\* router, in its login's queue or in the attempt it belongs to, and no attempt
\* succeeds but by its own login, for any number of logins that replace each
\* other.
THEOREM CompletionKeptHolds == Spec => []CompletionKept
<1>1. TypeOK /\ Delivery => CompletionKept
  <2> SUFFICES ASSUME TypeOK, Delivery, NEW l \in Logins
               PROVE  /\ /\ reading /\ outcome[l] # "none"
                         /\ Message("completed", l, outcome[l]) \notin ToSet(wire)
                         => \/ early[l] = <<outcome[l]>>
                            \/ queue[l] = <<outcome[l]>> /\ listed[l]
                            \/ state[l] = StateOf(outcome[l])
                      /\ state[l] = "succeeded" => outcome[l] = "ok"
    BY DEF CompletionKept
  <2>1. Genuine(l) /\ Place(l) /\ WireIsSound
    BY DEF Delivery
  <2>2. wire \in Seq(Messages)
    BY DEF TypeOK, Messages
  <2>3. OnWire(l) => Message("completed", l, outcome[l]) \in ToSet(wire)
    <3> SUFFICES ASSUME NEW i \in 1..Len(wire),
                        wire[i].type = "completed" /\ wire[i].login = l
                 PROVE  Message("completed", l, outcome[l]) \in ToSet(wire)
      BY DEF OnWire
    <3>1. wire[i] \in Messages /\ wire[i].result = outcome[l]
      BY <2>1, <2>2, ElementOfSeq DEF WireIsSound
    <3>2. wire[i] = Message("completed", l, outcome[l])
      BY <3>1 DEF Messages, Message
    <3>3. i \in DOMAIN wire
      BY <2>2
    <3> QED
      BY <3>2, <3>3 DEF ToSet
  <2> QED
    BY <2>1, <2>3 DEF Genuine, Place, Arrived
<1>2. Spec => [](TypeOK /\ Delivery)
  BY TypeInit, TypeStep, DeliveryInit, DeliveryStep, PTL DEF Spec
<1> QED
  BY <1>1, <1>2, PTL
=============================================================================
