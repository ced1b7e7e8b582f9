------------------------ MODULE RepositoryPanelProofs ------------------------
(***************************************************************************)
(* Proofs about the panel of the extension, for any number of              *)
(* repositories, navigations, retries and polls.  The argument: panels are *)
(* numbered by a generation that only grows, a panel is the newest that    *)
(* was ever opened, so a message that passes the guard of its generation   *)
(* is of the panel that is shown.                                          *)
(***************************************************************************)
EXTENDS RepositoryPanel, SequenceTheorems, TLAPS

Phase == Live \cup {"none", "done", "gone"}

TypeInv ==
  /\ page \in Repo \cup {None} /\ lastKey \in Repo \cup {None}
  /\ scheduled \in BOOLEAN /\ rendering \in BOOLEAN
  /\ generation \in 0 .. MaxGeneration
  /\ panel \in 0 .. generation /\ host \in 0 .. generation
  /\ port \in 0 .. generation
  /\ view \in [state : {"none", "loading", "progress"} \cup Final,
               of : Repo \cup {None}]
  /\ client \in [Generation -> Phase]
  /\ about \in [Generation -> Repo \cup {None}]
  /\ polls \in [Generation -> 0 .. PollAttempts]
  /\ inbox \in [Generation -> Seq(Messages)]

(* Clients exist up to the newest panel, and only they have sent anything. *)
ClientInv ==
  \A g \in Generation :
    /\ g > generation => client[g] = "none"
    /\ panel # 0 /\ client[g] # "none" => g <= panel
    /\ client[g] = "none" => inbox[g] = <<>>
    /\ client[g] \in Live =>
         \A i \in 1 .. Len(inbox[g]) : inbox[g][i] = "progress"

(* The panel there is shows the repository it was opened for.              *)
PanelInv ==
  panel # 0 =>
    /\ lastKey \in Repo /\ view.of = lastKey /\ about[panel] = lastKey
    /\ client[panel] # "none"
    /\ ~scheduled /\ ~rendering => lastKey = page

IInv == TypeInv /\ ClientInv /\ PanelInv /\ OnlyPanelConnected

-----------------------------------------------------------------------------

LEMMA InitIInv == Init => IInv
<1> SUFFICES ASSUME Init PROVE IInv
  OBVIOUS
<1>1. 0 \in 0 .. MaxGeneration /\ 0 \in 0 .. PollAttempts
  BY Bounds
<1>2. TypeInv
  <2>1. <<>> \in Seq(Messages)
    OBVIOUS
  <2>2. inbox \in [Generation -> Seq(Messages)]
    BY <2>1 DEF Init
  <2>3. /\ client \in [Generation -> Phase]
        /\ about \in [Generation -> Repo \cup {None}]
        /\ polls \in [Generation -> 0 .. PollAttempts]
    BY <1>1 DEF Init, Phase
  <2>4. panel \in 0 .. generation /\ host \in 0 .. generation
        /\ port \in 0 .. generation
    BY DEF Init
  <2> QED BY <1>1, <2>2, <2>3, <2>4 DEF Init, TypeInv
<1>3. ClientInv
  BY DEF Init, ClientInv, Live
<1>4. PanelInv /\ OnlyPanelConnected
  BY DEF Init, PanelInv, OnlyPanelConnected, Live
<1> QED BY <1>2, <1>3, <1>4 DEF IInv

(* Removing the panel disconnects its port and leaves nothing to show.     *)
LEMMA RemoveKeeps ==
  ASSUME IInv, Remove, inbox' = inbox, page' \in Repo \cup {None},
         scheduled' \in BOOLEAN, rendering' \in BOOLEAN
  PROVE  IInv'
<1>1. /\ generation' = generation + 1 /\ generation' \in 0 .. MaxGeneration
      /\ panel' = 0 /\ host' = 0 /\ port' = 0 /\ lastKey' = None
      /\ view' = NoPanel
      /\ closed' = IF port = 0 THEN closed ELSE closed \cup {port}
      /\ UNCHANGED <<client, about, polls>>
  BY Bounds DEF Remove, Disconnect, clientVars, IInv, TypeInv
<1>2. TypeInv'
  BY <1>1 DEF IInv, TypeInv, NoPanel
<1>3. ClientInv'
  BY <1>1 DEF IInv, TypeInv, ClientInv, Generation
<1>4. PanelInv'
  BY <1>1 DEF PanelInv
<1>5. OnlyPanelConnected'
  BY <1>1 DEF IInv, OnlyPanelConnected, Generation
<1> QED BY <1>2, <1>3, <1>4, <1>5 DEF IInv

(* Starting a panel makes it the newest, or changes the generation alone.  *)
LEMMA StartKeeps ==
  ASSUME IInv, page # None, NEW key, key = lastKey \/ key = None,
         Start(page, key), inbox' = inbox, page' = page,
         rendering' = rendering, scheduled' \in BOOLEAN,
         host' # host => scheduled',
         page # lastKey \/ host = 0 \/ key = None
  PROVE  IInv'
<1> DEFINE mine == generation + 1
<1>1. page \in Repo /\ None \notin Repo
  BY Bounds DEF IInv, TypeInv
<1>2. /\ mine \in Generation /\ generation' = mine
      /\ generation \in Nat /\ mine \in 0 .. MaxGeneration
      /\ generation \in 0 .. mine
  BY Bounds DEF Start, Generation, IInv, TypeInv
<1>3. CASE key = page /\ panel # 0
  <2>1. UNCHANGED <<host, panel, port, lastKey, view, client, about, polls,
                    closed>> /\ key = lastKey
    BY <1>1, <1>3 DEF Start, clientVars
  <2>2. TypeInv'
    BY <1>2, <2>1 DEF IInv, TypeInv
  <2>3. ClientInv'
    BY <1>2, <2>1 DEF IInv, ClientInv, Generation
  <2>4. PanelInv'
    BY <1>3, <2>1 DEF IInv, PanelInv
  <2>5. OnlyPanelConnected'
    BY <2>1 DEF IInv, OnlyPanelConnected
  <2> QED BY <2>2, <2>3, <2>4, <2>5 DEF IInv
<1>4. CASE ~(key = page /\ panel # 0)
  <2>1. /\ port' = mine /\ host' = mine /\ panel' = mine /\ lastKey' = page
        /\ view' = [state |-> "loading", of |-> page]
        /\ client' = [client EXCEPT ![mine] = "asking"]
        /\ about' = [about EXCEPT ![mine] = page]
        /\ polls' = polls
        /\ closed' = IF port = 0 THEN closed ELSE closed \cup {port}
    BY <1>4 DEF Start, Disconnect
  <2>2. TypeInv'
    BY <1>1, <1>2, <2>1 DEF IInv, TypeInv, Phase, Live
  <2>3. client[mine] = "none" /\ inbox[mine] = <<>>
    BY <1>2 DEF IInv, TypeInv, ClientInv
  <2>4. ClientInv'
    BY <1>2, <2>1, <2>3 DEF IInv, TypeInv, ClientInv, Generation, Live
  <2>5. PanelInv'
    <3>1. about'[mine] = page /\ client'[mine] = "asking"
      BY <1>2, <2>1 DEF IInv, TypeInv
    <3> QED BY <1>1, <2>1, <3>1 DEF PanelInv
  <2>6. OnlyPanelConnected'
    BY <1>2, <2>1 DEF IInv, TypeInv, OnlyPanelConnected, Generation, Live
  <2> QED BY <2>2, <2>4, <2>5, <2>6 DEF IInv
<1> QED BY <1>3, <1>4

LEMMA ReconcileKeeps ==
  ASSUME IInv, NEW key, key = lastKey \/ key = None,
         ReconcileWith(key), inbox' = inbox,
         page' = page, rendering' = rendering, scheduled' \in BOOLEAN,
         host' # host => scheduled'
  PROVE  IInv'
<1>1. page \in Repo \cup {None} /\ rendering' \in BOOLEAN
  BY DEF IInv, TypeInv
<1>2. CASE page = None
  BY <1>1, <1>2, RemoveKeeps DEF ReconcileWith
<1>3. CASE page # None /\ (page # key \/ host = 0)
  <2>1. Start(page, key)
    BY <1>3 DEF ReconcileWith
  <2>2. page # lastKey \/ host = 0 \/ key = None
    BY <1>3
  <2> QED BY <1>3, <2>1, <2>2, StartKeeps
<1>4. CASE page # None /\ ~(page # key \/ host = 0)
  <2>1. UNCHANGED <<host, generation, panel, port, lastKey, view, retry,
                    client, about, polls, closed, inbox, page, rendering>>
    BY <1>4 DEF ReconcileWith, controllerVars, clientVars
  <2>2. TypeInv'
    BY <2>1 DEF IInv, TypeInv
  <2>3. ClientInv' /\ OnlyPanelConnected'
    BY <2>1 DEF IInv, ClientInv, OnlyPanelConnected
  <2>4. PanelInv'
    BY <1>4, <2>1 DEF IInv, PanelInv
  <2> QED BY <2>2, <2>3, <2>4 DEF IInv
<1> QED BY <1>2, <1>3, <1>4

(* A change of the page that schedules keeps the invariant.                *)
LEMMA PageKeeps ==
  ASSUME IInv, page' \in Repo \cup {None}, rendering' \in BOOLEAN,
         host' \in {0, host}, scheduled' = TRUE,
         UNCHANGED <<controllerVars, clientVars, closed, inbox>>
  PROVE  IInv'
<1>1. UNCHANGED <<generation, panel, port, lastKey, view, client, about, polls,
                  closed, inbox>>
  BY DEF controllerVars, clientVars
<1>2. TypeInv'
  BY <1>1 DEF IInv, TypeInv
<1>3. ClientInv' /\ OnlyPanelConnected'
  BY <1>1 DEF IInv, ClientInv, OnlyPanelConnected
<1>4. PanelInv'
  BY <1>1 DEF IInv, PanelInv
<1> QED BY <1>2, <1>3, <1>4 DEF IInv

(* A client that moves to another phase and sends something, or nothing.   *)
LEMMA ClientKeeps ==
  ASSUME IInv, NEW g \in Generation, client[g] \in Live,
         NEW phase \in Phase \ {"none"},
         client' = [client EXCEPT ![g] = phase],
         polls' \in [Generation -> 0 .. PollAttempts],
         NEW m \in Messages, Emit(g, m) \/ inbox' = inbox,
         phase \in Live => m = "progress",
         UNCHANGED <<pageVars, host, controllerVars, scheduled, about, closed>>
  PROVE  IInv'
<1>1. UNCHANGED <<page, rendering, host, generation, panel, port, lastKey,
                  view, scheduled, about, closed>>
  BY DEF pageVars, controllerVars
<1>2. \/ inbox' = inbox
      \/ inbox' = [inbox EXCEPT ![g] = Append(inbox[g], m)]
  BY DEF Emit
<1>3. inbox[g] \in Seq(Messages)
  BY DEF IInv, TypeInv
<1>4. inbox' \in [Generation -> Seq(Messages)]
  <2>1. Append(inbox[g], m) \in Seq(Messages)
    BY <1>3
  <2> QED BY <1>2, <2>1 DEF IInv, TypeInv
<1>5. TypeInv'
  BY <1>1, <1>4 DEF IInv, TypeInv
<1>6. ClientInv'
  <2> SUFFICES ASSUME NEW h \in Generation
               PROVE  /\ h > generation => client'[h] = "none"
                      /\ panel # 0 /\ client'[h] # "none" => h <= panel
                      /\ client'[h] = "none" => inbox'[h] = <<>>
                      /\ client'[h] \in Live =>
                           \A i \in 1 .. Len(inbox'[h]) :
                             inbox'[h][i] = "progress"
    BY <1>1 DEF ClientInv
  <2>1. CASE h # g
    <3>1. client'[h] = client[h] /\ inbox'[h] = inbox[h]
      BY <2>1, <1>2 DEF IInv, TypeInv
    <3> QED BY <3>1 DEF IInv, ClientInv
  <2>2. CASE h = g
    <3>1. client'[g] = phase /\ client[g] # "none"
      BY DEF IInv, TypeInv, Live
    <3>2. inbox'[g] = inbox[g] \/ inbox'[g] = Append(inbox[g], m)
      BY <1>2 DEF IInv, TypeInv
    <3>3. phase \in Live =>
            \A i \in 1 .. Len(inbox'[g]) : inbox'[g][i] = "progress"
      <4>1. \A i \in 1 .. Len(inbox[g]) : inbox[g][i] = "progress"
        BY DEF IInv, ClientInv
      <4> QED BY <4>1, <3>2, <1>3
    <3> QED BY <2>2, <3>1, <3>3 DEF IInv, ClientInv
  <2> QED BY <2>1, <2>2
<1>7. PanelInv'
  BY <1>1 DEF IInv, TypeInv, PanelInv
<1>8. OnlyPanelConnected'
  BY <1>1 DEF IInv, TypeInv, OnlyPanelConnected
<1> QED BY <1>5, <1>6, <1>7, <1>8 DEF IInv

(* Delivery shows only what the panel's own client sent.                   *)
LEMMA DeliverKeeps ==
  ASSUME IInv, NEW g \in Generation, Deliver(g)
  PROVE  IInv'
<1> DEFINE m == Head(inbox[g])
<1>1. /\ inbox[g] # <<>> /\ inbox' = [inbox EXCEPT ![g] = Tail(inbox[g])]
      /\ UNCHANGED <<page, rendering, host, generation, panel, lastKey,
                     scheduled, client, about, polls, closed>>
  BY DEF Deliver, pageVars, clientVars
<1>2. inbox[g] \in Seq(Messages)
  BY DEF IInv, TypeInv
<1>3. Tail(inbox[g]) \in Seq(Messages)
  BY <1>1, <1>2
<1>4. client[g] # "none"
  BY <1>1 DEF IInv, ClientInv
<1>5. \/ /\ m = "gone" /\ view' = view
         /\ port' = IF g = generation THEN 0 ELSE port
      \/ /\ g = generation /\ panel # 0 /\ port' = port
         /\ view' = [state |-> IF m = "progress" THEN m
                               ELSE IF m = "completed" THEN "ready"
                               ELSE "error",
                     of |-> about[g]]
      \/ view' = view /\ port' = port
  BY DEF Deliver
<1>6. TypeInv'
  <2>1. about[g] \in Repo \cup {None}
    BY DEF IInv, TypeInv
  <2>2. view' \in [state : {"none", "loading", "progress"} \cup Final,
                   of : Repo \cup {None}]
    BY <1>5, <2>1 DEF IInv, TypeInv, Final
  <2>3. port' \in 0 .. generation
    BY <1>5 DEF IInv, TypeInv
  <2> QED BY <1>1, <1>3, <2>2, <2>3 DEF IInv, TypeInv
<1>7. ClientInv'
  <2> SUFFICES ASSUME NEW h \in Generation
               PROVE  /\ client[h] = "none" => inbox'[h] = <<>>
                      /\ client[h] \in Live =>
                           \A i \in 1 .. Len(inbox'[h]) :
                             inbox'[h][i] = "progress"
    BY <1>1 DEF IInv, ClientInv
  <2>1. CASE h # g
    <3>1. inbox'[h] = inbox[h]
      BY <2>1, <1>1 DEF IInv, TypeInv
    <3> QED BY <3>1 DEF IInv, ClientInv
  <2>2. CASE h = g
    <3>1. inbox'[g] = Tail(inbox[g])
      BY <1>1 DEF IInv, TypeInv
    <3>2. client[g] \in Live =>
            \A i \in 1 .. Len(inbox[g]) : inbox[g][i] = "progress"
      BY DEF IInv, ClientInv
    <3>3. client[g] \in Live =>
            \A i \in 1 .. Len(Tail(inbox[g])) : Tail(inbox[g])[i] = "progress"
      BY <3>2, <1>1, <1>2
    <3> QED BY <2>2, <3>1, <3>3, <1>4
  <2> QED BY <2>1, <2>2
<1>8. PanelInv'
  <2>1. g = generation /\ panel # 0 => g = panel
    BY <1>4 DEF IInv, TypeInv, ClientInv, Generation
  <2> QED BY <1>1, <1>5, <2>1 DEF IInv, PanelInv
<1>9. OnlyPanelConnected'
  <2>1. m = "gone" => client[g] \notin Live
    <3>1. Len(inbox[g]) \in Nat /\ 1 \in 1 .. Len(inbox[g])
          /\ m = inbox[g][1]
      BY <1>1, <1>2
    <3>2. client[g] \in Live => m = "progress"
      BY <3>1 DEF IInv, ClientInv
    <3> QED BY <3>2
  <2>2. ASSUME NEW h \in Generation, client[h] \in Live, h \notin closed
        PROVE  port' = h /\ panel = h
    <3>1. port = h /\ panel = h
      BY <2>2 DEF IInv, OnlyPanelConnected
    <3>2. CASE port' = port
      BY <3>1, <3>2
    <3>3. CASE m = "gone" /\ g = generation
      <4>1. g # h
        BY <2>1, <2>2, <3>3
      <4>2. g <= panel /\ h <= generation
        BY <1>4, <3>1 DEF IInv, TypeInv, ClientInv, Generation
      <4> QED BY <3>1, <3>3, <4>1, <4>2 DEF IInv, TypeInv, Generation
    <3> QED BY <1>5, <3>2, <3>3
  <2> QED BY <1>1, <2>2 DEF OnlyPanelConnected
<1> QED BY <1>6, <1>7, <1>8, <1>9 DEF IInv

LEMMA NextIInv == IInv /\ [Next]_vars => IInv'
<1> SUFFICES ASSUME IInv, [Next]_vars PROVE IInv'
  OBVIOUS
<1>1. CASE Reconcile
  BY <1>1, ReconcileKeeps DEF Reconcile, pageVars
<1>2. CASE Retry
  BY <1>2, ReconcileKeeps DEF Retry, pageVars
<1>3. CASE BeforeRender
  <2>1. page' \in Repo \cup {None} /\ scheduled' \in BOOLEAN
    BY <1>3 DEF BeforeRender, IInv, TypeInv
  <2> QED BY <1>3, <2>1, RemoveKeeps DEF BeforeRender
<1>4. CASE Render
  BY <1>4, PageKeeps DEF Render
<1>5. CASE PageChanges
  BY <1>5, PageKeeps DEF PageChanges, IInv, TypeInv
<1>6. ASSUME NEW g \in Generation, Answer(g)
      PROVE  IInv'
  <2>1. client[g] \in Live /\ polls' \in [Generation -> 0 .. PollAttempts]
    BY <1>6 DEF Answer, Live, IInv, TypeInv
  <2>2. CASE client' = [client EXCEPT ![g] = "polling"] /\ inbox' = inbox
    BY <1>6, <2>1, <2>2, ClientKeeps DEF Answer, Phase, Live, Messages
  <2>3. CASE \E m \in {"completed", "failed", "error", "retryable"} :
               Conclude(g, m)
    BY <1>6, <2>1, <2>3, ClientKeeps DEF Answer, Conclude, Phase, Live, Messages
  <2> QED BY <1>6, <2>2, <2>3 DEF Answer
<1>7. ASSUME NEW g \in Generation, Ask(g)
      PROVE  IInv'
  <2>1. polls' \in [Generation -> 0 .. PollAttempts]
    BY <1>7, Bounds DEF Ask, IInv, TypeInv
  <2> QED BY <1>7, <2>1, ClientKeeps DEF Ask, Phase, Live, Messages
<1>8. ASSUME NEW g \in Generation, GiveUp(g)
      PROVE  IInv'
  <2>1. polls' \in [Generation -> 0 .. PollAttempts]
    BY <1>8 DEF GiveUp, IInv, TypeInv
  <2>2. /\ client[g] \in Live /\ "error" \in Messages
        /\ "done" \in Phase \ {"none"} /\ "done" \notin Live
    BY <1>8 DEF GiveUp, Phase, Live, Messages
  <2>3. /\ client' = [client EXCEPT ![g] = "done"] /\ Emit(g, "error")
        /\ UNCHANGED <<pageVars, host, controllerVars, scheduled, about, closed>>
    BY <1>8 DEF GiveUp, Conclude
  <2> QED BY <2>1, <2>2, <2>3, ClientKeeps
<1>9. ASSUME NEW g \in Generation, WorkerEnds(g)
      PROVE  IInv'
  <2>1. polls' \in [Generation -> 0 .. PollAttempts]
    BY <1>9 DEF WorkerEnds, IInv, TypeInv
  <2>2. /\ client[g] \in Live /\ "gone" \in Messages
        /\ "gone" \in Phase \ {"none"} /\ "gone" \notin Live
    BY <1>9 DEF WorkerEnds, Phase, Live, Messages
  <2>3. /\ client' = [client EXCEPT ![g] = "gone"] /\ Emit(g, "gone")
        /\ UNCHANGED <<pageVars, host, controllerVars, scheduled, about, closed>>
    BY <1>9 DEF WorkerEnds
  <2> QED BY <2>1, <2>2, <2>3, ClientKeeps
<1>10. ASSUME NEW g \in Generation, Deliver(g)
       PROVE  IInv'
  BY <1>10, DeliverKeeps
<1>11. CASE UNCHANGED vars
  BY <1>11 DEF vars, pageVars, controllerVars, clientVars, IInv, TypeInv,
               ClientInv, PanelInv, OnlyPanelConnected
<1> QED
  BY <1>1, <1>2, <1>3, <1>4, <1>5, <1>6, <1>7, <1>8, <1>9, <1>10, <1>11
  DEF Next, Client

THEOREM Inductive == Spec => []IInv
  BY InitIInv, NextIInv, PTL DEF Spec

-----------------------------------------------------------------------------
(* The theorems                                                            *)

(* The panel shows its own repository and, at rest, the one of the page,   *)
(* whatever late messages arrive.                                          *)
THEOREM NeverStale == Spec => []ShowsOwnRepository
<1>1. IInv => ShowsOwnRepository
  BY DEF IInv, PanelInv, ShowsOwnRepository
<1> QED BY <1>1, Inductive, PTL

(* Only the present panel has a connected client at work.                  *)
THEOREM OneConnection == Spec => []OnlyPanelConnected
<1>1. IInv => OnlyPanelConnected
  BY DEF IInv
<1> QED BY <1>1, Inductive, PTL

(* The panel is of its page, and its client the only one at work.          *)
THEOREM PanelStaysCurrent == Spec => []PanelIsCurrent
BY NeverStale, OneConnection, PTL DEF PanelIsCurrent

(* Every value stays in its range, the poll counter within its attempts.   *)
THEOREM TypeCorrect == Spec => []TypeOK
<1>1. IInv => TypeOK
  <2> SUFFICES ASSUME IInv PROVE TypeOK
    OBVIOUS
  <2>1. {host, panel, port, generation} \subseteq 0 .. MaxGeneration
    BY Bounds DEF IInv, TypeInv
  <2>2. ASSUME NEW g \in Generation
        PROVE  /\ client[g] \in Live \cup {"none", "done", "gone"}
               /\ polls[g] \in 0 .. PollAttempts
               /\ \A i \in DOMAIN inbox[g] : inbox[g][i] \in Messages
    <3>1. inbox[g] \in Seq(Messages)
      BY DEF IInv, TypeInv
    <3>2. \A M : inbox[g] \in Seq(M) => \A i \in DOMAIN inbox[g] : inbox[g][i] \in M
      OBVIOUS
    <3> QED BY <3>1, <3>2 DEF IInv, TypeInv, Phase
  <2> QED BY <2>1, <2>2 DEF IInv, TypeInv, TypeOK
<1> QED BY <1>1, Inductive, PTL

-----------------------------------------------------------------------------
(* What a panel says in the end                                            *)

(* A client sends progress and then one message more, so the panel that    *)
(* shows a final state has nothing left to hear and nobody to say it.      *)
FinalInv ==
  /\ \A g \in Generation : \A i \in 1 .. Len(inbox[g]) :
       i # Len(inbox[g]) => inbox[g][i] = "progress"
  /\ view.state \in Final =>
       panel # 0 /\ inbox[panel] = <<>> /\ client[panel] \notin Live

FinalIInv == IInv /\ FinalInv

(* Steps of the page and of the controller: the panel is replaced by none, *)
(* by a new one that is loading, or is left alone.                         *)
LEMMA ReplacedKeeps ==
  ASSUME FinalIInv, inbox' = inbox,
         \/ view'.state \notin Final
         \/ UNCHANGED <<view, panel, client>>
  PROVE  FinalInv'
  BY DEF FinalIInv, FinalInv, Final

(* Between Final and another state the panel has changed.                  *)
LEMMA ReconcileReplaces ==
  ASSUME FinalIInv, NEW key, ReconcileWith(key)
  PROVE  \/ view'.state \notin Final /\ (panel' # panel \/ panel' = 0)
         \/ UNCHANGED <<view, panel, client>>
<1>1. CASE page = None
  BY <1>1 DEF ReconcileWith, Remove, NoPanel, Final
<1>2. CASE page # None /\ (page # key \/ host = 0)
  <2>1. Start(page, key)
    BY <1>2 DEF ReconcileWith
  <2>2. panel # generation + 1
    BY DEF FinalIInv, IInv, TypeInv
  <2> QED BY <2>1, <2>2 DEF Start, Final, clientVars
<1>3. CASE page # None /\ ~(page # key \/ host = 0)
  BY <1>3 DEF ReconcileWith, controllerVars, clientVars
<1> QED BY <1>1, <1>2, <1>3

(* Whoever still has something to say is not the client of such a panel.   *)
LEMMA ClientKeepsFinal ==
  ASSUME FinalIInv, NEW g \in Generation, client[g] \in Live,
         NEW phase, client' = [client EXCEPT ![g] = phase],
         NEW m \in Messages, Emit(g, m) \/ inbox' = inbox,
         UNCHANGED controllerVars
  PROVE  FinalInv' /\ UNCHANGED <<view, panel>>
<1>1. UNCHANGED <<view, panel>>
  BY DEF controllerVars
<1>2. /\ \A h \in Generation \ {g} :
           inbox'[h] = inbox[h] /\ client'[h] = client[h]
      /\ inbox'[g] = inbox[g] \/ inbox'[g] = Append(inbox[g], m)
  BY DEF Emit, FinalIInv, IInv, TypeInv
<1>3. /\ inbox[g] \in Seq(Messages)
      /\ \A i \in 1 .. Len(inbox[g]) : inbox[g][i] = "progress"
  BY DEF FinalIInv, IInv, TypeInv, ClientInv
<1>4. \A i \in 1 .. Len(inbox'[g]) :
        i # Len(inbox'[g]) => inbox'[g][i] = "progress"
  <2>1. CASE inbox'[g] = inbox[g]
    BY <1>3, <2>1
  <2>2. CASE inbox'[g] = Append(inbox[g], m)
    BY <1>3, <2>2
  <2> QED BY <1>2, <2>1, <2>2
<1>5. \A h \in Generation : \A i \in 1 .. Len(inbox'[h]) :
        i # Len(inbox'[h]) => inbox'[h][i] = "progress"
  BY <1>2, <1>4 DEF FinalIInv, FinalInv
<1>6. ASSUME view'.state \in Final
      PROVE  panel' # 0 /\ inbox'[panel'] = <<>> /\ client'[panel'] \notin Live
  <2>1. panel # 0 /\ inbox[panel] = <<>> /\ client[panel] \notin Live
    BY <1>1, <1>6 DEF FinalIInv, FinalInv
  <2>2. panel \in Generation \ {g}
    <3>1. panel \in Generation
      BY <2>1, Bounds DEF FinalIInv, IInv, TypeInv, Generation
    <3> QED BY <2>1, <3>1
  <2> QED BY <1>1, <1>2, <2>1, <2>2
<1> QED BY <1>1, <1>5, <1>6 DEF FinalInv

(* The final state comes with the last message of the panel's own port.    *)
LEMMA DeliverKeepsFinal ==
  ASSUME FinalIInv, NEW g \in Generation, Deliver(g)
  PROVE  /\ FinalInv'
         /\ view.state \in Final => view' = view
<1> DEFINE m == Head(inbox[g])
<1>1. /\ inbox[g] # <<>> /\ inbox' = [inbox EXCEPT ![g] = Tail(inbox[g])]
      /\ panel' = panel /\ client' = client
  BY DEF Deliver, clientVars
<1>2. /\ inbox[g] \in Seq(Messages) /\ Len(inbox[g]) \in Nat \ {0}
      /\ m = inbox[g][1]
  <2>1. inbox[g] \in Seq(Messages)
    BY DEF FinalIInv, IInv, TypeInv
  <2> QED BY <1>1, <2>1
<1>3. /\ inbox'[g] = Tail(inbox[g])
      /\ \A h \in Generation \ {g} : inbox'[h] = inbox[h]
  BY <1>1 DEF FinalIInv, IInv, TypeInv
<1>4. \/ view' = view
      \/ /\ g = generation /\ panel # 0
         /\ view'.state \in Final => m # "progress"
  BY DEF Deliver, Final
<1>5. client[g] # "none"
  BY <1>1 DEF FinalIInv, IInv, ClientInv
<1>6. g = generation /\ panel # 0 => g = panel
  BY <1>5 DEF FinalIInv, IInv, TypeInv, ClientInv, Generation
<1>7. view.state \in Final => view' = view
  BY <1>1, <1>4, <1>6 DEF FinalIInv, FinalInv
<1>8. \A h \in Generation : \A i \in 1 .. Len(inbox'[h]) :
        i # Len(inbox'[h]) => inbox'[h][i] = "progress"
  <2>1. \A i \in 1 .. Len(inbox[g]) :
          i # Len(inbox[g]) => inbox[g][i] = "progress"
    BY DEF FinalIInv, FinalInv
  <2>2. \A i \in 1 .. Len(Tail(inbox[g])) :
          i # Len(Tail(inbox[g])) => Tail(inbox[g])[i] = "progress"
    BY <1>1, <1>2, <2>1
  <2> QED BY <1>3, <2>2 DEF FinalIInv, FinalInv
<1>9. ASSUME view'.state \in Final
      PROVE  panel # 0 /\ inbox'[panel] = <<>> /\ client[panel] \notin Live
  <2>1. CASE view' = view
    <3>1. panel # 0 /\ inbox[panel] = <<>> /\ client[panel] \notin Live
      BY <1>9, <2>1 DEF FinalIInv, FinalInv
    <3>2. panel \in Generation
      BY <3>1, Bounds DEF FinalIInv, IInv, TypeInv, Generation
    <3> QED BY <1>1, <1>3, <3>1, <3>2
  <2>2. CASE view' # view
    <3>1. g = panel /\ panel # 0 /\ m # "progress"
      BY <1>4, <1>6, <1>9, <2>2
    <3>2. Len(inbox[g]) = 1
      <4>1. 1 \in 1 .. Len(inbox[g])
        BY <1>2
      <4>2. 1 # Len(inbox[g]) => inbox[g][1] = "progress"
        BY <4>1 DEF FinalIInv, FinalInv
      <4> QED BY <1>2, <3>1, <4>2
    <3>3. Tail(inbox[g]) = <<>>
      <4>1. Tail(inbox[g]) \in Seq(Messages) /\ Len(Tail(inbox[g])) = 0
        BY <1>1, <1>2, <3>2
      <4> QED BY <4>1, EmptySeq
    <3>4. client[g] \notin Live
      BY <1>2, <3>1 DEF FinalIInv, IInv, ClientInv
    <3> QED BY <1>3, <3>1, <3>3, <3>4
  <2> QED BY <2>1, <2>2
<1> QED BY <1>1, <1>7, <1>8, <1>9 DEF FinalInv

(* Every step keeps the invariant, and a final state with its panel.       *)
LEMMA NextFinal ==
  ASSUME FinalIInv, [Next]_vars
  PROVE  /\ FinalInv'
         /\ view.state \in Final /\ panel' = panel => view' = view
<1> DEFINE Stays == view.state \in Final /\ panel' = panel => view' = view
<1>1. view.state \in Final => panel # 0
  BY DEF FinalIInv, FinalInv
<1>2. CASE Reconcile \/ Retry
  <2>1. PICK key : ReconcileWith(key) /\ inbox' = inbox
    BY <1>2 DEF Reconcile, Retry
  <2>2. \/ view'.state \notin Final /\ (panel' # panel \/ panel' = 0)
        \/ UNCHANGED <<view, panel, client>>
    BY <2>1, ReconcileReplaces
  <2> QED BY <1>1, <2>1, <2>2, ReplacedKeeps
<1>3. CASE BeforeRender
  <2>1. view' = NoPanel /\ panel' = 0 /\ inbox' = inbox
    BY <1>3 DEF BeforeRender, Remove
  <2> QED BY <1>1, <2>1, ReplacedKeeps DEF NoPanel, Final
<1>4. CASE Render \/ PageChanges \/ UNCHANGED vars
  <2>1. UNCHANGED <<view, panel, client, inbox>>
    BY <1>4 DEF Render, PageChanges, vars, controllerVars, clientVars
  <2> QED BY <2>1, ReplacedKeeps
<1>5. ASSUME NEW g \in Generation, Client(g) \/ WorkerEnds(g)
      PROVE  FinalInv' /\ Stays
  <2>1. client[g] \in Live /\ UNCHANGED controllerVars
    BY <1>5 DEF Client, Answer, Ask, GiveUp, WorkerEnds, Live
  <2>2. \E m \in Messages : Emit(g, m) \/ inbox' = inbox
    BY <1>5 DEF Client, Answer, Ask, GiveUp, WorkerEnds, Conclude, Messages
  <2>3. \E phase : client' = [client EXCEPT ![g] = phase]
    BY <1>5 DEF Client, Answer, Ask, GiveUp, WorkerEnds, Conclude
  <2> QED BY <2>1, <2>2, <2>3, ClientKeepsFinal
<1>6. ASSUME NEW g \in Generation, Deliver(g)
      PROVE  FinalInv' /\ Stays
  BY <1>6, DeliverKeepsFinal
<1> QED BY <1>2, <1>3, <1>4, <1>5, <1>6 DEF Next

(* What a panel says in the end it keeps saying, until it is replaced.     *)
THEOREM FinalIsKept == Spec => FinalStays
<1>1. Init => FinalIInv
  <2>1. Init => FinalInv
    BY DEF Init, FinalInv, Final
  <2> QED BY <2>1, InitIInv DEF FinalIInv
<1>2. FinalIInv /\ [Next]_vars => FinalIInv'
  BY NextIInv, NextFinal DEF FinalIInv
<1>3. FinalIInv /\ [Next]_vars =>
        [view.state \in Final /\ panel' = panel => view' = view]_vars
  BY NextFinal
<1> QED BY <1>1, <1>2, <1>3, PTL DEF Spec, FinalStays
=============================================================================
