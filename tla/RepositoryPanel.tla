--------------------------- MODULE RepositoryPanel ---------------------------
(***************************************************************************)
(* The browser extension: the controller that keeps a panel on a           *)
(* repository page (content.js), and the client in the extension's worker  *)
(* that submits an analysis and polls it (background.js), joined by a port *)
(* per panel.                                                              *)
(*                                                                         *)
(* A port, its panel and the client that serves it carry the generation    *)
(* they were made in.  The page is the environment: it navigates, renders  *)
(* and may be told apart from the repository it confirms.  The service is  *)
(* the environment too: it answers any request with a running job, a       *)
(* finished one, an error or not at all.                                   *)
(***************************************************************************)
EXTENDS Integers, Sequences

CONSTANTS
  Repo,           \* repositories a page may confirm
  None,           \* no repository
  MaxGeneration,  \* bound on generation
  MaxVisits,      \* bound on the navigations of the page
  PollAttempts    \* C.maxPollAttempts

ASSUME Bounds ==
  /\ None \notin Repo
  /\ MaxGeneration \in Nat /\ MaxVisits \in Nat /\ PollAttempts \in Nat

VARIABLES
  page,        \* the repository the document and the location confirm, or None
  visits,      \* navigations so far
  rendering,   \* between turbo:before-render and the new document
  host,        \* the panel in the document, 0 if none
  generation, panel, port, scheduled, lastKey,   \* of the controller
  view,        \* what the panel shows: its state, and of which repository
  retry,       \* whether it offers a retry
  client,      \* generation -> phase of its client
  about,       \* generation -> the repository it was asked about
  closed,      \* generations whose port the controller disconnected
  polls,       \* generation -> requests of the poll loop so far
  inbox        \* generation -> messages on the way to the controller

pageVars == <<page, visits, rendering>>
controllerVars == <<generation, panel, port, lastKey, view, retry>>
clientVars == <<client, about, polls>>

vars == <<pageVars, host, controllerVars, scheduled, clientVars, closed, inbox>>

Generation == 1 .. MaxGeneration

Final == {"ready", "error"}

Messages == {"progress", "completed", "failed", "error", "retryable", "gone"}

Init ==
  /\ page \in Repo \cup {None} /\ visits = 0 /\ rendering = FALSE
  /\ host = 0 /\ panel = 0 /\ port = 0 /\ generation = 0
  /\ scheduled = TRUE /\ lastKey = None
  /\ view = [state |-> "none", of |-> None] /\ retry = FALSE
  /\ client = [g \in Generation |-> "none"]
  /\ about = [g \in Generation |-> None]
  /\ polls = [g \in Generation |-> 0]
  /\ closed = {}
  /\ inbox = [g \in Generation |-> <<>>]

-----------------------------------------------------------------------------
(* content.js                                                              *)

NoPanel == [state |-> "none", of |-> None]

(* Disconnecting is one-sided: the client learns of it, the controller's   *)
(* own listener does not run.                                              *)
Disconnect == closed' = IF port = 0 THEN closed ELSE closed \cup {port}

Remove ==
  /\ generation < MaxGeneration
  /\ generation' = generation + 1
  /\ Disconnect /\ port' = 0
  /\ host' = 0 /\ panel' = 0 /\ lastKey' = None
  /\ view' = NoPanel /\ retry' = FALSE
  /\ UNCHANGED clientVars

(* start(identity): the generation moves before the early return.  The     *)
(* increment of the remove() in it is taken back.                          *)
Start(identity, key) ==
  LET mine == generation + 1
  IN  /\ mine \in Generation
      /\ generation' = mine
      /\ IF key = identity /\ panel # 0
         THEN UNCHANGED <<host, panel, port, lastKey, view, retry, clientVars,
                          closed>>
         ELSE /\ Disconnect /\ port' = mine
              /\ host' = mine /\ panel' = mine /\ lastKey' = identity
              /\ view' = [state |-> "loading", of |-> identity]
              /\ retry' = FALSE
              /\ client' = [client EXCEPT ![mine] = "asking"]
              /\ about' = [about EXCEPT ![mine] = identity]
              /\ UNCHANGED polls

ReconcileWith(key) ==
  IF page = None THEN Remove
  ELSE IF page # key \/ host = 0 THEN Start(page, key)
  ELSE UNCHANGED <<host, controllerVars, clientVars, closed>>

(* The microtask of schedule().  Adding or taking out a panel changes the  *)
(* document, and every change is observed and schedules another.           *)
Reconcile ==
  /\ scheduled
  /\ ReconcileWith(lastKey)
  /\ scheduled' = (host' # host)
  /\ UNCHANGED <<pageVars, inbox>>

(* The retry button forgets the key and reconciles.                        *)
Retry ==
  /\ host # 0 /\ retry
  /\ ReconcileWith(None)
  /\ scheduled' = TRUE
  /\ UNCHANGED <<pageVars, inbox>>

Deliver_Unguarded(g) ==
  /\ inbox[g] # <<>>
  /\ inbox' = [inbox EXCEPT ![g] = Tail(@)]
  /\ LET m == Head(inbox[g])
     IN  IF m = "gone" \/ panel = 0
         THEN UNCHANGED <<view, retry, port>>
         ELSE /\ view' = [state |-> IF m = "progress" THEN m
                                    ELSE IF m = "completed" THEN "ready"
                                    ELSE "error",
                          of |-> about[g]]
              /\ retry' = (m = "retryable")
              /\ UNCHANGED port
  /\ UNCHANGED <<pageVars, host, generation, panel, lastKey, scheduled,
                 clientVars, closed>>

(* A message of the port of generation g reaches its listeners.  That of a *)
(* former generation is dropped, and a failed job offers no retry.         *)
Deliver(g) ==
  /\ inbox[g] # <<>>
  /\ inbox' = [inbox EXCEPT ![g] = Tail(@)]
  /\ LET m == Head(inbox[g])
     IN  IF m = "gone"
         THEN /\ port' = IF g = generation THEN 0 ELSE port
              /\ UNCHANGED <<view, retry>>
         ELSE IF g # generation \/ panel = 0
         THEN UNCHANGED <<view, retry, port>>
         ELSE /\ view' = [state |-> IF m = "progress" THEN m
                                    ELSE IF m = "completed" THEN "ready"
                                    ELSE "error",
                          of |-> about[g]]
              /\ retry' = (m = "retryable")
              /\ UNCHANGED port
  /\ UNCHANGED <<pageVars, host, generation, panel, lastKey, scheduled,
                 clientVars, closed>>

-----------------------------------------------------------------------------
(* The page                                                                *)

(* turbo:before-render calls stale().  The location is already that of the *)
(* visit, so the old document confirms its repository or none.             *)
BeforeRender ==
  /\ ~rendering /\ visits < MaxVisits
  /\ visits' = visits + 1 /\ rendering' = TRUE
  /\ page' \in {page, None}
  /\ Remove
  /\ scheduled' = (scheduled \/ host # 0)
  /\ UNCHANGED inbox

(* The new document replaces the old one and whatever was put in it.       *)
Render ==
  /\ rendering
  /\ rendering' = FALSE
  /\ page' \in Repo \cup {None}
  /\ host' = 0
  /\ scheduled' = TRUE
  /\ UNCHANGED <<visits, controllerVars, clientVars, closed, inbox>>

(* popstate, or a change of the document that keeps the panel.             *)
PageChanges ==
  /\ ~rendering /\ visits < MaxVisits
  /\ visits' = visits + 1
  /\ page' \in Repo \cup {None}
  /\ scheduled' = TRUE
  /\ UNCHANGED <<rendering, host, controllerVars, clientVars, closed, inbox>>

-----------------------------------------------------------------------------
(* background.js: analyze                                                  *)

Live == {"asking", "polling"}

(* Messages to a port whose disconnection was seen are not sent; the work  *)
(* goes on.                                                                *)
Emit(g, m) ==
  inbox' = IF g \in closed THEN inbox ELSE [inbox EXCEPT ![g] = Append(@, m)]

Conclude_KeepsPolling(g, m) ==
  /\ client' = [client EXCEPT ![g] = "polling"]
  /\ Emit(g, m)

Conclude(g, m) ==
  /\ client' = [client EXCEPT ![g] = "done"]
  /\ Emit(g, m)

(* The answer to the POST or a GET: running, over, an error or a timeout.  *)
Answer(g) ==
  /\ client[g] = "asking"
  /\ \/ client' = [client EXCEPT ![g] = "polling"] /\ UNCHANGED inbox
     \/ \E m \in {"completed", "failed", "error", "retryable"} : Conclude(g, m)
  /\ UNCHANGED <<pageVars, host, controllerVars, scheduled, about, polls, closed>>

(* One iteration of the loop: progress, a delay and the next request.      *)
Ask(g) ==
  /\ client[g] = "polling" /\ polls[g] < PollAttempts
  /\ client' = [client EXCEPT ![g] = "asking"]
  /\ polls' = [polls EXCEPT ![g] = @ + 1]
  /\ Emit(g, "progress")
  /\ UNCHANGED <<pageVars, host, controllerVars, scheduled, about, closed>>

GiveUp_Silent(g) ==
  /\ client[g] = "polling"
  /\ client' = [client EXCEPT ![g] = "done"]
  /\ UNCHANGED <<pageVars, host, controllerVars, scheduled, about, polls,
                 closed, inbox>>

(* The attempts or the time of the loop are up.                            *)
GiveUp(g) ==
  /\ client[g] = "polling"
  /\ Conclude(g, "error")
  /\ UNCHANGED <<pageVars, host, controllerVars, scheduled, about, polls, closed>>

(* The browser ends the worker, and the port with it.                      *)
WorkerEnds(g) ==
  /\ client[g] \in Live
  /\ client' = [client EXCEPT ![g] = "gone"]
  /\ Emit(g, "gone")
  /\ UNCHANGED <<pageVars, host, controllerVars, scheduled, about, polls, closed>>

Client(g) == Answer(g) \/ Ask(g) \/ GiveUp(g)

Next ==
  \/ Reconcile \/ Retry
  \/ BeforeRender \/ Render \/ PageChanges
  \/ \E g \in Generation : Client(g) \/ WorkerEnds(g) \/ Deliver(g)

Spec == Init /\ [][Next]_vars

(* Every request is aborted after requestTimeoutMs and every delay ends,   *)
(* so the client always moves; messages are delivered.  Nothing is asked   *)
(* of the page, the user or the service.                                   *)
Fairness == \A g \in Generation : WF_vars(Client(g)) /\ WF_vars(Deliver(g))

FairSpec == Spec /\ Fairness

-----------------------------------------------------------------------------
(* Properties                                                              *)

TypeOK ==
  /\ page \in Repo \cup {None} /\ lastKey \in Repo \cup {None}
  /\ {host, panel, port, generation} \subseteq 0 .. MaxGeneration
  /\ view.state \in {"none", "loading", "progress"} \cup Final
  /\ \A g \in Generation :
       /\ client[g] \in Live \cup {"none", "done", "gone"}
       /\ polls[g] \in 0 .. PollAttempts
       /\ \A i \in DOMAIN inbox[g] : inbox[g][i] \in Messages

(* The panel shows the analysis of the repository it was opened for and,   *)
(* once the page is at rest, of the page: whatever answers arrive late     *)
(* from former panels.                                                     *)
ShowsOwnRepository ==
  panel # 0 =>
    /\ view.of = lastKey
    /\ ~scheduled /\ ~rendering => lastKey = page

(* Work is done for the present panel alone: the port of every earlier one *)
(* is disconnected, whichever way the panel went.                          *)
OnlyPanelConnected ==
  \A g \in Generation : client[g] \in Live /\ g \notin closed =>
                          port = g /\ panel = g

(* The panel is of its page, and its client the only one at work.          *)
PanelIsCurrent == ShowsOwnRepository /\ OnlyPanelConnected

(* What a panel says in the end it keeps saying, until it is replaced.     *)
FinalStays ==
  [][view.state \in Final /\ panel' = panel => view' = view]_vars

(* A panel in the page comes to an end: a result, an error, its removal or *)
(* the loss of the worker that served it.                                  *)
PanelSettles ==
  \A g \in Generation :
    host = g ~> host # g \/ view.state \in Final \/ client[g] = "gone"

(* Reconciling on a page that confirms a repository leaves it a panel.     *)
ReconcileShowsPanel == [][Reconcile /\ page # None => host' # 0]_vars
=============================================================================
