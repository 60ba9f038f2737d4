------------------------------ MODULE MCEvents ------------------------------
(***************************************************************************)
(* What a changed file passes on its way into the index: the queue of       *)
(* events and the language server that parses it.  A behaviour is one of    *)
(* either, and the other rests.                                             *)
(***************************************************************************)
EXTENDS Scheduler, LspClient

VARIABLE which

eventVars == <<which, scheduler, clientVars>>

EventInit == which \in {"queue", "lsp"} /\ QueueInit /\ ClientInit

Queueing(action) == which = "queue" /\ action /\ UNCHANGED <<which, clientVars>>
Parsing(action) == which = "lsp" /\ action /\ UNCHANGED <<which, scheduler>>

EventNext == Queueing(QueueNext) \/ Parsing(ClientNext)

\* QueueFairness and Fairness, each of its own part.
EventFairness ==
    /\ WF_eventVars(Queueing(Tick)) /\ WF_eventVars(Queueing(Poll)) /\ WF_eventVars(Queueing(HandleKey))
    /\ WF_eventVars(Queueing(Finish)) /\ WF_eventVars(Queueing(Stop))
    /\ \A w \in Callers : WF_eventVars(Parsing(Caller(w)))
    /\ WF_eventVars(Parsing(Reader)) /\ SF_eventVars(Parsing(ServerReads))

EventSpec == EventInit /\ [][EventNext]_eventVars /\ EventFairness
=============================================================================
