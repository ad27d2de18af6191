------------------------------- MODULE Workers -------------------------------
(***************************************************************************)
(* Work that must end although it is retried or interrupted: the lease on  *)
(* a leader's lock, the deliveries of a message, the webhooks of an event  *)
(* with their dead letters, and the shutdown of a process with its         *)
(* scheduled job.  They share no state, so that focus is the part that     *)
(* moves.                                                                  *)
(***************************************************************************)
EXTENDS WorkerLease, Consumer, Webhooks, Shutdown

VARIABLE focus

workersVars == <<vars, consumerVars, webhookVars, schedulerVars, shutdownVars, focus>>

WorkersInit ==
    /\ Init /\ ConsumerInit /\ WebhookInit /\ SchedulerInit /\ ShutdownInit
    /\ focus \in {"lease", "deliveries", "webhooks", "shutdown"}
    /\ focus # "shutdown" => sockets = 0

LeaseStep ==
    /\ focus = "lease" /\ Next
    /\ UNCHANGED <<consumerVars, webhookVars, schedulerVars, shutdownVars, focus>>

DeliveryStep ==
    /\ focus = "deliveries" /\ ConsumerNext
    /\ UNCHANGED <<vars, webhookVars, schedulerVars, shutdownVars, focus>>

WebhookStep ==
    /\ focus = "webhooks" /\ WebhookNext
    /\ UNCHANGED <<vars, consumerVars, schedulerVars, shutdownVars, focus>>

ShutdownStep ==
    /\ focus = "shutdown" /\ ShutdownNext
    /\ UNCHANGED <<vars, consumerVars, webhookVars, focus>>

WorkersNext == LeaseStep \/ DeliveryStep \/ WebhookStep \/ ShutdownStep

(***************************************************************************)
(* The event loop runs what is ready, databases and Redis answer, jobs and *)
(* handlers settle, and the grace timer fires; the phases of a shutdown    *)
(* may hang, and no client is obliged to hang up.  Of the lease: its       *)
(* Fairness.  Of the webhooks: the interval of the processor keeps firing, *)
(* time passes, and what a run awaits is answered; nothing is said of      *)
(* emits and of replays by hand.                                           *)
(***************************************************************************)
WorkersFairness ==
    /\ \A w \in Worker : WF_vars(focus = "lease" /\ managerStep(w))
    /\ \A c \in Conn :
          /\ WF_vars(focus = "lease" /\ heartbeatAnswered(c)) /\ WF_vars(focus = "lease" /\ execute(c))
          /\ WF_vars(focus = "lease" /\ closeBackend(c)) /\ WF_vars(focus = "lease" /\ reopen(c))
    /\ \A d \in Delivery : WF_consumerVars(focus = "deliveries" /\ deliveryStep(d))
    /\ \A p \in Entry : WF_webhookVars(focus = "webhooks" /\ minAgePasses(p))
    /\ \A c \in RunCall : WF_webhookVars(focus = "webhooks" /\ callStep(c))
    /\ WF_webhookVars(focus = "webhooks" /\ \E c \in RunCall : run(c))
    /\ \A r \in Replica : WF_schedulerVars(focus = "shutdown" /\ runStep(r) /\ UNCHANGED shutdownVars)
    /\ WF_shutdownVars(focus = "shutdown" /\ graceExpires)

WorkersSpec == WorkersInit /\ [][WorkersNext]_workersVars /\ WorkersFairness
==============================================================================
