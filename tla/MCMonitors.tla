---------------------------- MODULE MCMonitors ----------------------------
(* The objects that threads share through a mutex and condition variables, *)
(* each on its own: a behaviour is that of one of them.                    *)
EXTENDS Semaphore, BoundedBlockingQueue, AsyncLogging

VARIABLE object

mcVars == <<object, semaphoreVars, queueVars, logVars>>

MCInit ==
    /\ object \in {"semaphore", "queue", "logging"}
    /\ SemaphoreInit
    /\ QueueInit
    /\ (object # "queue" => capacity_ = Unbounded)
    /\ LogInit

MCNext ==
    /\ \/ object = "semaphore" /\ SemaphoreNext /\ UNCHANGED <<queueVars, logVars>>
       \/ object = "queue" /\ QueueNext /\ UNCHANGED <<semaphoreVars, logVars>>
       \/ object = "logging" /\ LogNext /\ UNCHANGED <<semaphoreVars, queueVars>>
    /\ UNCHANGED object

MCSpec == MCInit /\ [][MCNext]_mcVars /\ QueueFairness /\ LogFairness
===========================================================================
