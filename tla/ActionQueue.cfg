\* Three blocking callers (the HTTP thread, the event listener, main) against
\* the queue thread; reconcile requests and failed-op clears arrive at will.
SPECIFICATION Spec
CONSTANTS
    Submitters = {http, listener, main}
    QueueThread = queue_thread
    NoThread = no_thread
    MaxClears = 1
INVARIANTS
    NoLostWakeup
    CallHeldExactlyOnce
PROPERTIES
    CallReturns
    ImplementsSerialQueue
