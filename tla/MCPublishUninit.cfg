\* publish() after the event center's task has connected.
CONSTANTS
    Events = {"order"}
    Handlers = {h1}
    Msgs = {m1}
    MaxHandlers = 1
    MaxDeliveries = 1

SPECIFICATION Spec
INVARIANT PublishAfterConnect
