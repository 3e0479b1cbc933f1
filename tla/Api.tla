-------------------------------- MODULE Api --------------------------------
(***************************************************************************)
(* The requests an instance of the API runs at the same time.  A request   *)
(* gives way to the others at every await, so a handler is where one       *)
(* request stands: what it has read and what it does next.  The modules of *)
(* the components extend this one, and each says what its handlers hold.   *)
(***************************************************************************)
CONSTANTS
  Handlers,  \* the requests the API runs at the same time
  Users,     \* ids of users rows
  Skills,    \* ids of skills rows
  None       \* no row, no id, no column

VARIABLE handler  \* [Handlers -> a record whose pc is the next step]

Idle == [pc |-> "idle"]
At(h, pc) == handler[h].pc = pc
Goto(h, state) == handler' = [handler EXCEPT ![h] = state]
Begin(h, state) == At(h, "idle") /\ Goto(h, state)
Continue(h, pc) == handler' = [handler EXCEPT ![h].pc = pc]

\* The request is answered; how an error is worded is left out.
Finish(h) == Goto(h, Idle)

\* The process stops, or the database or another service is lost, between two steps.
Crash(h) == ~At(h, "idle") /\ Finish(h)
=============================================================================
