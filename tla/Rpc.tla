--------------------------------- MODULE Rpc --------------------------------
(***************************************************************************)
(* What the kernel module promises the clients of /dev/c64 about remote    *)
(* procedure calls: at most one call is under way, and the client that     *)
(* made it is handed the result of that very call.  A client may be closed *)
(* at any time.  How messages and replies travel between the two CPUs is   *)
(* left to the module Dev, which implements this one.                      *)
(***************************************************************************)
CONSTANTS
  Clients,  \* the client slots (dev_client_t clients[])
  Msgs,     \* the messages clients send
  Unknown,  \* those addressed to a component the DSP does not have
  NULL

VARIABLE call \* per client: the state of its call, the message, the result

Closed == [st |-> "closed", msg |-> NULL, res |-> NULL]
Idle == [st |-> "idle", msg |-> NULL, res |-> NULL]
Sent(m) == [st |-> "sent", msg |-> m, res |-> NULL]
Answered(m, r) == [st |-> "answered", msg |-> m, res |-> r]

Init == call = [c \in Clients |-> Closed]

Open(c) ==
  /\ call[c] = Closed
  /\ call' = [call EXCEPT ![c] = Idle]

Close(c) ==
  /\ call[c] # Closed
  /\ call' = [call EXCEPT ![c] = Closed]

Send(c, m) ==
  /\ call[c] = Idle
  /\ \A d \in Clients : call[d].st # "sent"
  /\ call' = [call EXCEPT ![c] = Sent(m)]

(* Nothing is promised about the result of a call nobody could execute.    *)
Answer(c, m) ==
  /\ call[c] = Sent(m)
  /\ \/ call' = [call EXCEPT ![c] = Answered(m, m)]
     \/ /\ m \in Unknown
        /\ \E r \in Msgs \cup {"unload", NULL} : call' = [call EXCEPT ![c] = Answered(m, r)]

(* The client reads the result, or gives it up.                            *)
Take(c) ==
  /\ call[c].st = "answered"
  /\ call' = [call EXCEPT ![c] = Idle]

Next ==
  \E c \in Clients :
    \/ Open(c)
    \/ Close(c)
    \/ Take(c)
    \/ \E m \in Msgs : Send(c, m) \/ Answer(c, m)

Spec == Init /\ [][Next]_call
=============================================================================
