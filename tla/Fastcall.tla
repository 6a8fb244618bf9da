------------------------------ MODULE Fastcall ------------------------------
(***************************************************************************)
(* Fastcall sequences: libc64/dsp.c (dsp_rpc_send, dsp_fastcall_rpc and    *)
(* dsp_fastcall_end), the task of dsp/libc64_dsp/src/mlb.c, and            *)
(* mlb_fastcall_end of kmod/mlb.c, which ends the sequence of a client     *)
(* that has died.  Both sides busy-wait on two control words in L1DSRAM.   *)
(*                                                                         *)
(*   GPP                               DSP                                 *)
(*   TODSP = IDLE, INITIATE message -> TOGPP = IDLE, waits for TODSP # IDLE *)
(*   CMD, ARGs, TODSP = REQ         -> executes, RETs, TOGPP = ACK         *)
(*   TODSP = IDLE, reads RETs       -> TOGPP = IDLE, waits again           *)
(*   TODSP = DONE                   -> TOGPP = DONE, replies to INITIATE   *)
(*                                                                         *)
(* Every wait has a timeout: seconds on the GPP, minutes on the DSP.       *)
(* Left to other modules: how messages travel (Dev).                       *)
(***************************************************************************)
EXTENDS Naturals, FiniteSets

CONSTANTS
  Clients,
  NumCalls,  \* calls are told apart modulo this number
  Overlap,   \* clients that begin whatever other clients are doing
  Slow,      \* clients whose calls may outlast the GPP's timeout
  Mortal,    \* clients that may be killed
  NULL

ASSUME FastcallAssumption ==
  /\ IsFiniteSet(Clients)
  /\ NumCalls \in Nat \ {0}
  /\ NULL \notin Clients
  /\ Overlap \cup Slow \cup Mortal \subseteq Clients

VARIABLES
  pc,                        \* where each client is
  no, got,                   \* the number of its call, the result it has read
  avail,                     \* at_state = STATE_REPLY_AVAIL
  current_client, ready,     \* dev.c and mlb.c: the message channel
  msg,                       \* an INITIATE message waits for the DSP
  todsp_ctl, todsp_cmd, togpp_ctl, togpp_ret, \* the words in L1DSRAM
  task, cmd                  \* the DSP's task, the call it executes

gpp == <<pc, no, got, avail>>
channel == <<current_client, ready, msg>>
words == <<todsp_ctl, todsp_cmd, togpp_ctl, togpp_ret>>
dsp == <<task, cmd>>
vars == <<pc, no, got, avail, current_client, ready, msg,
          todsp_ctl, todsp_cmd, togpp_ctl, togpp_ret, task, cmd>>

(* A call, as its arguments and its result identify it.                    *)
Call(c) == <<c, no[c]>>

Init ==
  /\ pc = [c \in Clients |-> "idle"]
  /\ no = [c \in Clients |-> 0]
  /\ got = [c \in Clients |-> NULL]
  /\ avail = [c \in Clients |-> FALSE]
  /\ current_client = NULL
  /\ ready = TRUE
  /\ msg = FALSE
  /\ todsp_ctl = "DONE"
  /\ todsp_cmd = NULL
  /\ togpp_ctl = "DONE"
  /\ togpp_ret = NULL
  /\ task = "idle"
  /\ cmd = NULL

Goto(c, from, to) == pc[c] = from /\ pc' = [pc EXCEPT ![c] = to]

Sequence == {"wait", "recv", "read", "called", "end", "reply"}

(* fops__release holds mtx_clients, which write needs.                     *)
MutexFree == \A c \in Clients : pc[c] \notin {"endwait", "endidle"}
-----------------------------------------------------------------------------
(* How long things take.  The GPP's loops give up only if the DSP cannot   *)
(* go on, or executes a slow call.                                         *)
DspStuck ==
  \/ task = "idle" /\ ~ msg
  \/ task = "wait" /\ todsp_ctl = "IDLE"
  \/ task = "ack" /\ todsp_ctl # "IDLE"
  \/ task = "exec" /\ cmd[1] \in Slow

(* The DSP's wait is longer than all of the GPP's: it gives up only if no  *)
(* client is in a sequence.                                                *)
Abandoned == MutexFree /\ \A c \in Clients : pc[c] \notin Sequence
-----------------------------------------------------------------------------
(* dsp_rpc_send of the INITIATE message.  The test of TOGPP_CTL is         *)
(* repeated every 10 ms until it is DONE.                                  *)
Write(c) ==
  /\ current_client = NULL
  /\ ready
  /\ MutexFree
  /\ current_client' = c
  /\ ready' = FALSE
  /\ msg' = TRUE
  /\ avail' = [avail EXCEPT ![c] = FALSE]

(* Programs take turns, but for those in Overlap.                          *)
MayBegin(c) ==
  c \in Overlap \/ \A d \in Clients \ {c} : pc[d] \notin Sequence \cup {"send"}

(* The test, and the store that makes the DSP wait for a request ...       *)
dsp_rpc_send(c) ==
  /\ Goto(c, "idle", "send")
  /\ MayBegin(c)
  /\ togpp_ctl = "DONE"
  /\ todsp_ctl' = "IDLE"
  /\ UNCHANGED <<no, got, avail, channel, todsp_cmd, togpp_ctl, togpp_ret, dsp>>

(* ... and the write, repeated while it fails with EAGAIN ...              *)
RpcSendWrite(c) ==
  /\ Goto(c, "send", "wait")
  /\ Write(c)
  /\ UNCHANGED <<no, got, words, dsp>>

(* ... up to 100000 times.                                                 *)
RpcSendGivesUp(c) ==
  /\ Goto(c, "send", "idle")
  /\ ~ ready
  /\ DspStuck
  /\ UNCHANGED <<no, got, avail, channel, words, dsp>>

(* Once the DSP is waiting: command, arguments, REQ.                       *)
dsp_fastcall_rpc_send(c) ==
  /\ Goto(c, "wait", "recv")
  /\ togpp_ctl = "IDLE"
  /\ no' = [no EXCEPT ![c] = (@ + 1) % NumCalls]
  /\ todsp_cmd' = <<c, no'[c]>>
  /\ todsp_ctl' = "REQ"
  /\ UNCHANGED <<got, avail, channel, togpp_ctl, togpp_ret, dsp>>

(* The call fails; the program ends the sequence.                          *)
FastcallSendTimeout(c) ==
  /\ Goto(c, "wait", "end")
  /\ togpp_ctl # "IDLE"
  /\ DspStuck
  /\ UNCHANGED <<no, got, avail, channel, words, dsp>>

(* Mutant: the result is not waited for.                                   *)
dsp_fastcall_rpc_recv_NoWait(c) ==
  /\ Goto(c, "recv", "read")
  /\ todsp_ctl' = "IDLE"
  /\ UNCHANGED <<no, got, avail, channel, todsp_cmd, togpp_ctl, togpp_ret, dsp>>

(* The reply is acknowledged ...                                           *)
dsp_fastcall_rpc_recv(c) ==
  /\ Goto(c, "recv", "read")
  /\ togpp_ctl = "ACK"
  /\ todsp_ctl' = "IDLE"
  /\ UNCHANGED <<no, got, avail, channel, todsp_cmd, togpp_ctl, togpp_ret, dsp>>

(* ... and then the return values are read.                                *)
FastcallRead(c) ==
  /\ Goto(c, "read", "called")
  /\ got' = [got EXCEPT ![c] = togpp_ret]
  /\ UNCHANGED <<no, avail, channel, words, dsp>>

FastcallRecvTimeout(c) ==
  /\ Goto(c, "recv", "end")
  /\ togpp_ctl # "ACK"
  /\ DspStuck
  /\ todsp_ctl' = "IDLE"
  /\ UNCHANGED <<no, got, avail, channel, todsp_cmd, togpp_ctl, togpp_ret, dsp>>

(* The program goes on with another call of the sequence, or ends it.      *)
Again(c) ==
  /\ \E next \in {"wait", "end"} : Goto(c, "called", next)
  /\ got' = [got EXCEPT ![c] = NULL]
  /\ UNCHANGED <<no, avail, channel, words, dsp>>

(* dsp_fastcall_end waits for IDLE or times out, ...                       *)
dsp_fastcall_end(c) ==
  /\ Goto(c, "end", "reply")
  /\ togpp_ctl = "IDLE" \/ DspStuck
  /\ todsp_ctl' = "DONE"
  /\ UNCHANGED <<no, got, avail, channel, todsp_cmd, togpp_ctl, togpp_ret, dsp>>

(* ... and takes the reply to INITIATE, or gives up after 5 seconds.       *)
dsp_rpc_recv(c) ==
  /\ Goto(c, "reply", "idle")
  /\ avail[c] \/ DspStuck
  /\ avail' = [avail EXCEPT ![c] = FALSE]
  /\ UNCHANGED <<no, got, channel, words, dsp>>
-----------------------------------------------------------------------------
(* A client dies, and fops__release ends its sequence if it is the current *)
(* client.                                                                 *)
Kill(c) ==
  /\ c \in Mortal
  /\ pc[c] \in Sequence \cup {"send"}
  /\ pc' = [pc EXCEPT ![c] = "dead"]
  /\ got' = [got EXCEPT ![c] = NULL]
  /\ UNCHANGED <<no, avail, channel, words, dsp>>

(* No sequence, or one the DSP has not begun.                              *)
ReleaseIdle(c) ==
  /\ Goto(c, "dead", "idle")
  /\ MutexFree
  /\ current_client = c => togpp_ctl = "DONE"
  /\ current_client' = IF current_client = c THEN NULL ELSE current_client
  /\ avail' = [avail EXCEPT ![c] = FALSE]
  /\ UNCHANGED <<no, got, ready, msg, words, dsp>>

(* A sequence: a result nobody will read is acknowledged, and IDLE waited  *)
(* for.  TOGPP_CTL is IDLE during a call, too: that one is not waited for. *)
mlb_fastcall_end(c) ==
  /\ Goto(c, "dead", IF togpp_ctl = "ACK" THEN "endwait" ELSE "endidle")
  /\ MutexFree
  /\ current_client = c
  /\ togpp_ctl # "DONE"
  /\ todsp_ctl' = IF togpp_ctl = "ACK" THEN "IDLE" ELSE todsp_ctl
  /\ UNCHANGED <<no, got, avail, channel, todsp_cmd, togpp_ctl, togpp_ret, dsp>>

FastcallEndDone(c) ==
  /\ \/ Goto(c, "endidle", "idle")
     \/ Goto(c, "endwait", "idle") /\ (togpp_ctl = "IDLE" \/ DspStuck)
  /\ todsp_ctl' = "DONE"
  /\ current_client' = NULL
  /\ avail' = [avail EXCEPT ![c] = FALSE]
  /\ UNCHANGED <<no, got, ready, msg, todsp_cmd, togpp_ctl, togpp_ret, dsp>>
-----------------------------------------------------------------------------
(* The DSP.  INITIATE begins a sequence ...                                *)
mlb_fastcall_initiate ==
  /\ task = "idle"
  /\ msg
  /\ msg' = FALSE
  /\ togpp_ctl' = "IDLE"
  /\ task' = "wait"
  /\ UNCHANGED <<gpp, current_client, ready, todsp_ctl, todsp_cmd, togpp_ret, cmd>>

(* ... of requests ...                                                     *)
FastcallBegin ==
  /\ task = "wait"
  /\ todsp_ctl = "REQ"
  /\ cmd' = todsp_cmd
  /\ task' = "exec"
  /\ UNCHANGED <<gpp, channel, words>>

FastcallExec ==
  /\ task = "exec"
  /\ togpp_ret' = cmd
  /\ task' = "executed"
  /\ UNCHANGED <<gpp, channel, todsp_ctl, todsp_cmd, togpp_ctl, cmd>>

(* Mutant: the DSP does not wait until the result is acknowledged.         *)
FastcallAck_NoWait ==
  /\ task = "executed"
  /\ togpp_ctl' = "ACK"
  /\ task' = "wait"
  /\ UNCHANGED <<gpp, channel, todsp_ctl, todsp_cmd, togpp_ret, cmd>>

FastcallAck ==
  /\ task = "executed"
  /\ togpp_ctl' = "ACK"
  /\ task' = "ack"
  /\ UNCHANGED <<gpp, channel, todsp_ctl, todsp_cmd, togpp_ret, cmd>>

(* ... each of which is acknowledged.                                      *)
FastcallAcked ==
  /\ task = "ack"
  /\ todsp_ctl = "IDLE"
  /\ togpp_ctl' = "IDLE"
  /\ task' = "wait"
  /\ cmd' = NULL
  /\ UNCHANGED <<gpp, channel, todsp_ctl, todsp_cmd, togpp_ret>>

(* Mutant: the end of the sequence is not recognised.                      *)
FastcallOver_Never == FALSE /\ UNCHANGED vars

(* The sequence is over, or the GPP has not answered in time.              *)
FastcallOver ==
  /\ task = "wait"
  /\ todsp_ctl = "DONE"
  /\ task' = "finish"
  /\ UNCHANGED <<gpp, channel, words, cmd>>

(* Mutant: the wait for the acknowledgement has no timeout.                *)
FastcallTimeout_OnlyRequest ==
  /\ Abandoned
  /\ task = "wait" /\ todsp_ctl = "IDLE"
  /\ togpp_ctl' = "IDLE"
  /\ task' = "finish"
  /\ cmd' = NULL
  /\ UNCHANGED <<gpp, channel, todsp_ctl, todsp_cmd, togpp_ret>>

FastcallTimeout ==
  /\ Abandoned
  /\ \/ task = "wait" /\ todsp_ctl = "IDLE"
     \/ task = "ack" /\ todsp_ctl # "IDLE"
  /\ togpp_ctl' = "IDLE"
  /\ task' = "finish"
  /\ cmd' = NULL
  /\ UNCHANGED <<gpp, channel, todsp_ctl, todsp_cmd, togpp_ret>>

FastcallFinish ==
  /\ task = "finish"
  /\ togpp_ctl' = "DONE"
  /\ task' = "done"
  /\ UNCHANGED <<gpp, channel, todsp_ctl, todsp_cmd, togpp_ret, cmd>>

(* mlb_send_to_gpp, the interrupt it raises and dev_handle_reply.          *)
Reply ==
  /\ task = "done"
  /\ task' = "idle"
  /\ ready' = TRUE
  /\ current_client' = NULL
  /\ avail' = [c \in Clients |-> avail[c] \/ c = current_client]
  /\ UNCHANGED <<pc, no, got, msg, words, cmd>>
-----------------------------------------------------------------------------
(* A client in the middle of a call; the program between two calls.        *)
Step(c) ==
  \/ RpcSendWrite(c) \/ RpcSendGivesUp(c)
  \/ dsp_fastcall_rpc_send(c) \/ FastcallSendTimeout(c)
  \/ dsp_fastcall_rpc_recv(c) \/ FastcallRead(c) \/ FastcallRecvTimeout(c)
  \/ dsp_fastcall_end(c) \/ dsp_rpc_recv(c)
  \/ ReleaseIdle(c) \/ mlb_fastcall_end(c) \/ FastcallEndDone(c)

Dsp ==
  \/ mlb_fastcall_initiate
  \/ FastcallBegin \/ FastcallExec \/ FastcallAck \/ FastcallAcked
  \/ FastcallOver \/ FastcallTimeout \/ FastcallFinish \/ Reply

Next ==
  \/ \E c \in Clients :
       dsp_rpc_send(c) \/ Step(c) \/ Again(c) \/ Kill(c)
  \/ Dsp

Spec == Init /\ [][Next]_vars

(* Both CPUs run; who waits for a mutex that becomes free again and again  *)
(* gets it; a program that is in a sequence ends it.                       *)
FairSpec ==
  /\ Spec
  /\ \A c \in Clients :
       /\ SF_vars(Step(c))
       /\ SF_vars(pc[c] = "called" /\ Again(c) /\ pc'[c] = "end")
  /\ WF_vars(Dsp)
-----------------------------------------------------------------------------
Ctl == {"DONE", "IDLE", "REQ", "ACK"}
Calls == (Clients \X (0 .. NumCalls - 1)) \cup {NULL}

(* Types.                                                                  *)
TypeOK ==
  /\ pc \in [Clients -> Sequence \cup {"idle", "send", "dead", "endwait", "endidle"}]
  /\ no \in [Clients -> 0 .. NumCalls - 1]
  /\ got \in [Clients -> Calls]
  /\ avail \in [Clients -> BOOLEAN]
  /\ current_client \in Clients \cup {NULL}
  /\ ready \in BOOLEAN
  /\ msg \in BOOLEAN
  /\ todsp_ctl \in Ctl
  /\ togpp_ctl \in Ctl
  /\ todsp_cmd \in Calls
  /\ togpp_ret \in Calls
  /\ task \in {"idle", "wait", "exec", "executed", "ack", "finish", "done"}
  /\ cmd \in Calls

(* The return values dsp_fastcall_rpc hands out are those of the call it   *)
(* has made: not of an earlier call, and not of another client's, though   *)
(* they are read after the handshake that lets the DSP go on.              *)
OwnResult == \A c \in Clients : got[c] # NULL => got[c] = Call(c)

(* Among clients in a sequence, the DSP executes a call while its caller   *)
(* waits for it: not a second time, and none of a client that is gone or   *)
(* has given up.                                                           *)
ServesTheCaller ==
  \A c \in Clients :
    pc[c] \in {"wait", "recv", "read", "called"} /\ task \in {"exec", "executed"} =>
      pc[c] = "recv" /\ cmd = Call(c)

(* The sequence of a client that dies, at whatever point, does not tie the *)
(* DSP up for ever.                                                        *)
DspFreed == task # "idle" ~> task = "idle" /\ ready

(* Every call of a client, and every close, returns.                       *)
CallsReturn == \A c \in Clients : pc[c] # "idle" ~> pc[c] = "idle"
=============================================================================
