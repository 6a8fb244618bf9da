--------------------------------- MODULE Dev --------------------------------
(***************************************************************************)
(* The message channel between the ARM (GPP) and the C64+ DSP: the clients *)
(* of /dev/c64 (kmod/dev.c), the mailbox driver (kmod/mlb.c), the power    *)
(* state (kmod/dsp_c64.c) and the task that serves requests on the DSP     *)
(* (dsp/libc64_dsp/src/mlb.c).                                             *)
(*                                                                         *)
(* Every file operation but read and OVERLAY_REF holds mtx_clients.  One   *)
(* that the mailbox interrupt (or the DSP) can observe half done is split: *)
(* pc says where the holder of the mutex is, who is its client.            *)
(*   "claimed"  write: between the reservation of the channel and the test *)
(*              of at_b_ready_to_send                                      *)
(*   "posting"  mlb_send_to_dsp: the serial is written, the message not yet*)
(*   "unload"   release: waiting to send an emergency unload               *)
(*   "closing"  release: the rest of it                                    *)
(*                                                                         *)
(* Left to other modules: memory, fastcall sequences (no message here      *)
(* begins one, so mlb_fastcall_end finds TOGPP_CTL = DONE and returns), and*)
(* power switches the hardware does not complete.                          *)
(***************************************************************************)
EXTENDS Naturals, FiniteSets

CONSTANTS
  Clients,    \* the client slots (dev_client_t clients[])
  Msgs,       \* the messages clients send
  Unknown,    \* those addressed to a component the DSP does not have
  Sections,   \* overlay sections
  NULL,
  SerialSize, \* 2^32 on the target: msg_serial is an sU32
  MaxOpens,   \* bound on at_num_open, to keep the model finite
  c64_pwroff, \* module parameter: may the DSP be powered off
  Killable,   \* clients that may end, or give up, whatever they have under way
  Debuggers,  \* clients that send 4 byte test messages
  TornPosts   \* may the DSP look at a message while it is being written

ASSUME DevAssumption ==
  /\ IsFiniteSet(Clients)
  /\ NULL \notin Clients \cup Msgs \cup {"unload"}
  /\ Unknown \subseteq Msgs
  /\ SerialSize \in Nat \ {0}
  /\ MaxOpens \in Nat
  /\ c64_pwroff \in BOOLEAN
  /\ TornPosts \in BOOLEAN

VARIABLES
  at_state, current_client, req, ret, \* dev.c: dev_client_t; req and ret are dsp_msg
  at_num_open, mask, flags, used,     \* dev.c: client_powerstate_mask, overlay flags
  pc, who,                            \* the holder of mtx_clients
  ready, msg_serial, outgoing,        \* mlb.c: at_b_ready_to_send, the _msg argument
  ipc_serial, ipc_req, ipc_ret,       \* the message area in L1DSRAM
  fifo0, fifo1,                       \* a mailbox message is waiting for the DSP, for the GPP
  dsp_state, entry,                   \* dsp_c64.c: at_dsp_state, dsp_entry_point # 0
  task, exec, irq, echo, oldMsgSerial \* the DSP's mlb task and interrupt

client == <<at_state, current_client, req, ret>>
files == <<at_num_open, mask, flags, used>>
holder == <<pc, who>>
driver == <<ready, msg_serial, outgoing>>
shared == <<ipc_serial, ipc_req, ipc_ret, fifo0, fifo1>>
power == <<dsp_state, entry>>
dsp == <<task, exec, irq, echo, oldMsgSerial>>
vars == <<at_state, current_client, req, ret, at_num_open, mask, flags, used,
          pc, who, ready, msg_serial, outgoing,
          ipc_serial, ipc_req, ipc_ret, fifo0, fifo1, dsp_state, entry,
          task, exec, irq, echo, oldMsgSerial>>

Requests == Msgs \cup {"unload"}

(* The module is loaded, the DSP is off.                                   *)
Init ==
  /\ at_state = [c \in Clients |-> "UNUSED"]
  /\ current_client = NULL
  /\ req = [c \in Clients |-> NULL]
  /\ ret = [c \in Clients |-> NULL]
  /\ at_num_open = 0
  /\ mask = {}
  /\ flags = [c \in Clients |-> {}]
  /\ used = {}
  /\ pc = "free"
  /\ who = NULL
  /\ ready = TRUE
  /\ msg_serial = 0
  /\ outgoing = NULL
  /\ ipc_serial = 0
  /\ ipc_req = NULL
  /\ ipc_ret = NULL
  /\ fifo0 = FALSE
  /\ fifo1 = FALSE
  /\ dsp_state = "OFF"
  /\ entry = FALSE
  /\ task = "down"
  /\ exec = NULL
  /\ irq = FALSE
  /\ echo = FALSE
  /\ oldMsgSerial = 0
-----------------------------------------------------------------------------
(* Power.  At boot the task forgets the last serial; a message left in the *)
(* mailbox is taken by an interrupt the task may be too young to notice.   *)
Boot ==
  /\ dsp_state' = "RUNNING"
  /\ task' = "idle"
  /\ exec' = NULL
  /\ irq' = FALSE
  /\ echo' = FALSE
  /\ oldMsgSerial' = 0
  /\ fifo0' \in {FALSE, fifo0}
  /\ UNCHANGED <<entry, ipc_serial, ipc_req, ipc_ret, fifo1>>

dsp_resume ==
  IF dsp_state = "OFF" /\ entry THEN Boot ELSE UNCHANGED <<power, dsp, shared>>

dsp_poweroff ==
  /\ dsp_state' = "OFF"
  /\ task' = "down"
  /\ exec' = NULL
  /\ irq' = FALSE
  /\ echo' = FALSE
  /\ UNCHANGED <<entry, oldMsgSerial, shared>>
-----------------------------------------------------------------------------
NextSerial(n) == (n + 1) % SerialSize

(* Mutant: at_b_ready_to_send is left alone.                               *)
mlb_send_to_dsp_StaysReady(m) ==
  /\ UNCHANGED ready
  /\ msg_serial' = NextSerial(msg_serial)
  /\ fifo0' = FALSE
  /\ fifo1' = FALSE
  /\ ipc_serial' = NextSerial(msg_serial)
  /\ outgoing' = m
  /\ pc' = "posting"
  /\ UNCHANGED <<ipc_req, ipc_ret, dsp>>

(* mlb_send_to_dsp, after the test of at_b_ready_to_send.  The mailbox     *)
(* reset (DSP_MAILBOX_RESET) empties both FIFOs, so the FIFO is never full.*)
(* m is NULL in a test message.                                            *)
mlb_send_to_dsp(m) ==
  /\ ready' = FALSE
  /\ msg_serial' = NextSerial(msg_serial)
  /\ fifo0' = FALSE
  /\ fifo1' = FALSE
  /\ ipc_serial' = NextSerial(msg_serial)
  /\ outgoing' = m
  /\ pc' = "posting"
  /\ UNCHANGED <<ipc_req, ipc_ret, dsp>>

(* The rest of mlb_send_to_dsp, and of the write that called it.           *)
Post ==
  /\ pc = "posting"
  /\ ipc_req' = IF outgoing = NULL THEN ipc_req ELSE outgoing
  /\ fifo0' = TRUE
  /\ outgoing' = NULL
  /\ IF at_state[who] = "UNUSED"
     THEN pc' = "closing" /\ UNCHANGED who
     ELSE pc' = "free" /\ who' = NULL
  /\ UNCHANGED <<client, files, ready, msg_serial, ipc_serial, ipc_ret, fifo1, power, dsp>>
-----------------------------------------------------------------------------
(* dev.c.  A client is one thread: it makes one call at a time.            *)
Open(c) == at_state[c] # "UNUSED" /\ who # c

(* What libc64 does: it waits for the reply before it goes on, and frees   *)
(* its overlays before it closes.  A killed process does not, and neither  *)
(* does one whose dsp_rpc_recv has given up after 5 seconds.               *)
Waits(c) == at_state[c] # "REPLY_PENDING" \/ c \in Killable
CleansUp(c) == flags[c] = {} \/ c \in Killable

fops__open(c) ==
  /\ pc = "free"
  /\ at_num_open < MaxOpens
  /\ at_state[c] = "UNUSED"
  /\ at_num_open' = at_num_open + 1
  /\ at_state' = [at_state EXCEPT ![c] = "IDLE"]
  /\ UNCHANGED <<current_client, req, ret, mask, flags, used, holder, driver, shared, power, dsp>>

(* All slots are in use: -EMFILE, and at_num_open is not taken back.       *)
OpenFails ==
  /\ pc = "free"
  /\ at_num_open < MaxOpens
  /\ \A c \in Clients : at_state[c] # "UNUSED"
  /\ at_num_open' = at_num_open + 1
  /\ UNCHANGED <<client, mask, flags, used, holder, driver, shared, power, dsp>>

(* Mutant: a message is sent while another one is under way.               *)
fops__write_AnyTime(c, m) ==
  /\ pc = "free"
  /\ Open(c)
  /\ Waits(c)
  /\ c \in mask
  /\ dsp_state = "RUNNING"
  /\ req' = [req EXCEPT ![c] = m]
  /\ current_client' = c
  /\ at_state' = [at_state EXCEPT ![c] = "REPLY_PENDING"]
  /\ ready' = TRUE
  /\ pc' = "claimed"
  /\ who' = c
  /\ UNCHANGED <<ret, files, msg_serial, outgoing, shared, power, dsp>>

(* write of a message: the channel is reserved.  A client resumes the DSP  *)
(* before it writes.                                                       *)
fops__write(c, m) ==
  /\ pc = "free"
  /\ Open(c)
  /\ Waits(c)
  /\ c \in mask
  /\ dsp_state = "RUNNING"
  /\ current_client = NULL
  /\ req' = [req EXCEPT ![c] = m]
  /\ current_client' = c
  /\ at_state' = [at_state EXCEPT ![c] = "REPLY_PENDING"]
  /\ pc' = "claimed"
  /\ who' = c
  /\ UNCHANGED <<ret, files, driver, shared, power, dsp>>

WriteSend ==
  /\ pc = "claimed"
  /\ ready
  /\ mlb_send_to_dsp(req[who])
  /\ UNCHANGED <<client, files, who, power>>

(* -EAGAIN: a reply is still owed to somebody.                             *)
WriteFail ==
  /\ pc = "claimed"
  /\ ~ ready
  /\ current_client' = NULL
  /\ at_state' = [at_state EXCEPT ![who] = "IDLE"]
  /\ pc' = "free"
  /\ who' = NULL
  /\ UNCHANGED <<req, ret, files, driver, shared, power, dsp>>

(* write of 4 bytes: sent at once, whatever is under way.                  *)
testmsg(c) ==
  /\ pc = "free"
  /\ Open(c)
  /\ c \in Debuggers
  /\ current_client' = NULL
  /\ mlb_send_to_dsp(NULL)
  /\ who' = c
  /\ UNCHANGED <<at_state, req, ret, files, power>>

(* read takes no mutex.                                                    *)
fops__read(c) ==
  /\ Open(c)
  /\ at_state[c] = "REPLY_AVAIL"
  /\ at_state' = [at_state EXCEPT ![c] = "IDLE"]
  /\ UNCHANGED <<current_client, req, ret, files, holder, driver, shared, power, dsp>>

(* Mutant: the client stays the current one.                               *)
fops__release_StaysCurrent(c) ==
  /\ pc = "free"
  /\ Open(c)
  /\ Waits(c)
  /\ CleansUp(c)
  /\ at_num_open' = at_num_open - 1
  /\ at_state' = [at_state EXCEPT ![c] = "UNUSED"]
  /\ mask' = mask \ {c}
  /\ UNCHANGED current_client
  /\ pc' = "closing"
  /\ who' = c
  /\ UNCHANGED <<req, ret, flags, used, driver, shared, power, dsp>>

fops__release(c) ==
  /\ pc = "free"
  /\ Open(c)
  /\ Waits(c)
  /\ CleansUp(c)
  /\ at_num_open' = at_num_open - 1
  /\ at_state' = [at_state EXCEPT ![c] = "UNUSED"]
  /\ mask' = mask \ {c}
  /\ current_client' = IF current_client = c THEN NULL ELSE current_client
  /\ pc' = "closing"
  /\ who' = c
  /\ UNCHANGED <<req, ret, flags, used, driver, shared, power, dsp>>

(* The client left overlays behind: make sure the DSP is on ...            *)
UnloadBegin ==
  /\ pc = "closing"
  /\ flags[who] # {}
  /\ dsp_resume
  /\ pc' = "unload"
  /\ UNCHANGED <<client, files, who, driver>>

(* ... and unload one, unless the wait for the channel times out: then the *)
(* section is lost.                                                        *)
UnloadSend ==
  /\ pc = "unload"
  /\ ready
  /\ \E s \in flags[who] :
       /\ flags' = [flags EXCEPT ![who] = @ \ {s}]
       /\ used' = used \ {s}
  /\ mlb_send_to_dsp("unload")
  /\ UNCHANGED <<client, at_num_open, mask, who, power>>

UnloadTimeout ==
  /\ pc = "unload"
  /\ ~ ready
  /\ \E s \in flags[who] : flags' = [flags EXCEPT ![who] = @ \ {s}]
  /\ pc' = "closing"
  /\ UNCHANGED <<client, at_num_open, mask, used, who, driver, shared, power, dsp>>

(* The last user is gone: the DSP is powered off if it is not busy.        *)
ReleaseEnd ==
  /\ pc = "closing"
  /\ flags[who] = {}
  /\ IF mask = {} /\ ready /\ c64_pwroff
     THEN dsp_poweroff
     ELSE UNCHANGED <<power, dsp, shared>>
  /\ pc' = "free"
  /\ who' = NULL
  /\ UNCHANGED <<client, files, driver>>
-----------------------------------------------------------------------------
(* The ioctls.                                                             *)
(* The loader's: it has no overlays.                                       *)
PWR_ON_RST(c) ==
  /\ pc = "free"
  /\ Open(c)
  /\ flags[c] = {}
  /\ at_num_open = 1
  /\ dsp_state = "OFF"
  /\ dsp_state' = "RESET"
  /\ UNCHANGED <<client, files, holder, driver, shared, entry, dsp>>

START(c) ==
  /\ pc = "free"
  /\ Open(c)
  /\ at_num_open = 1
  /\ dsp_state = "RESET"
  /\ entry' = TRUE
  /\ dsp_state' = "RUNNING"
  /\ task' = "idle"
  /\ exec' = NULL
  /\ irq' = FALSE
  /\ echo' = FALSE
  /\ oldMsgSerial' = 0
  /\ fifo0' \in {FALSE, fifo0}
  /\ UNCHANGED <<client, files, holder, driver, ipc_serial, ipc_req, ipc_ret, fifo1>>

(* Mutant: powers off although other clients use the DSP.                  *)
PWR_OFF_Always(c) ==
  /\ pc = "free"
  /\ Open(c)
  /\ Waits(c)
  /\ mask' = mask \ {c}
  /\ IF c64_pwroff THEN dsp_poweroff ELSE UNCHANGED <<power, dsp, shared>>
  /\ UNCHANGED <<client, at_num_open, flags, used, holder, driver>>

PWR_OFF(c) ==
  /\ pc = "free"
  /\ Open(c)
  /\ Waits(c)
  /\ mask' = mask \ {c}
  /\ IF mask \ {c} = {} /\ c64_pwroff
     THEN dsp_poweroff
     ELSE UNCHANGED <<power, dsp, shared>>
  /\ UNCHANGED <<client, at_num_open, flags, used, holder, driver>>

RESUME(c) ==
  /\ pc = "free"
  /\ Open(c)
  /\ mask' = mask \cup {c}
  /\ dsp_resume
  /\ UNCHANGED <<client, at_num_open, flags, used, holder, driver>>

(* libc64 asks for a section after the DSP has told it that the component  *)
(* it wants is not loaded.                                                 *)
OVERLAY_ALLOC(c) ==
  /\ pc = "free"
  /\ Open(c)
  /\ c \in mask
  /\ dsp_state = "RUNNING"
  /\ \E s \in Sections \ used :
       /\ used' = used \cup {s}
       /\ flags' = [flags EXCEPT ![c] = @ \cup {s}]
  /\ UNCHANGED <<client, at_num_open, mask, holder, driver, shared, power, dsp>>

OVERLAY_FREE(c) ==
  /\ pc = "free"
  /\ Open(c)
  /\ \E s \in flags[c] :
       /\ used' = used \ {s}
       /\ flags' = [flags EXCEPT ![c] = @ \ {s}]
  /\ UNCHANGED <<client, at_num_open, mask, holder, driver, shared, power, dsp>>

(* The client has found a component in a section somebody else loaded.     *)
OVERLAY_REF(c) ==
  /\ Open(c)
  /\ c \in mask
  /\ dsp_state = "RUNNING"
  /\ \E s \in used : flags' = [flags EXCEPT ![c] = @ \cup {s}]
  /\ UNCHANGED <<client, at_num_open, mask, used, holder, driver, shared, power, dsp>>
-----------------------------------------------------------------------------
(* Mutant: the channel stays reserved.                                     *)
dev_handle_reply_KeepsCurrent ==
  IF current_client # NULL /\ at_state[current_client] = "REPLY_PENDING"
  THEN /\ ret' = [ret EXCEPT ![current_client] = ipc_ret]
       /\ at_state' = [at_state EXCEPT ![current_client] = "REPLY_AVAIL"]
       /\ UNCHANGED <<req, current_client>>
  ELSE UNCHANGED client

(* dev_handle_reply.                                                       *)
dev_handle_reply ==
  IF current_client # NULL /\ at_state[current_client] = "REPLY_PENDING"
  THEN /\ ret' = [ret EXCEPT ![current_client] = ipc_ret]
       /\ at_state' = [at_state EXCEPT ![current_client] = "REPLY_AVAIL"]
       /\ current_client' = NULL
       /\ UNCHANGED req
  ELSE UNCHANGED client

(* Mutant: only a reply somebody waits for frees the channel.              *)
irq_handler__mlb_IfCurrent ==
  /\ fifo1
  /\ ~ ready
  /\ fifo1' = FALSE
  /\ ready' = (current_client # NULL)
  /\ dev_handle_reply
  /\ UNCHANGED <<files, holder, msg_serial, outgoing, ipc_serial, ipc_req, ipc_ret, fifo0, power, dsp>>

(* The GPP's mailbox interrupt.  It is disabled (IRQENABLE_0) by its own   *)
(* handler and enabled by mlb_send_to_dsp, exactly as ready is set and     *)
(* cleared.                                                                *)
irq_handler__mlb ==
  /\ fifo1
  /\ ~ ready
  /\ fifo1' = FALSE
  /\ ready' = TRUE
  /\ dev_handle_reply
  /\ UNCHANGED <<files, holder, msg_serial, outgoing, ipc_serial, ipc_req, ipc_ret, fifo0, power, dsp>>
-----------------------------------------------------------------------------
(* The DSP.  A message raises "at least two" interrupts (mlb.c): echo says *)
(* that more of them may come.                                             *)
mlb_irq_handler ==
  /\ task # "down"
  /\ fifo0
  /\ fifo0' = FALSE
  /\ irq' = TRUE
  /\ echo' = TRUE
  /\ UNCHANGED <<client, files, holder, driver, ipc_serial, ipc_req, ipc_ret, fifo1, power,
                 task, exec, oldMsgSerial>>

InterruptSpam ==
  /\ task # "down"
  /\ echo
  /\ irq' = TRUE
  /\ UNCHANGED <<client, files, holder, driver, shared, power, task, exec, echo, oldMsgSerial>>

(* Mutant: every interrupt is taken for a message.                         *)
IsNew_Always(serial) == TRUE

IsNew(serial) == oldMsgSerial # serial

(* The task sees that num_irqs has changed.  An interrupt that waits is    *)
(* taken first.                                                            *)
Wake ==
  /\ task = "idle"
  /\ irq
  /\ ~ fifo0
  /\ pc = "posting" => TornPosts
  /\ irq' = FALSE
  /\ IF IsNew(ipc_serial)
     THEN /\ oldMsgSerial' = ipc_serial
          /\ task' = "busy"
          /\ exec' = ipc_req
     ELSE UNCHANGED <<oldMsgSerial, task, exec>>
  /\ UNCHANGED <<client, files, holder, driver, shared, power, echo>>

(* Mutant: a message to a component that does not exist is not answered.   *)
MustReply_IfFound(m) == m \in Requests \ Unknown

MustReply(m) == TRUE

(* The message has been executed; the result of m is written m.  If there  *)
(* is no such component the last result is left where it is.               *)
Execute ==
  /\ task = "busy"
  /\ ipc_ret' = IF exec \in Unknown \/ exec = NULL THEN ipc_ret ELSE exec
  /\ fifo1' = (fifo1 \/ MustReply(exec))
  /\ task' = "idle"
  /\ exec' = NULL
  /\ UNCHANGED <<client, files, holder, driver, ipc_serial, ipc_req, fifo0, power,
                 irq, echo, oldMsgSerial>>
-----------------------------------------------------------------------------
(* What a client asks for, what the mutex holder goes on with, the rest.   *)
Request(c) ==
  \/ fops__open(c) \/ fops__read(c) \/ fops__release(c) \/ testmsg(c)
  \/ \E m \in Msgs : fops__write(c, m)
  \/ PWR_ON_RST(c) \/ START(c) \/ PWR_OFF(c) \/ RESUME(c)
  \/ OVERLAY_ALLOC(c) \/ OVERLAY_FREE(c) \/ OVERLAY_REF(c)

Proceed ==
  \/ Post \/ WriteSend \/ WriteFail
  \/ UnloadBegin \/ UnloadSend \/ UnloadTimeout \/ ReleaseEnd

Next ==
  \/ \E c \in Clients : Request(c)
  \/ OpenFails
  \/ Proceed
  \/ irq_handler__mlb
  \/ mlb_irq_handler \/ InterruptSpam \/ Wake \/ Execute

Spec == Init /\ [][Next]_vars

(* No loop waits forever with the mutex held, interrupts are delivered, and*)
(* the DSP runs: BIOS' timer tick ends the IDLE of its loop.  Nothing is   *)
(* assumed about clients.                                                  *)
FairSpec ==
  /\ Spec
  /\ WF_vars(Proceed)
  /\ WF_vars(irq_handler__mlb)
  /\ WF_vars(mlb_irq_handler)
  /\ WF_vars(Wake)
  /\ WF_vars(Execute)
-----------------------------------------------------------------------------
ClientType ==
  /\ at_state \in [Clients -> {"UNUSED", "IDLE", "REPLY_PENDING", "REPLY_AVAIL"}]
  /\ current_client \in Clients \cup {NULL}
  /\ req \in [Clients -> Msgs \cup {NULL}]
  /\ ret \in [Clients -> Requests \cup {NULL}]
  /\ who \in Clients \cup {NULL}

FilesType ==
  /\ at_num_open \in 0 .. MaxOpens
  /\ mask \subseteq Clients
  /\ flags \in [Clients -> SUBSET Sections]
  /\ used \subseteq Sections

WireType ==
  /\ pc \in {"free", "claimed", "posting", "unload", "closing"}
  /\ ready \in BOOLEAN
  /\ outgoing \in Requests \cup {NULL}
  /\ ipc_req \in Requests \cup {NULL}
  /\ ipc_ret \in Requests \cup {NULL}
  /\ exec \in Requests \cup {NULL}
  /\ fifo0 \in BOOLEAN
  /\ fifo1 \in BOOLEAN

SerialType ==
  /\ msg_serial \in 0 .. SerialSize - 1
  /\ ipc_serial \in 0 .. SerialSize - 1
  /\ oldMsgSerial \in 0 .. SerialSize - 1

DspType ==
  /\ dsp_state \in {"OFF", "RESET", "RUNNING"}
  /\ entry \in BOOLEAN
  /\ task \in {"down", "idle", "busy"}
  /\ irq \in BOOLEAN
  /\ echo \in BOOLEAN

(* Type invariant.                                                         *)
TypeOK == ClientType /\ FilesType /\ WireType /\ SerialType /\ DspType

(* A reply that waits to be picked up is the result of the very message    *)
(* the client wrote, whoever wrote, suspended or closed in the meantime.   *)
AnswersOwn ==
  \A c \in Clients :
    at_state[c] = "REPLY_AVAIL" /\ req[c] \notin Unknown => ret[c] = req[c]

(* Nothing is on its way to the task: no message half written or in the    *)
(* mailbox, no interrupt that the task would take for a message.           *)
Settled ==
  /\ pc # "posting"
  /\ ~ fifo0
  /\ irq \/ echo => ~ IsNew(ipc_serial)

(* At most one message is under way, as the single message area in shared  *)
(* memory demands: while the DSP executes one, or its reply waits, nothing *)
(* else is on its way; and at_b_ready_to_send, "false while waiting for    *)
(* reply from DSP", is true only if there is none at all.                  *)
OneInFlight ==
  /\ ready \/ task = "busy" \/ fifo1 => Settled
  /\ ready => task # "busy" /\ ~ fifo1
  /\ ~ (task = "busy" /\ fifo1)

(* Nobody who does not wait for a reply keeps the others out.              *)
ReservedIsPending ==
  \A c \in Clients : current_client = c => at_state[c] = "REPLY_PENDING"

(* The client the channel is reserved for waits for a reply, and nobody    *)
(* else does: a reply is never owed to a client dev_handle_reply will not  *)
(* look at, and nobody who does not wait keeps the others out.             *)
CurrentIsPending ==
  \A c \in Clients : at_state[c] = "REPLY_PENDING" <=> current_client = c

(* The DSP is never switched off under a client that waits for it.         *)
PendingPowered ==
  \A c \in Clients : at_state[c] = "REPLY_PENDING" => dsp_state = "RUNNING" /\ task # "down"

(* "For each message the DSP must send a reply" (msg.h): every call ends.  *)
Answered ==
  \A c \in Clients : at_state[c] = "REPLY_PENDING" ~> at_state[c] # "REPLY_PENDING"

(* ... except for the one whose serial is the one the DSP boots with.      *)
AnsweredUnlessWrapped ==
  \A c \in Clients :
    at_state[c] = "REPLY_PENDING" /\ pc # "claimed" /\ msg_serial # 0
      ~> at_state[c] # "REPLY_PENDING"

(* The channel always becomes free again.                                  *)
Recovers == ~ ready ~> ready

call ==
  [c \in Clients |->
     CASE at_state[c] = "UNUSED" -> [st |-> "closed", msg |-> NULL, res |-> NULL]
       [] at_state[c] = "REPLY_PENDING" /\ pc # "claimed" ->
            [st |-> "sent", msg |-> req[c], res |-> NULL]
       [] at_state[c] = "REPLY_AVAIL" -> [st |-> "answered", msg |-> req[c], res |-> ret[c]]
       [] OTHER -> [st |-> "idle", msg |-> NULL, res |-> NULL]]

R == INSTANCE Rpc WITH call <- call

(* The channel implements remote procedure calls: one at a time, and each  *)
(* client is given its own result.                                         *)
ImplementsRpc == R!Spec
=============================================================================
