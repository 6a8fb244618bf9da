------------------------------ MODULE DevProofs ------------------------------
(***************************************************************************)
(* Proofs about the message channel, for any number of clients, messages   *)
(* and overlay sections.                                                   *)
(***************************************************************************)
EXTENDS Dev, FiniteSetTheorems, TLAPS

OpenSlots == {c \in Clients : at_state[c] # "UNUSED"}

(* at_num_open may count too many clients, never too few.                  *)
Counted == Cardinality(OpenSlots) <= at_num_open

(* Who holds the mutex, and what for.                                      *)
Holder ==
  /\ pc = "free" => who = NULL
  /\ pc # "free" => who \in Clients
  /\ pc \in {"unload", "closing"} => at_state[who] = "UNUSED"
  /\ pc = "claimed" => at_state[who] # "UNUSED" /\ current_client \in {who, NULL}

IInv == TypeOK /\ Counted /\ Holder

(* The clients behave, nothing is debugged, messages are written at once.  *)
Orderly == Killable = {} /\ Debuggers = {} /\ ~ TornPosts

(* A reply that waits to be picked up.                                     *)
Picked == \A c \in Clients : at_state[c] = "REPLY_AVAIL" => ret[c] = req[c] \/ req[c] \in Unknown

(* The message area and the result area belong to the client that waits.   *)
Served ==
  /\ pc # "unload"
  /\ pc = "closing" => flags[who] = {}
  /\ pc = "claimed" => ready /\ current_client = who
  /\ pc = "posting" => current_client = who /\ outgoing = req[who]
  /\ ready /\ current_client # NULL => pc = "claimed"
  /\ ~ ready => current_client # NULL
  /\ ~ ready /\ pc # "posting" => ipc_req = req[current_client]
  /\ current_client # NULL => req[current_client] # NULL
  /\ task = "busy" => exec = req[current_client]
  /\ fifo1 => ipc_ret = req[current_client] \/ req[current_client] \in Unknown
  /\ Picked

(* A client that waits is in the mask, which keeps the DSP on.             *)
Powered ==
  /\ dsp_state = "RUNNING" <=> task # "down"
  /\ \A c \in Clients : at_state[c] = "REPLY_PENDING" => c \in mask /\ dsp_state = "RUNNING"

OrderlyInv == IInv /\ OneInFlight /\ CurrentIsPending /\ Served
-----------------------------------------------------------------------------
(* The types, one part at a time.                                          *)
(* Every step keeps the types of the clients.                              *)
LEMMA ClientTypeStep ==
  ASSUME TypeOK, Holder, [Next]_vars
  PROVE  ClientType'
<1>1. ASSUME NEW c \in Clients, fops__open(c) PROVE ClientType'
  BY <1>1 DEF fops__open, holder, TypeOK, ClientType
<1>2. ASSUME NEW c \in Clients, fops__read(c) PROVE ClientType'
  BY <1>2 DEF fops__read, holder, TypeOK, ClientType
<1>3. ASSUME NEW c \in Clients, fops__release(c) PROVE ClientType'
  BY <1>3 DEF fops__release, TypeOK, ClientType
<1>4. ASSUME NEW c \in Clients, testmsg(c) PROVE ClientType'
  BY <1>4 DEF testmsg, mlb_send_to_dsp, TypeOK, ClientType
<1>5. ASSUME NEW c \in Clients, PWR_ON_RST(c) PROVE ClientType'
  BY <1>5 DEF PWR_ON_RST, client, holder, TypeOK, ClientType
<1>6. ASSUME NEW c \in Clients, START(c) PROVE ClientType'
  BY <1>6 DEF START, client, holder, TypeOK, ClientType
<1>7. ASSUME NEW c \in Clients, PWR_OFF(c) PROVE ClientType'
  BY <1>7 DEF PWR_OFF, dsp_poweroff, client, holder, TypeOK, ClientType
<1>8. ASSUME NEW c \in Clients, RESUME(c) PROVE ClientType'
  BY <1>8 DEF RESUME, dsp_resume, Boot, client, holder, TypeOK, ClientType
<1>9. ASSUME NEW c \in Clients, OVERLAY_ALLOC(c) PROVE ClientType'
  BY <1>9 DEF OVERLAY_ALLOC, client, holder, TypeOK, ClientType
<1>10. ASSUME NEW c \in Clients, OVERLAY_FREE(c) PROVE ClientType'
  BY <1>10 DEF OVERLAY_FREE, client, holder, TypeOK, ClientType
<1>11. ASSUME NEW c \in Clients, OVERLAY_REF(c) PROVE ClientType'
  BY <1>11 DEF OVERLAY_REF, client, holder, TypeOK, ClientType
<1>12. ASSUME NEW c \in Clients, NEW m \in Msgs, fops__write(c, m) PROVE ClientType'
  BY <1>12 DEF fops__write, TypeOK, ClientType
<1>13. CASE OpenFails
  BY <1>13 DEF OpenFails, client, holder, TypeOK, ClientType
<1>14. CASE Post
  BY <1>14 DEF Post, client, TypeOK, ClientType
<1>15. CASE WriteSend
  BY <1>15 DEF WriteSend, mlb_send_to_dsp, client, TypeOK, ClientType
<1>16. CASE WriteFail
  BY <1>16 DEF WriteFail, TypeOK, ClientType
<1>17. CASE UnloadBegin
  BY <1>17 DEF UnloadBegin, dsp_resume, Boot, client, TypeOK, ClientType
<1>18. CASE UnloadSend
  BY <1>18 DEF UnloadSend, mlb_send_to_dsp, client, TypeOK, ClientType
<1>19. CASE UnloadTimeout
  BY <1>19 DEF UnloadTimeout, client, TypeOK, ClientType
<1>20. CASE ReleaseEnd
  BY <1>20 DEF ReleaseEnd, dsp_poweroff, client, TypeOK, ClientType
<1>21. CASE irq_handler__mlb
  BY <1>21 DEF irq_handler__mlb, dev_handle_reply, client, holder, TypeOK,
       ClientType, WireType, Holder, Requests, Open
<1>22. CASE mlb_irq_handler
  BY <1>22 DEF mlb_irq_handler, client, holder, TypeOK, ClientType
<1>23. CASE InterruptSpam
  BY <1>23 DEF InterruptSpam, client, holder, TypeOK, ClientType
<1>24. CASE Wake
  BY <1>24 DEF Wake, client, holder, TypeOK, ClientType
<1>25. CASE Execute
  BY <1>25 DEF Execute, client, holder, TypeOK, ClientType
<1>26. CASE UNCHANGED vars
  BY <1>26 DEF vars, TypeOK, ClientType
<1> QED
  BY <1>1, <1>2, <1>3, <1>4, <1>5, <1>6, <1>7, <1>8, <1>9, <1>10, <1>11,
       <1>12, <1>13, <1>14, <1>15, <1>16, <1>17, <1>18, <1>19, <1>20, <1>21,
       <1>22, <1>23, <1>24, <1>25, <1>26 DEF Next, Request, Proceed

(* Every step keeps the types of the files and overlay sections.           *)
LEMMA FilesTypeStep ==
  ASSUME TypeOK, Holder, at_num_open > 0 \/ OpenSlots = {}, [Next]_vars
  PROVE  FilesType'
<1>1. ASSUME NEW c \in Clients, fops__open(c) PROVE FilesType'
  BY <1>1, DevAssumption DEF fops__open, TypeOK, FilesType, ClientType,
       Holder, OpenSlots, Open
<1>2. ASSUME NEW c \in Clients, fops__read(c) PROVE FilesType'
  BY <1>2 DEF fops__read, files, TypeOK, FilesType
<1>3. ASSUME NEW c \in Clients, fops__release(c) PROVE FilesType'
  BY <1>3, DevAssumption DEF fops__release, TypeOK, FilesType, ClientType,
       Holder, OpenSlots, Open
<1>4. ASSUME NEW c \in Clients, testmsg(c) PROVE FilesType'
  BY <1>4 DEF testmsg, mlb_send_to_dsp, files, TypeOK, FilesType
<1>5. ASSUME NEW c \in Clients, PWR_ON_RST(c) PROVE FilesType'
  BY <1>5 DEF PWR_ON_RST, files, TypeOK, FilesType
<1>6. ASSUME NEW c \in Clients, START(c) PROVE FilesType'
  BY <1>6 DEF START, files, TypeOK, FilesType
<1>7. ASSUME NEW c \in Clients, PWR_OFF(c) PROVE FilesType'
  BY <1>7 DEF PWR_OFF, dsp_poweroff, TypeOK, FilesType
<1>8. ASSUME NEW c \in Clients, RESUME(c) PROVE FilesType'
  BY <1>8 DEF RESUME, dsp_resume, Boot, TypeOK, FilesType
<1>9. ASSUME NEW c \in Clients, OVERLAY_ALLOC(c) PROVE FilesType'
  BY <1>9 DEF OVERLAY_ALLOC, TypeOK, FilesType
<1>10. ASSUME NEW c \in Clients, OVERLAY_FREE(c) PROVE FilesType'
  BY <1>10 DEF OVERLAY_FREE, TypeOK, FilesType
<1>11. ASSUME NEW c \in Clients, OVERLAY_REF(c) PROVE FilesType'
  BY <1>11 DEF OVERLAY_REF, TypeOK, FilesType
<1>12. ASSUME NEW c \in Clients, NEW m \in Msgs, fops__write(c, m) PROVE FilesType'
  BY <1>12 DEF fops__write, files, TypeOK, FilesType
<1>13. CASE OpenFails
  BY <1>13, DevAssumption DEF OpenFails, TypeOK, FilesType, ClientType,
       Holder, OpenSlots, Open
<1>14. CASE Post
  BY <1>14 DEF Post, files, TypeOK, FilesType
<1>15. CASE WriteSend
  BY <1>15 DEF WriteSend, mlb_send_to_dsp, files, TypeOK, FilesType
<1>16. CASE WriteFail
  BY <1>16 DEF WriteFail, files, TypeOK, FilesType
<1>17. CASE UnloadBegin
  BY <1>17 DEF UnloadBegin, dsp_resume, Boot, files, TypeOK, FilesType
<1>18. CASE UnloadSend
  BY <1>18 DEF UnloadSend, mlb_send_to_dsp, TypeOK, FilesType
<1>19. CASE UnloadTimeout
  BY <1>19 DEF UnloadTimeout, TypeOK, FilesType
<1>20. CASE ReleaseEnd
  BY <1>20 DEF ReleaseEnd, dsp_poweroff, files, TypeOK, FilesType
<1>21. CASE irq_handler__mlb
  BY <1>21 DEF irq_handler__mlb, dev_handle_reply, files, TypeOK, FilesType
<1>22. CASE mlb_irq_handler
  BY <1>22 DEF mlb_irq_handler, files, TypeOK, FilesType
<1>23. CASE InterruptSpam
  BY <1>23 DEF InterruptSpam, files, TypeOK, FilesType
<1>24. CASE Wake
  BY <1>24 DEF Wake, files, TypeOK, FilesType
<1>25. CASE Execute
  BY <1>25 DEF Execute, files, TypeOK, FilesType
<1>26. CASE UNCHANGED vars
  BY <1>26 DEF vars, TypeOK, FilesType
<1> QED
  BY <1>1, <1>2, <1>3, <1>4, <1>5, <1>6, <1>7, <1>8, <1>9, <1>10, <1>11,
       <1>12, <1>13, <1>14, <1>15, <1>16, <1>17, <1>18, <1>19, <1>20, <1>21,
       <1>22, <1>23, <1>24, <1>25, <1>26 DEF Next, Request, Proceed

(* Every step keeps the types of the mailbox and the messages.             *)
LEMMA WireTypeStep ==
  ASSUME TypeOK, Holder, [Next]_vars
  PROVE  WireType'
<1>1. ASSUME NEW c \in Clients, fops__open(c) PROVE WireType'
  BY <1>1 DEF fops__open, holder, driver, shared, dsp, TypeOK, WireType
<1>2. ASSUME NEW c \in Clients, fops__read(c) PROVE WireType'
  BY <1>2 DEF fops__read, holder, driver, shared, dsp, TypeOK, WireType
<1>3. ASSUME NEW c \in Clients, fops__release(c) PROVE WireType'
  BY <1>3 DEF fops__release, driver, shared, dsp, TypeOK, WireType
<1>4. ASSUME NEW c \in Clients, testmsg(c) PROVE WireType'
  BY <1>4 DEF testmsg, mlb_send_to_dsp, dsp, TypeOK, WireType
<1>5. ASSUME NEW c \in Clients, PWR_ON_RST(c) PROVE WireType'
  BY <1>5 DEF PWR_ON_RST, holder, driver, shared, dsp, TypeOK, WireType
<1>6. ASSUME NEW c \in Clients, START(c) PROVE WireType'
  BY <1>6 DEF START, holder, driver, TypeOK, WireType
<1>7. ASSUME NEW c \in Clients, PWR_OFF(c) PROVE WireType'
  BY <1>7 DEF PWR_OFF, dsp_poweroff, holder, driver, shared, dsp, TypeOK,
       WireType
<1>8. ASSUME NEW c \in Clients, RESUME(c) PROVE WireType'
  BY <1>8 DEF RESUME, dsp_resume, Boot, holder, driver, shared, dsp, TypeOK,
       WireType
<1>9. ASSUME NEW c \in Clients, OVERLAY_ALLOC(c) PROVE WireType'
  BY <1>9 DEF OVERLAY_ALLOC, holder, driver, shared, dsp, TypeOK, WireType
<1>10. ASSUME NEW c \in Clients, OVERLAY_FREE(c) PROVE WireType'
  BY <1>10 DEF OVERLAY_FREE, holder, driver, shared, dsp, TypeOK, WireType
<1>11. ASSUME NEW c \in Clients, OVERLAY_REF(c) PROVE WireType'
  BY <1>11 DEF OVERLAY_REF, holder, driver, shared, dsp, TypeOK, WireType
<1>12. ASSUME NEW c \in Clients, NEW m \in Msgs, fops__write(c, m) PROVE WireType'
  BY <1>12 DEF fops__write, driver, shared, dsp, TypeOK, WireType
<1>13. CASE OpenFails
  BY <1>13 DEF OpenFails, holder, driver, shared, dsp, TypeOK, WireType
<1>14. CASE Post
  BY <1>14 DEF Post, dsp, TypeOK, WireType
<1>15. CASE WriteSend
  BY <1>15 DEF WriteSend, mlb_send_to_dsp, dsp, TypeOK, WireType, ClientType,
       Requests, Holder
<1>16. CASE WriteFail
  BY <1>16 DEF WriteFail, driver, shared, dsp, TypeOK, WireType
<1>17. CASE UnloadBegin
  BY <1>17 DEF UnloadBegin, dsp_resume, Boot, driver, shared, dsp, TypeOK,
       WireType
<1>18. CASE UnloadSend
  BY <1>18 DEF UnloadSend, mlb_send_to_dsp, dsp, TypeOK, WireType, Requests,
       MustReply
<1>19. CASE UnloadTimeout
  BY <1>19 DEF UnloadTimeout, driver, shared, dsp, TypeOK, WireType
<1>20. CASE ReleaseEnd
  BY <1>20 DEF ReleaseEnd, dsp_poweroff, driver, shared, dsp, TypeOK, WireType
<1>21. CASE irq_handler__mlb
  BY <1>21 DEF irq_handler__mlb, dev_handle_reply, holder, dsp, TypeOK,
       WireType
<1>22. CASE mlb_irq_handler
  BY <1>22 DEF mlb_irq_handler, holder, driver, TypeOK, WireType
<1>23. CASE InterruptSpam
  BY <1>23 DEF InterruptSpam, holder, driver, shared, TypeOK, WireType
<1>24. CASE Wake
  BY <1>24 DEF Wake, holder, driver, shared, TypeOK, WireType
<1>25. CASE Execute
  BY <1>25 DEF Execute, holder, driver, TypeOK, WireType
<1>26. CASE UNCHANGED vars
  BY <1>26 DEF vars, TypeOK, WireType
<1> QED
  BY <1>1, <1>2, <1>3, <1>4, <1>5, <1>6, <1>7, <1>8, <1>9, <1>10, <1>11,
       <1>12, <1>13, <1>14, <1>15, <1>16, <1>17, <1>18, <1>19, <1>20, <1>21,
       <1>22, <1>23, <1>24, <1>25, <1>26 DEF Next, Request, Proceed

(* Every step keeps the types of the serials.                              *)
LEMMA SerialTypeStep ==
  ASSUME TypeOK, [Next]_vars
  PROVE  SerialType'
<1>1. ASSUME NEW c \in Clients, fops__open(c) PROVE SerialType'
  BY <1>1 DEF fops__open, driver, shared, dsp, TypeOK, SerialType
<1>2. ASSUME NEW c \in Clients, fops__read(c) PROVE SerialType'
  BY <1>2 DEF fops__read, driver, shared, dsp, TypeOK, SerialType
<1>3. ASSUME NEW c \in Clients, fops__release(c) PROVE SerialType'
  BY <1>3 DEF fops__release, driver, shared, dsp, TypeOK, SerialType
<1>4. ASSUME NEW c \in Clients, testmsg(c) PROVE SerialType'
  BY <1>4, DevAssumption DEF testmsg, mlb_send_to_dsp, dsp, TypeOK,
       SerialType, NextSerial
<1>5. ASSUME NEW c \in Clients, PWR_ON_RST(c) PROVE SerialType'
  BY <1>5 DEF PWR_ON_RST, driver, shared, dsp, TypeOK, SerialType
<1>6. ASSUME NEW c \in Clients, START(c) PROVE SerialType'
  BY <1>6, DevAssumption DEF START, driver, TypeOK, SerialType, NextSerial
<1>7. ASSUME NEW c \in Clients, PWR_OFF(c) PROVE SerialType'
  BY <1>7 DEF PWR_OFF, dsp_poweroff, driver, shared, dsp, TypeOK, SerialType
<1>8. ASSUME NEW c \in Clients, RESUME(c) PROVE SerialType'
  <2> DEFINE on == dsp_state = "OFF" /\ entry
  <2>1. CASE on
    BY <1>8, <2>1, DevAssumption DEF RESUME, dsp_resume, Boot, TypeOK, SerialType, driver
  <2>2. CASE ~ on
    BY <1>8, <2>2 DEF RESUME, dsp_resume, TypeOK, SerialType, driver, shared, dsp
  <2> QED  BY <2>1, <2>2
<1>9. ASSUME NEW c \in Clients, OVERLAY_ALLOC(c) PROVE SerialType'
  BY <1>9 DEF OVERLAY_ALLOC, driver, shared, dsp, TypeOK, SerialType
<1>10. ASSUME NEW c \in Clients, OVERLAY_FREE(c) PROVE SerialType'
  BY <1>10 DEF OVERLAY_FREE, driver, shared, dsp, TypeOK, SerialType
<1>11. ASSUME NEW c \in Clients, OVERLAY_REF(c) PROVE SerialType'
  BY <1>11 DEF OVERLAY_REF, driver, shared, dsp, TypeOK, SerialType
<1>12. ASSUME NEW c \in Clients, NEW m \in Msgs, fops__write(c, m) PROVE SerialType'
  BY <1>12 DEF fops__write, driver, shared, dsp, TypeOK, SerialType
<1>13. CASE OpenFails
  BY <1>13 DEF OpenFails, driver, shared, dsp, TypeOK, SerialType
<1>14. CASE Post
  BY <1>14 DEF Post, dsp, TypeOK, SerialType
<1>15. CASE WriteSend
  BY <1>15, DevAssumption DEF WriteSend, mlb_send_to_dsp, dsp, TypeOK,
       SerialType, NextSerial
<1>16. CASE WriteFail
  BY <1>16 DEF WriteFail, driver, shared, dsp, TypeOK, SerialType
<1>17. CASE UnloadBegin
  <2> DEFINE on == dsp_state = "OFF" /\ entry
  <2>1. CASE on
    BY <1>17, <2>1, DevAssumption DEF UnloadBegin, dsp_resume, Boot, TypeOK, SerialType, driver
  <2>2. CASE ~ on
    BY <1>17, <2>2 DEF UnloadBegin, dsp_resume, TypeOK, SerialType, driver, shared, dsp
  <2> QED  BY <2>1, <2>2
<1>18. CASE UnloadSend
  BY <1>18, DevAssumption DEF UnloadSend, mlb_send_to_dsp, dsp, TypeOK,
       SerialType, NextSerial
<1>19. CASE UnloadTimeout
  BY <1>19 DEF UnloadTimeout, driver, shared, dsp, TypeOK, SerialType
<1>20. CASE ReleaseEnd
  BY <1>20 DEF ReleaseEnd, dsp_poweroff, driver, shared, dsp, TypeOK,
       SerialType
<1>21. CASE irq_handler__mlb
  BY <1>21 DEF irq_handler__mlb, dev_handle_reply, dsp, TypeOK, SerialType
<1>22. CASE mlb_irq_handler
  BY <1>22 DEF mlb_irq_handler, driver, TypeOK, SerialType
<1>23. CASE InterruptSpam
  BY <1>23 DEF InterruptSpam, driver, shared, TypeOK, SerialType
<1>24. CASE Wake
  BY <1>24 DEF Wake, driver, shared, TypeOK, SerialType
<1>25. CASE Execute
  BY <1>25 DEF Execute, driver, TypeOK, SerialType
<1>26. CASE UNCHANGED vars
  BY <1>26 DEF vars, TypeOK, SerialType
<1> QED
  BY <1>1, <1>2, <1>3, <1>4, <1>5, <1>6, <1>7, <1>8, <1>9, <1>10, <1>11,
       <1>12, <1>13, <1>14, <1>15, <1>16, <1>17, <1>18, <1>19, <1>20, <1>21,
       <1>22, <1>23, <1>24, <1>25, <1>26 DEF Next, Request, Proceed

(* Every step keeps the types of the DSP.                                  *)
LEMMA DspTypeStep ==
  ASSUME TypeOK, [Next]_vars
  PROVE  DspType'
<1>1. ASSUME NEW c \in Clients, fops__open(c) PROVE DspType'
  BY <1>1 DEF fops__open, power, dsp, TypeOK, DspType
<1>2. ASSUME NEW c \in Clients, fops__read(c) PROVE DspType'
  BY <1>2 DEF fops__read, power, dsp, TypeOK, DspType
<1>3. ASSUME NEW c \in Clients, fops__release(c) PROVE DspType'
  BY <1>3 DEF fops__release, power, dsp, TypeOK, DspType
<1>4. ASSUME NEW c \in Clients, testmsg(c) PROVE DspType'
  BY <1>4 DEF testmsg, mlb_send_to_dsp, power, dsp, TypeOK, DspType
<1>5. ASSUME NEW c \in Clients, PWR_ON_RST(c) PROVE DspType'
  BY <1>5 DEF PWR_ON_RST, dsp, TypeOK, DspType
<1>6. ASSUME NEW c \in Clients, START(c) PROVE DspType'
  BY <1>6 DEF START, TypeOK, DspType
<1>7. ASSUME NEW c \in Clients, PWR_OFF(c) PROVE DspType'
  BY <1>7 DEF PWR_OFF, dsp_poweroff, power, dsp, TypeOK, DspType
<1>8. ASSUME NEW c \in Clients, RESUME(c) PROVE DspType'
  BY <1>8 DEF RESUME, dsp_resume, Boot, power, dsp, TypeOK, DspType
<1>9. ASSUME NEW c \in Clients, OVERLAY_ALLOC(c) PROVE DspType'
  BY <1>9 DEF OVERLAY_ALLOC, power, dsp, TypeOK, DspType
<1>10. ASSUME NEW c \in Clients, OVERLAY_FREE(c) PROVE DspType'
  BY <1>10 DEF OVERLAY_FREE, power, dsp, TypeOK, DspType
<1>11. ASSUME NEW c \in Clients, OVERLAY_REF(c) PROVE DspType'
  BY <1>11 DEF OVERLAY_REF, power, dsp, TypeOK, DspType
<1>12. ASSUME NEW c \in Clients, NEW m \in Msgs, fops__write(c, m) PROVE DspType'
  BY <1>12 DEF fops__write, power, dsp, TypeOK, DspType
<1>13. CASE OpenFails
  BY <1>13 DEF OpenFails, power, dsp, TypeOK, DspType
<1>14. CASE Post
  BY <1>14 DEF Post, power, dsp, TypeOK, DspType
<1>15. CASE WriteSend
  BY <1>15 DEF WriteSend, mlb_send_to_dsp, power, dsp, TypeOK, DspType
<1>16. CASE WriteFail
  BY <1>16 DEF WriteFail, power, dsp, TypeOK, DspType
<1>17. CASE UnloadBegin
  BY <1>17 DEF UnloadBegin, dsp_resume, Boot, power, dsp, TypeOK, DspType
<1>18. CASE UnloadSend
  BY <1>18 DEF UnloadSend, mlb_send_to_dsp, power, dsp, TypeOK, DspType
<1>19. CASE UnloadTimeout
  BY <1>19 DEF UnloadTimeout, power, dsp, TypeOK, DspType
<1>20. CASE ReleaseEnd
  BY <1>20 DEF ReleaseEnd, dsp_poweroff, power, dsp, TypeOK, DspType
<1>21. CASE irq_handler__mlb
  BY <1>21 DEF irq_handler__mlb, dev_handle_reply, power, dsp, TypeOK, DspType
<1>22. CASE mlb_irq_handler
  BY <1>22 DEF mlb_irq_handler, power, TypeOK, DspType
<1>23. CASE InterruptSpam
  BY <1>23 DEF InterruptSpam, power, TypeOK, DspType
<1>24. CASE Wake
  BY <1>24 DEF Wake, power, TypeOK, DspType
<1>25. CASE Execute
  BY <1>25 DEF Execute, power, TypeOK, DspType
<1>26. CASE UNCHANGED vars
  BY <1>26 DEF vars, TypeOK, DspType
<1> QED
  BY <1>1, <1>2, <1>3, <1>4, <1>5, <1>6, <1>7, <1>8, <1>9, <1>10, <1>11,
       <1>12, <1>13, <1>14, <1>15, <1>16, <1>17, <1>18, <1>19, <1>20, <1>21,
       <1>22, <1>23, <1>24, <1>25, <1>26 DEF Next, Request, Proceed

-----------------------------------------------------------------------------
(* Only finitely many slots can be open.                                   *)
LEMMA SlotsFinite ==
  IsFiniteSet(OpenSlots) /\ Cardinality(OpenSlots) \in Nat
<1>1. OpenSlots \subseteq Clients
  BY DEF OpenSlots
<1> QED  BY <1>1, DevAssumption, FS_Subset, FS_CardinalityType

(* Only open clients are closed, so at_num_open does not become negative.  *)
LEMMA SomebodyCounted ==
  ASSUME Counted, FilesType
  PROVE  at_num_open > 0 \/ OpenSlots = {}
<1>1. Cardinality(OpenSlots) = 0 => OpenSlots = {}
  BY SlotsFinite, FS_EmptySet
<1> QED  BY <1>1, SlotsFinite, DevAssumption DEF Counted, FilesType

(* Every step counts the clients it opens and closes.                      *)
LEMMA CountedStep ==
  ASSUME TypeOK, Holder, Counted, [Next]_vars
  PROVE  Counted'
<1> USE DEF TypeOK
<1>1. ASSUME NEW c \in Clients, fops__open(c) PROVE Counted'
  <2>1. OpenSlots' = OpenSlots \cup {c} /\ c \notin OpenSlots
    BY <1>1 DEF fops__open, ClientType, OpenSlots
  <2>2. Cardinality(OpenSlots') = Cardinality(OpenSlots) + 1
    BY <2>1, SlotsFinite, FS_AddElement
  <2> QED  BY <1>1, <2>2, SlotsFinite DEF Counted, fops__open, FilesType
<1>2. ASSUME NEW c \in Clients, fops__read(c) PROVE Counted'
  <2>1. OpenSlots' = OpenSlots
    BY <1>2 DEF fops__read, ClientType, Holder, OpenSlots, Open
  <2>2. at_num_open' = at_num_open
    BY <1>2 DEF fops__read, files
  <2> QED  BY <2>1, <2>2 DEF Counted
<1>3. ASSUME NEW c \in Clients, fops__release(c) PROVE Counted'
  <2>1. OpenSlots' = OpenSlots \ {c} /\ c \in OpenSlots
    BY <1>3 DEF fops__release, ClientType, OpenSlots, Open
  <2>2. Cardinality(OpenSlots') = Cardinality(OpenSlots) - 1
    BY <2>1, SlotsFinite, FS_RemoveElement
  <2> QED  BY <1>3, <2>2, SlotsFinite DEF Counted, fops__release, FilesType
<1>4. ASSUME NEW c \in Clients, testmsg(c) PROVE Counted'
  BY <1>4 DEF testmsg, mlb_send_to_dsp, files, Counted, OpenSlots
<1>5. ASSUME NEW c \in Clients, PWR_ON_RST(c) PROVE Counted'
  BY <1>5 DEF PWR_ON_RST, client, files, Counted, OpenSlots
<1>6. ASSUME NEW c \in Clients, START(c) PROVE Counted'
  BY <1>6 DEF START, client, files, Counted, OpenSlots
<1>7. ASSUME NEW c \in Clients, PWR_OFF(c) PROVE Counted'
  BY <1>7 DEF PWR_OFF, dsp_poweroff, client, Counted, OpenSlots
<1>8. ASSUME NEW c \in Clients, RESUME(c) PROVE Counted'
  BY <1>8 DEF RESUME, dsp_resume, Boot, client, Counted, OpenSlots
<1>9. ASSUME NEW c \in Clients, OVERLAY_ALLOC(c) PROVE Counted'
  BY <1>9 DEF OVERLAY_ALLOC, client, Counted, OpenSlots
<1>10. ASSUME NEW c \in Clients, OVERLAY_FREE(c) PROVE Counted'
  BY <1>10 DEF OVERLAY_FREE, client, Counted, OpenSlots
<1>11. ASSUME NEW c \in Clients, OVERLAY_REF(c) PROVE Counted'
  BY <1>11 DEF OVERLAY_REF, client, Counted, OpenSlots
<1>12. ASSUME NEW c \in Clients, NEW m \in Msgs, fops__write(c, m) PROVE Counted'
  <2>1. OpenSlots' = OpenSlots
    BY <1>12 DEF fops__write, ClientType, Holder, OpenSlots, Open
  <2>2. at_num_open' = at_num_open
    BY <1>12 DEF fops__write, files
  <2> QED  BY <2>1, <2>2 DEF Counted
<1>13. CASE OpenFails
  <2>1. OpenSlots' = OpenSlots
    BY <1>13 DEF OpenFails, client, OpenSlots
  <2> QED  BY <1>13, <2>1, SlotsFinite DEF Counted, OpenFails, FilesType
<1>14. CASE Post
  BY <1>14 DEF Post, client, files, Counted, OpenSlots
<1>15. CASE WriteSend
  BY <1>15 DEF WriteSend, mlb_send_to_dsp, client, files, Counted, OpenSlots
<1>16. CASE WriteFail
  <2>1. OpenSlots' = OpenSlots
    BY <1>16 DEF WriteFail, ClientType, Holder, OpenSlots, Open
  <2>2. at_num_open' = at_num_open
    BY <1>16 DEF WriteFail, files
  <2> QED  BY <2>1, <2>2 DEF Counted
<1>17. CASE UnloadBegin
  BY <1>17 DEF UnloadBegin, dsp_resume, Boot, client, files, Counted,
       OpenSlots
<1>18. CASE UnloadSend
  BY <1>18 DEF UnloadSend, mlb_send_to_dsp, client, Counted, OpenSlots
<1>19. CASE UnloadTimeout
  BY <1>19 DEF UnloadTimeout, client, Counted, OpenSlots
<1>20. CASE ReleaseEnd
  BY <1>20 DEF ReleaseEnd, dsp_poweroff, client, files, Counted, OpenSlots
<1>21. CASE irq_handler__mlb
  <2>1. OpenSlots' = OpenSlots
    BY <1>21 DEF irq_handler__mlb, dev_handle_reply, ClientType, Holder, OpenSlots, Open, client
  <2>2. at_num_open' = at_num_open
    BY <1>21 DEF irq_handler__mlb, files
  <2> QED  BY <2>1, <2>2 DEF Counted
<1>22. CASE mlb_irq_handler
  BY <1>22 DEF mlb_irq_handler, client, files, Counted, OpenSlots
<1>23. CASE InterruptSpam
  BY <1>23 DEF InterruptSpam, client, files, Counted, OpenSlots
<1>24. CASE Wake
  BY <1>24 DEF Wake, client, files, Counted, OpenSlots
<1>25. CASE Execute
  BY <1>25 DEF Execute, client, files, Counted, OpenSlots
<1>26. CASE UNCHANGED vars
  BY <1>26 DEF vars, Counted, OpenSlots
<1> QED
  BY <1>1, <1>2, <1>3, <1>4, <1>5, <1>6, <1>7, <1>8, <1>9, <1>10, <1>11,
       <1>12, <1>13, <1>14, <1>15, <1>16, <1>17, <1>18, <1>19, <1>20, <1>21,
       <1>22, <1>23, <1>24, <1>25, <1>26 DEF Next, Request, Proceed

(* Every step keeps track of the holder of the mutex.                      *)
LEMMA HolderStep ==
  ASSUME TypeOK, Holder, [Next]_vars
  PROVE  Holder'
<1>1. ASSUME NEW c \in Clients, fops__open(c) PROVE Holder'
  BY <1>1 DEF fops__open, holder, Holder
<1>2. ASSUME NEW c \in Clients, fops__read(c) PROVE Holder'
  BY <1>2 DEF fops__read, holder, Holder
<1>3. ASSUME NEW c \in Clients, fops__release(c) PROVE Holder'
  BY <1>3, DevAssumption DEF fops__release, TypeOK, ClientType, Holder, Open
<1>4. ASSUME NEW c \in Clients, testmsg(c) PROVE Holder'
  BY <1>4 DEF testmsg, mlb_send_to_dsp, Holder
<1>5. ASSUME NEW c \in Clients, PWR_ON_RST(c) PROVE Holder'
  BY <1>5 DEF PWR_ON_RST, client, holder, Holder
<1>6. ASSUME NEW c \in Clients, START(c) PROVE Holder'
  BY <1>6 DEF START, client, holder, Holder
<1>7. ASSUME NEW c \in Clients, PWR_OFF(c) PROVE Holder'
  BY <1>7 DEF PWR_OFF, dsp_poweroff, client, holder, Holder
<1>8. ASSUME NEW c \in Clients, RESUME(c) PROVE Holder'
  BY <1>8 DEF RESUME, dsp_resume, Boot, client, holder, Holder
<1>9. ASSUME NEW c \in Clients, OVERLAY_ALLOC(c) PROVE Holder'
  BY <1>9 DEF OVERLAY_ALLOC, client, holder, Holder
<1>10. ASSUME NEW c \in Clients, OVERLAY_FREE(c) PROVE Holder'
  BY <1>10 DEF OVERLAY_FREE, client, holder, Holder
<1>11. ASSUME NEW c \in Clients, OVERLAY_REF(c) PROVE Holder'
  BY <1>11 DEF OVERLAY_REF, client, holder, Holder
<1>12. ASSUME NEW c \in Clients, NEW m \in Msgs, fops__write(c, m) PROVE Holder'
  BY <1>12, DevAssumption DEF fops__write, TypeOK, ClientType, Holder, Open
<1>13. CASE OpenFails
  BY <1>13 DEF OpenFails, client, holder, Holder
<1>14. CASE Post
  BY <1>14 DEF Post, client, Holder
<1>15. CASE WriteSend
  BY <1>15 DEF WriteSend, mlb_send_to_dsp, client, Holder
<1>16. CASE WriteFail
  BY <1>16 DEF WriteFail, Holder
<1>17. CASE UnloadBegin
  BY <1>17 DEF UnloadBegin, dsp_resume, Boot, client, Holder
<1>18. CASE UnloadSend
  BY <1>18 DEF UnloadSend, mlb_send_to_dsp, client, Holder
<1>19. CASE UnloadTimeout
  BY <1>19 DEF UnloadTimeout, client, Holder
<1>20. CASE ReleaseEnd
  BY <1>20 DEF ReleaseEnd, dsp_poweroff, client, Holder
<1>21. CASE irq_handler__mlb
  BY <1>21, DevAssumption DEF irq_handler__mlb, dev_handle_reply, client,
       holder, TypeOK, ClientType, Holder, Open
<1>22. CASE mlb_irq_handler
  BY <1>22 DEF mlb_irq_handler, client, holder, Holder
<1>23. CASE InterruptSpam
  BY <1>23 DEF InterruptSpam, client, holder, Holder
<1>24. CASE Wake
  BY <1>24 DEF Wake, client, holder, Holder
<1>25. CASE Execute
  BY <1>25 DEF Execute, client, holder, Holder
<1>26. CASE UNCHANGED vars
  BY <1>26 DEF vars, Holder
<1> QED
  BY <1>1, <1>2, <1>3, <1>4, <1>5, <1>6, <1>7, <1>8, <1>9, <1>10, <1>11,
       <1>12, <1>13, <1>14, <1>15, <1>16, <1>17, <1>18, <1>19, <1>20, <1>21,
       <1>22, <1>23, <1>24, <1>25, <1>26 DEF Next, Request, Proceed

(* Every step keeps at most one message under way.  Test messages and half *)
(* written ones are what would break it.                                   *)
LEMMA OneInFlightStep ==
  ASSUME TypeOK, OneInFlight, Debuggers = {}, ~ TornPosts, [Next]_vars
  PROVE  OneInFlight'
<1>1. ASSUME NEW c \in Clients, fops__open(c) PROVE OneInFlight'
  BY <1>1 DEF fops__open, holder, driver, shared, dsp, OneInFlight, Settled,
       IsNew
<1>2. ASSUME NEW c \in Clients, fops__read(c) PROVE OneInFlight'
  BY <1>2 DEF fops__read, holder, driver, shared, dsp, OneInFlight, Settled,
       IsNew
<1>3. ASSUME NEW c \in Clients, fops__release(c) PROVE OneInFlight'
  BY <1>3 DEF fops__release, driver, shared, dsp, OneInFlight, Settled, IsNew
<1>4. ASSUME NEW c \in Clients, testmsg(c) PROVE OneInFlight'
  BY <1>4 DEF testmsg, mlb_send_to_dsp, dsp, OneInFlight, Settled, IsNew
<1>5. ASSUME NEW c \in Clients, PWR_ON_RST(c) PROVE OneInFlight'
  BY <1>5 DEF PWR_ON_RST, holder, driver, shared, dsp, OneInFlight, Settled,
       IsNew
<1>6. ASSUME NEW c \in Clients, START(c) PROVE OneInFlight'
  <2>1. CASE fifo0' = FALSE
    BY <1>6, <2>1 DEF START, OneInFlight, Settled, IsNew, holder, driver
  <2>2. CASE fifo0' = fifo0
    BY <1>6, <2>2 DEF START, OneInFlight, Settled, IsNew, holder, driver
  <2> QED  BY <1>6, <2>1, <2>2 DEF START
<1>7. ASSUME NEW c \in Clients, PWR_OFF(c) PROVE OneInFlight'
  BY <1>7 DEF PWR_OFF, dsp_poweroff, holder, driver, shared, dsp, OneInFlight,
       Settled, IsNew
<1>8. ASSUME NEW c \in Clients, RESUME(c) PROVE OneInFlight'
  BY <1>8 DEF RESUME, dsp_resume, Boot, holder, driver, shared, dsp,
       OneInFlight, Settled, IsNew
<1>9. ASSUME NEW c \in Clients, OVERLAY_ALLOC(c) PROVE OneInFlight'
  BY <1>9 DEF OVERLAY_ALLOC, holder, driver, shared, dsp, OneInFlight,
       Settled, IsNew
<1>10. ASSUME NEW c \in Clients, OVERLAY_FREE(c) PROVE OneInFlight'
  BY <1>10 DEF OVERLAY_FREE, holder, driver, shared, dsp, OneInFlight,
       Settled, IsNew
<1>11. ASSUME NEW c \in Clients, OVERLAY_REF(c) PROVE OneInFlight'
  BY <1>11 DEF OVERLAY_REF, holder, driver, shared, dsp, OneInFlight, Settled,
       IsNew
<1>12. ASSUME NEW c \in Clients, NEW m \in Msgs, fops__write(c, m) PROVE OneInFlight'
  BY <1>12 DEF fops__write, driver, shared, dsp, OneInFlight, Settled, IsNew
<1>13. CASE OpenFails
  BY <1>13 DEF OpenFails, holder, driver, shared, dsp, OneInFlight, Settled,
       IsNew
<1>14. CASE Post
  BY <1>14 DEF Post, dsp, OneInFlight, Settled, IsNew
<1>15. CASE WriteSend
  BY <1>15 DEF WriteSend, mlb_send_to_dsp, dsp, OneInFlight, Settled, IsNew
<1>16. CASE WriteFail
  BY <1>16 DEF WriteFail, driver, shared, dsp, OneInFlight, Settled, IsNew
<1>17. CASE UnloadBegin
  BY <1>17 DEF UnloadBegin, dsp_resume, Boot, driver, shared, dsp,
       OneInFlight, Settled, IsNew
<1>18. CASE UnloadSend
  BY <1>18 DEF UnloadSend, mlb_send_to_dsp, dsp, OneInFlight, Settled, IsNew
<1>19. CASE UnloadTimeout
  BY <1>19 DEF UnloadTimeout, driver, shared, dsp, OneInFlight, Settled, IsNew
<1>20. CASE ReleaseEnd
  BY <1>20 DEF ReleaseEnd, dsp_poweroff, driver, shared, dsp, OneInFlight,
       Settled, IsNew
<1>21. CASE irq_handler__mlb
  BY <1>21 DEF irq_handler__mlb, dev_handle_reply, holder, dsp, OneInFlight,
       Settled, IsNew
<1>22. CASE mlb_irq_handler
  BY <1>22 DEF mlb_irq_handler, holder, driver, OneInFlight, Settled, IsNew
<1>23. CASE InterruptSpam
  BY <1>23 DEF InterruptSpam, holder, driver, shared, OneInFlight, Settled,
       IsNew
<1>24. CASE Wake
  BY <1>24 DEF Wake, holder, driver, shared, OneInFlight, Settled, IsNew
<1>25. CASE Execute
  BY <1>25 DEF Execute, holder, driver, OneInFlight, Settled, IsNew
<1>26. CASE UNCHANGED vars
  BY <1>26 DEF vars, OneInFlight, Settled, IsNew
<1> QED
  BY <1>1, <1>2, <1>3, <1>4, <1>5, <1>6, <1>7, <1>8, <1>9, <1>10, <1>11,
       <1>12, <1>13, <1>14, <1>15, <1>16, <1>17, <1>18, <1>19, <1>20, <1>21,
       <1>22, <1>23, <1>24, <1>25, <1>26 DEF Next, Request, Proceed

(* Every step reserves the channel for the one client that waits.          *)
LEMMA CurrentIsPendingStep ==
  ASSUME TypeOK, Holder, CurrentIsPending, Debuggers = {}, [Next]_vars
  PROVE  CurrentIsPending'
<1>1. ASSUME NEW c \in Clients, fops__open(c) PROVE CurrentIsPending'
  BY <1>1 DEF fops__open, CurrentIsPending
<1>2. ASSUME NEW c \in Clients, fops__read(c) PROVE CurrentIsPending'
  BY <1>2 DEF fops__read, CurrentIsPending
<1>3. ASSUME NEW c \in Clients, fops__release(c) PROVE CurrentIsPending'
  BY <1>3, DevAssumption DEF fops__release, TypeOK, ClientType, Holder, Open,
       CurrentIsPending
<1>4. ASSUME NEW c \in Clients, testmsg(c) PROVE CurrentIsPending'
  BY <1>4 DEF testmsg, mlb_send_to_dsp, CurrentIsPending
<1>5. ASSUME NEW c \in Clients, PWR_ON_RST(c) PROVE CurrentIsPending'
  BY <1>5 DEF PWR_ON_RST, client, CurrentIsPending
<1>6. ASSUME NEW c \in Clients, START(c) PROVE CurrentIsPending'
  BY <1>6 DEF START, client, CurrentIsPending
<1>7. ASSUME NEW c \in Clients, PWR_OFF(c) PROVE CurrentIsPending'
  BY <1>7 DEF PWR_OFF, dsp_poweroff, client, CurrentIsPending
<1>8. ASSUME NEW c \in Clients, RESUME(c) PROVE CurrentIsPending'
  BY <1>8 DEF RESUME, dsp_resume, Boot, client, CurrentIsPending
<1>9. ASSUME NEW c \in Clients, OVERLAY_ALLOC(c) PROVE CurrentIsPending'
  BY <1>9 DEF OVERLAY_ALLOC, client, CurrentIsPending
<1>10. ASSUME NEW c \in Clients, OVERLAY_FREE(c) PROVE CurrentIsPending'
  BY <1>10 DEF OVERLAY_FREE, client, CurrentIsPending
<1>11. ASSUME NEW c \in Clients, OVERLAY_REF(c) PROVE CurrentIsPending'
  BY <1>11 DEF OVERLAY_REF, client, CurrentIsPending
<1>12. ASSUME NEW c \in Clients, NEW m \in Msgs, fops__write(c, m) PROVE CurrentIsPending'
  BY <1>12, DevAssumption DEF fops__write, TypeOK, ClientType, Holder, Open,
       CurrentIsPending
<1>13. CASE OpenFails
  BY <1>13 DEF OpenFails, client, CurrentIsPending
<1>14. CASE Post
  BY <1>14 DEF Post, client, CurrentIsPending
<1>15. CASE WriteSend
  BY <1>15 DEF WriteSend, mlb_send_to_dsp, client, CurrentIsPending
<1>16. CASE WriteFail
  BY <1>16, DevAssumption DEF WriteFail, TypeOK, ClientType, Holder, Open,
       CurrentIsPending
<1>17. CASE UnloadBegin
  BY <1>17 DEF UnloadBegin, dsp_resume, Boot, client, CurrentIsPending
<1>18. CASE UnloadSend
  BY <1>18 DEF UnloadSend, mlb_send_to_dsp, client, CurrentIsPending
<1>19. CASE UnloadTimeout
  BY <1>19 DEF UnloadTimeout, client, CurrentIsPending
<1>20. CASE ReleaseEnd
  BY <1>20 DEF ReleaseEnd, dsp_poweroff, client, CurrentIsPending
<1>21. CASE irq_handler__mlb
  BY <1>21, DevAssumption DEF irq_handler__mlb, dev_handle_reply, client,
       TypeOK, ClientType, Holder, Open, CurrentIsPending
<1>22. CASE mlb_irq_handler
  BY <1>22 DEF mlb_irq_handler, client, CurrentIsPending
<1>23. CASE InterruptSpam
  BY <1>23 DEF InterruptSpam, client, CurrentIsPending
<1>24. CASE Wake
  BY <1>24 DEF Wake, client, CurrentIsPending
<1>25. CASE Execute
  BY <1>25 DEF Execute, client, CurrentIsPending
<1>26. CASE UNCHANGED vars
  BY <1>26 DEF vars, CurrentIsPending
<1> QED
  BY <1>1, <1>2, <1>3, <1>4, <1>5, <1>6, <1>7, <1>8, <1>9, <1>10, <1>11,
       <1>12, <1>13, <1>14, <1>15, <1>16, <1>17, <1>18, <1>19, <1>20, <1>21,
       <1>22, <1>23, <1>24, <1>25, <1>26 DEF Next, Request, Proceed

(* Every step reserves the channel for a client that waits, or for none.   *)
LEMMA ReservedIsPendingStep ==
  ASSUME TypeOK, Holder, ReservedIsPending, [Next]_vars
  PROVE  ReservedIsPending'
<1>1. ASSUME NEW c \in Clients, fops__open(c) PROVE ReservedIsPending'
  BY <1>1 DEF fops__open, ReservedIsPending
<1>2. ASSUME NEW c \in Clients, fops__read(c) PROVE ReservedIsPending'
  BY <1>2 DEF fops__read, ReservedIsPending
<1>3. ASSUME NEW c \in Clients, fops__release(c) PROVE ReservedIsPending'
  BY <1>3, DevAssumption DEF fops__release, ReservedIsPending
<1>4. ASSUME NEW c \in Clients, testmsg(c) PROVE ReservedIsPending'
  BY <1>4, DevAssumption DEF testmsg, mlb_send_to_dsp, ReservedIsPending
<1>5. ASSUME NEW c \in Clients, PWR_ON_RST(c) PROVE ReservedIsPending'
  BY <1>5 DEF PWR_ON_RST, client, ReservedIsPending
<1>6. ASSUME NEW c \in Clients, START(c) PROVE ReservedIsPending'
  BY <1>6 DEF START, client, ReservedIsPending
<1>7. ASSUME NEW c \in Clients, PWR_OFF(c) PROVE ReservedIsPending'
  BY <1>7 DEF PWR_OFF, dsp_poweroff, client, ReservedIsPending
<1>8. ASSUME NEW c \in Clients, RESUME(c) PROVE ReservedIsPending'
  BY <1>8 DEF RESUME, dsp_resume, Boot, client, ReservedIsPending
<1>9. ASSUME NEW c \in Clients, OVERLAY_ALLOC(c) PROVE ReservedIsPending'
  BY <1>9 DEF OVERLAY_ALLOC, client, ReservedIsPending
<1>10. ASSUME NEW c \in Clients, OVERLAY_FREE(c) PROVE ReservedIsPending'
  BY <1>10 DEF OVERLAY_FREE, client, ReservedIsPending
<1>11. ASSUME NEW c \in Clients, OVERLAY_REF(c) PROVE ReservedIsPending'
  BY <1>11 DEF OVERLAY_REF, client, ReservedIsPending
<1>12. ASSUME NEW c \in Clients, NEW m \in Msgs, fops__write(c, m) PROVE ReservedIsPending'
  BY <1>12 DEF fops__write, TypeOK, ClientType, ReservedIsPending
<1>13. CASE OpenFails
  BY <1>13 DEF OpenFails, client, ReservedIsPending
<1>14. CASE Post
  BY <1>14 DEF Post, client, ReservedIsPending
<1>15. CASE WriteSend
  BY <1>15 DEF WriteSend, mlb_send_to_dsp, client, ReservedIsPending
<1>16. CASE WriteFail
  BY <1>16, DevAssumption DEF WriteFail, ReservedIsPending
<1>17. CASE UnloadBegin
  BY <1>17 DEF UnloadBegin, dsp_resume, Boot, client, ReservedIsPending
<1>18. CASE UnloadSend
  BY <1>18 DEF UnloadSend, mlb_send_to_dsp, client, ReservedIsPending
<1>19. CASE UnloadTimeout
  BY <1>19 DEF UnloadTimeout, client, ReservedIsPending
<1>20. CASE ReleaseEnd
  BY <1>20 DEF ReleaseEnd, dsp_poweroff, client, ReservedIsPending
<1>21. CASE irq_handler__mlb
  BY <1>21, DevAssumption DEF irq_handler__mlb, dev_handle_reply, client,
       ReservedIsPending
<1>22. CASE mlb_irq_handler
  BY <1>22 DEF mlb_irq_handler, client, ReservedIsPending
<1>23. CASE InterruptSpam
  BY <1>23 DEF InterruptSpam, client, ReservedIsPending
<1>24. CASE Wake
  BY <1>24 DEF Wake, client, ReservedIsPending
<1>25. CASE Execute
  BY <1>25 DEF Execute, client, ReservedIsPending
<1>26. CASE UNCHANGED vars
  BY <1>26 DEF vars, ReservedIsPending
<1> QED
  BY <1>1, <1>2, <1>3, <1>4, <1>5, <1>6, <1>7, <1>8, <1>9, <1>10, <1>11,
       <1>12, <1>13, <1>14, <1>15, <1>16, <1>17, <1>18, <1>19, <1>20, <1>21,
       <1>22, <1>23, <1>24, <1>25, <1>26 DEF Next, Request, Proceed

(* Every step keeps the DSP on for a client that waits: its bit is set in  *)
(* the mask.                                                               *)
LEMMA PoweredStep ==
  ASSUME Killable = {}, TypeOK, Holder, Powered, [Next]_vars
  PROVE  Powered'
<1>1. ASSUME NEW c \in Clients, fops__open(c) PROVE Powered'
  BY <1>1 DEF fops__open, power, dsp, Powered
<1>2. ASSUME NEW c \in Clients, fops__read(c) PROVE Powered'
  BY <1>2 DEF fops__read, files, power, dsp, Powered
<1>3. ASSUME NEW c \in Clients, fops__release(c) PROVE Powered'
  BY <1>3 DEF fops__release, power, dsp, TypeOK, ClientType, Powered
<1>4. ASSUME NEW c \in Clients, testmsg(c) PROVE Powered'
  BY <1>4 DEF testmsg, mlb_send_to_dsp, files, power, dsp, Powered
<1>5. ASSUME NEW c \in Clients, PWR_ON_RST(c) PROVE Powered'
  BY <1>5 DEF PWR_ON_RST, client, files, dsp, Powered
<1>6. ASSUME NEW c \in Clients, START(c) PROVE Powered'
  BY <1>6 DEF START, client, files, Powered
<1>7. ASSUME NEW c \in Clients, PWR_OFF(c) PROVE Powered'
  BY <1>7 DEF PWR_OFF, dsp_poweroff, client, power, dsp, TypeOK, ClientType,
       DspType, Holder, Open, Waits, Powered
<1>8. ASSUME NEW c \in Clients, RESUME(c) PROVE Powered'
  BY <1>8 DEF RESUME, dsp_resume, Boot, client, power, dsp, Powered
<1>9. ASSUME NEW c \in Clients, OVERLAY_ALLOC(c) PROVE Powered'
  BY <1>9 DEF OVERLAY_ALLOC, client, power, dsp, Powered
<1>10. ASSUME NEW c \in Clients, OVERLAY_FREE(c) PROVE Powered'
  BY <1>10 DEF OVERLAY_FREE, client, power, dsp, Powered
<1>11. ASSUME NEW c \in Clients, OVERLAY_REF(c) PROVE Powered'
  BY <1>11 DEF OVERLAY_REF, client, power, dsp, Powered
<1>12. ASSUME NEW c \in Clients, NEW m \in Msgs, fops__write(c, m) PROVE Powered'
  BY <1>12 DEF fops__write, files, power, dsp, Powered
<1>13. CASE OpenFails
  BY <1>13 DEF OpenFails, client, power, dsp, Powered
<1>14. CASE Post
  BY <1>14 DEF Post, client, files, power, dsp, Powered
<1>15. CASE WriteSend
  BY <1>15 DEF WriteSend, mlb_send_to_dsp, client, files, power, dsp, Powered
<1>16. CASE WriteFail
  BY <1>16 DEF WriteFail, files, power, dsp, Powered
<1>17. CASE UnloadBegin
  BY <1>17 DEF UnloadBegin, dsp_resume, Boot, client, files, power, dsp,
       Powered
<1>18. CASE UnloadSend
  BY <1>18 DEF UnloadSend, mlb_send_to_dsp, client, power, dsp, Powered
<1>19. CASE UnloadTimeout
  BY <1>19 DEF UnloadTimeout, client, power, dsp, Powered
<1>20. CASE ReleaseEnd
  BY <1>20 DEF ReleaseEnd, dsp_poweroff, client, files, power, dsp, Powered
<1>21. CASE irq_handler__mlb
  BY <1>21 DEF irq_handler__mlb, dev_handle_reply, client, files, power, dsp,
       TypeOK, ClientType, Powered
<1>22. CASE mlb_irq_handler
  BY <1>22 DEF mlb_irq_handler, client, files, power, Powered
<1>23. CASE InterruptSpam
  BY <1>23 DEF InterruptSpam, client, files, power, Powered
<1>24. CASE Wake
  BY <1>24 DEF Wake, client, files, power, Powered
<1>25. CASE Execute
  BY <1>25 DEF Execute, client, files, power, Powered
<1>26. CASE UNCHANGED vars
  BY <1>26 DEF vars, Powered
<1> QED
  BY <1>1, <1>2, <1>3, <1>4, <1>5, <1>6, <1>7, <1>8, <1>9, <1>10, <1>11,
       <1>12, <1>13, <1>14, <1>15, <1>16, <1>17, <1>18, <1>19, <1>20, <1>21,
       <1>22, <1>23, <1>24, <1>25, <1>26 DEF Next, Request, Proceed

(* Every step of a channel whose clients behave serves the one that waits. *)
LEMMA ServedStep ==
  ASSUME Orderly, OrderlyInv, [Next]_vars
  PROVE  Served'
<1> USE DEF OrderlyInv, IInv, TypeOK, Orderly
<1>1. ASSUME NEW c \in Clients, fops__open(c) PROVE Served'
  BY <1>1 DEF fops__open, holder, driver, shared, dsp, Served, Picked
<1>2. ASSUME NEW c \in Clients, fops__read(c) PROVE Served'
  BY <1>2 DEF fops__read, files, holder, driver, shared, dsp, Served, Picked
<1>3. ASSUME NEW c \in Clients, fops__release(c) PROVE Served'
  BY <1>3 DEF fops__release, driver, shared, dsp, Served, Picked, ClientType,
       Open, Waits, CleansUp, CurrentIsPending
<1>4. ASSUME NEW c \in Clients, testmsg(c) PROVE Served'
  BY <1>4 DEF testmsg, mlb_send_to_dsp, files, dsp, Served, Picked
<1>5. ASSUME NEW c \in Clients, PWR_ON_RST(c) PROVE Served'
  BY <1>5 DEF PWR_ON_RST, client, files, holder, driver, shared, dsp, Served,
       Picked
<1>6. ASSUME NEW c \in Clients, START(c) PROVE Served'
  BY <1>6 DEF START, client, files, holder, driver, Served, Picked
<1>7. ASSUME NEW c \in Clients, PWR_OFF(c) PROVE Served'
  BY <1>7 DEF PWR_OFF, dsp_poweroff, client, holder, driver, shared, dsp,
       Served, Picked
<1>8. ASSUME NEW c \in Clients, RESUME(c) PROVE Served'
  BY <1>8 DEF RESUME, dsp_resume, Boot, client, holder, driver, shared, dsp,
       Served, Picked
<1>9. ASSUME NEW c \in Clients, OVERLAY_ALLOC(c) PROVE Served'
  BY <1>9 DEF OVERLAY_ALLOC, client, holder, driver, shared, dsp, Served,
       Picked
<1>10. ASSUME NEW c \in Clients, OVERLAY_FREE(c) PROVE Served'
  BY <1>10 DEF OVERLAY_FREE, client, holder, driver, shared, dsp, Served,
       Picked
<1>11. ASSUME NEW c \in Clients, OVERLAY_REF(c) PROVE Served'
  BY <1>11 DEF OVERLAY_REF, client, holder, driver, shared, dsp, Served,
       Picked, FilesType, Open
<1>12. ASSUME NEW c \in Clients, NEW m \in Msgs, fops__write(c, m) PROVE Served'
  BY <1>12, DevAssumption DEF fops__write, files, driver, shared, dsp, Served,
       Picked, ClientType, OneInFlight
<1>13. CASE OpenFails
  BY <1>13 DEF OpenFails, client, holder, driver, shared, dsp, Served, Picked
<1>14. CASE Post
  BY <1>14 DEF Post, client, files, dsp, Served, Picked, Holder,
       CurrentIsPending
<1>15. CASE WriteSend
  BY <1>15, DevAssumption DEF WriteSend, mlb_send_to_dsp, client, files, dsp,
       Served, Picked, ClientType, FilesType, Holder, Open, Waits, CleansUp,
       CurrentIsPending, OneInFlight
<1>16. CASE WriteFail
  BY <1>16 DEF WriteFail, files, driver, shared, dsp, Served, Picked
<1>17. CASE UnloadBegin
  BY <1>17 DEF UnloadBegin, dsp_resume, Boot, client, files, driver, shared,
       dsp, Served, Picked
<1>18. CASE UnloadSend
  BY <1>18 DEF UnloadSend, mlb_send_to_dsp, client, dsp, Served, Picked
<1>19. CASE UnloadTimeout
  BY <1>19 DEF UnloadTimeout, client, driver, shared, dsp, Served, Picked
<1>20. CASE ReleaseEnd
  BY <1>20 DEF ReleaseEnd, dsp_poweroff, client, files, driver, shared, dsp,
       Served, Picked
<1>21. CASE irq_handler__mlb
  BY <1>21 DEF irq_handler__mlb, dev_handle_reply, client, files, holder, dsp,
       Served, Picked, ClientType, CurrentIsPending, OneInFlight, Settled
<1>22. CASE mlb_irq_handler
  BY <1>22 DEF mlb_irq_handler, client, files, holder, driver, Served, Picked
<1>23. CASE InterruptSpam
  BY <1>23 DEF InterruptSpam, client, files, holder, driver, shared, Served,
       Picked
<1>24. CASE Wake
  BY <1>24 DEF Wake, client, files, holder, driver, shared, Served, Picked,
       OneInFlight, Settled
<1>25. CASE Execute
  BY <1>25 DEF Execute, client, files, holder, driver, Served, Picked,
       OneInFlight
<1>26. CASE UNCHANGED vars
  BY <1>26 DEF vars, Served, Picked
<1> QED
  BY <1>1, <1>2, <1>3, <1>4, <1>5, <1>6, <1>7, <1>8, <1>9, <1>10, <1>11,
       <1>12, <1>13, <1>14, <1>15, <1>16, <1>17, <1>18, <1>19, <1>20, <1>21,
       <1>22, <1>23, <1>24, <1>25, <1>26 DEF Next, Request, Proceed

-----------------------------------------------------------------------------
(* IInv: the types, the count of open files and the holder of the mutex.   *)
LEMMA InitIInv == Init => IInv
<1> SUFFICES ASSUME Init PROVE IInv
  OBVIOUS
<1>1. TypeOK
  <2>1. ClientType
    BY DEF Init, ClientType
  <2>2. FilesType
    BY DevAssumption DEF Init, FilesType
  <2>3. WireType
    BY DEF Init, WireType
  <2>4. SerialType
    BY DevAssumption DEF Init, SerialType
  <2>5. DspType
    BY DEF Init, DspType
  <2> QED  BY <2>1, <2>2, <2>3, <2>4, <2>5 DEF TypeOK
<1>2. Counted
  <2>1. OpenSlots = {}
    BY DEF Init, OpenSlots
  <2>2. Cardinality(OpenSlots) = 0
    BY <2>1, FS_EmptySet
  <2> QED  BY <2>2 DEF Counted, Init
<1>3. Holder
  BY DEF Init, Holder
<1> QED  BY <1>1, <1>2, <1>3 DEF IInv

(* No step breaks IInv.                                                    *)
LEMMA NextIInv == IInv /\ [Next]_vars => IInv'
<1> SUFFICES ASSUME IInv, [Next]_vars PROVE IInv'
  OBVIOUS
<1>1. at_num_open > 0 \/ OpenSlots = {}
  BY SomebodyCounted DEF IInv, TypeOK
<1>2. ClientType' /\ WireType' /\ SerialType' /\ DspType'
  BY ClientTypeStep, WireTypeStep, SerialTypeStep, DspTypeStep DEF IInv
<1>3. FilesType'
  BY <1>1, FilesTypeStep DEF IInv
<1>4. Counted' /\ Holder'
  BY CountedStep, HolderStep DEF IInv
<1> QED  BY <1>2, <1>3, <1>4 DEF IInv, TypeOK

(* IInv holds in every behaviour, whatever the clients do.                 *)
THEOREM DevInvariance == Spec => []IInv
  BY InitIInv, NextIInv, PTL DEF Spec

(* The type invariant, whatever the clients do.  That at_num_open stays a  *)
(* natural number rests on Counted.                                        *)
THEOREM DevTypeCorrect == Spec => []TypeOK
<1>1. IInv => TypeOK
  BY DEF IInv
<1> QED  BY <1>1, DevInvariance, PTL

(* Without test messages at most one message is under way, even if clients *)
(* die or give up while they wait.                                         *)
THEOREM AlwaysOneInFlight ==
  ASSUME Debuggers = {}, ~ TornPosts
  PROVE  Spec => []OneInFlight
<1>1. Init => OneInFlight
  BY DEF Init, OneInFlight, Settled, IsNew
<1>2. TypeOK /\ OneInFlight /\ [Next]_vars => OneInFlight'
  BY OneInFlightStep
<1> QED  BY <1>1, <1>2, DevTypeCorrect, PTL DEF Spec

(* Without test messages the channel is reserved exactly for the client    *)
(* that waits for a reply, even if clients die or give up.                 *)
THEOREM AlwaysCurrentIsPending ==
  ASSUME Debuggers = {}
  PROVE  Spec => []CurrentIsPending
<1>1. Init => CurrentIsPending
  BY DevAssumption DEF Init, CurrentIsPending
<1>2. IInv /\ CurrentIsPending /\ [Next]_vars => CurrentIsPending'
  BY CurrentIsPendingStep DEF IInv
<1> QED  BY <1>1, <1>2, DevInvariance, PTL DEF Spec

(* With test messages too, the channel is only reserved for a client that  *)
(* waits: a dead reservation would keep everybody out.                     *)
THEOREM AlwaysReservedIsPending == Spec => []ReservedIsPending
<1>1. Init => ReservedIsPending
  BY DevAssumption DEF Init, ReservedIsPending
<1>2. IInv /\ ReservedIsPending /\ [Next]_vars => ReservedIsPending'
  BY ReservedIsPendingStep DEF IInv
<1> QED  BY <1>1, <1>2, DevInvariance, PTL DEF Spec

(* The DSP is not switched off under a client that waits, if clients wait  *)
(* for their replies.                                                      *)
THEOREM AlwaysPendingPowered ==
  ASSUME Killable = {}
  PROVE  Spec => []PendingPowered
<1>1. Init => Powered
  BY DEF Init, Powered
<1>2. IInv /\ Powered /\ [Next]_vars => Powered'
  BY PoweredStep DEF IInv
<1>3. Powered => PendingPowered
  BY DEF Powered, PendingPowered
<1> QED  BY <1>1, <1>2, <1>3, DevInvariance, PTL DEF Spec

(* OrderlyInv, the invariant that AnswersOwn and the refinement rest on.   *)
THEOREM OrderlyInvariance ==
  ASSUME Orderly
  PROVE  Spec => []OrderlyInv
<1>1. Init => Served
  BY DevAssumption DEF Init, Served, Picked
<1>2. OrderlyInv /\ [Next]_vars => Served'
  BY ServedStep
<1>3. Spec => []OneInFlight
  BY AlwaysOneInFlight DEF Orderly
<1>4. Spec => []CurrentIsPending
  BY AlwaysCurrentIsPending DEF Orderly
<1>5. OrderlyInv <=> IInv /\ OneInFlight /\ CurrentIsPending /\ Served
  BY DEF OrderlyInv
<1> QED  BY <1>1, <1>2, <1>3, <1>4, <1>5, DevInvariance, PTL DEF Spec

(* A client that behaves among clients that behave is handed the result of *)
(* its own message, unless nobody could execute it.                        *)
THEOREM AlwaysAnswersOwn ==
  ASSUME Orderly
  PROVE  Spec => []AnswersOwn
<1>1. OrderlyInv => AnswersOwn
  BY DEF OrderlyInv, Served, Picked, AnswersOwn
<1> QED  BY <1>1, OrderlyInvariance, PTL
-----------------------------------------------------------------------------
(* What the clients are shown of their calls, case by case.                *)
Shown ==
  \A c \in Clients :
    /\ at_state[c] = "UNUSED" => call[c] = R!Closed
    /\ at_state[c] = "IDLE" => call[c] = R!Idle
    /\ at_state[c] = "REPLY_PENDING" /\ pc = "claimed" => call[c] = R!Idle
    /\ at_state[c] = "REPLY_PENDING" /\ pc # "claimed" => call[c] = R!Sent(req[c])
    /\ at_state[c] = "REPLY_AVAIL" => call[c] = R!Answered(req[c], ret[c])

(* call is what Shown says, before and after a step.                       *)
LEMMA CallShown == Shown /\ Shown'
<1>1. Shown
  BY DEF Shown, call, R!Closed, R!Idle, R!Sent, R!Answered
<1>2. Shown'
  BY DEF Shown, call, R!Closed, R!Idle, R!Sent, R!Answered
<1> QED  BY <1>1, <1>2

(* What a step does not show: the driver and the DSP at work.              *)
LEMMA CallUnchanged ==
  ASSUME UNCHANGED client, pc' = "claimed" <=> pc = "claimed"
  PROVE  UNCHANGED call
  BY DEF call, client

(* A step of client c, whose state is then s, does not show to the others. *)
LEMMA CallOnly ==
  ASSUME NEW c \in Clients, NEW s, call'[c] = s,
         \A d \in Clients \ {c} :
           /\ at_state'[d] = at_state[d] /\ req'[d] = req[d] /\ ret'[d] = ret[d]
           /\ at_state[d] = "REPLY_PENDING" => (pc' = "claimed" <=> pc = "claimed")
  PROVE  call' = [call EXCEPT ![c] = s]
<1>1. \A d \in Clients \ {c} : call'[d] = call[d]
  BY DEF call
<1>2. DOMAIN call = Clients /\ call' = [d \in Clients |-> call'[d]]
  BY DEF call
<1>3. [call EXCEPT ![c] = s] = [d \in Clients |-> IF d = c THEN s ELSE call[d]]
  BY <1>2
<1> QED  BY <1>1, <1>2, <1>3

(* The states of a call are told apart by their names.                     *)
LEMMA CallNames ==
  /\ R!Closed.st = "closed" /\ R!Idle.st = "idle"
  /\ \A m : R!Sent(m).st = "sent"
  /\ \A m, r : R!Answered(m, r).st = "answered"
<1>1. R!Closed.st = "closed" /\ R!Idle.st = "idle"
  BY DEF R!Closed, R!Idle
<1>2. ASSUME NEW m PROVE R!Sent(m).st = "sent"
  BY DEF R!Sent
<1>3. ASSUME NEW m, NEW r PROVE R!Answered(m, r).st = "answered"
  BY DEF R!Answered
<1> QED  BY <1>1, <1>2, <1>3

(* Every step of a channel whose clients behave is a step of the promise   *)
(* (Rpc), or does not show.                                                *)
LEMMA RpcStep ==
  ASSUME Orderly, OrderlyInv, [Next]_vars
  PROVE  [R!Next]_call
<1> USE DEF OrderlyInv, IInv, TypeOK
<1>1. ASSUME NEW c \in Clients, fops__open(c) PROVE [R!Next]_call
  <2>1. call[c] = R!Closed /\ call'[c] = R!Idle
    BY <1>1, CallShown DEF fops__open, ClientType, Shown
  <2>2. call' = [call EXCEPT ![c] = R!Idle]
    BY <1>1, <2>1, CallOnly DEF fops__open, ClientType, holder
  <2> QED  BY <2>1, <2>2 DEF R!Next, R!Open
<1>2. ASSUME NEW c \in Clients, fops__read(c) PROVE [R!Next]_call
  <2>1. call[c] = R!Answered(req[c], ret[c]) /\ call'[c] = R!Idle
    BY <1>2, CallShown DEF fops__read, ClientType, Shown
  <2>2. call' = [call EXCEPT ![c] = R!Idle]
    BY <1>2, <2>1, CallOnly DEF fops__read, ClientType, holder
  <2>3. call[c].st = "answered"
    BY <2>1, CallNames
  <2> QED  BY <2>2, <2>3 DEF R!Next, R!Take
<1>3. ASSUME NEW c \in Clients, fops__release(c) PROVE [R!Next]_call
  <2>1. call[c] # R!Closed
    BY <1>3, CallShown, CallNames DEF fops__release, Open, ClientType, Shown
  <2>2. call'[c] = R!Closed
    BY <1>3, CallShown DEF fops__release, ClientType, Shown
  <2>3. call' = [call EXCEPT ![c] = R!Closed]
    BY <1>3, <2>2, CallOnly DEF fops__release, ClientType
  <2> QED  BY <2>1, <2>3 DEF R!Next, R!Close
<1>4. ASSUME NEW c \in Clients, testmsg(c) PROVE [R!Next]_call
  BY <1>4 DEF testmsg, Orderly
<1>5. ASSUME NEW c \in Clients, PWR_ON_RST(c) PROVE [R!Next]_call
  BY <1>5, CallUnchanged DEF PWR_ON_RST, client, holder
<1>6. ASSUME NEW c \in Clients, START(c) PROVE [R!Next]_call
  BY <1>6, CallUnchanged DEF START, client, holder
<1>7. ASSUME NEW c \in Clients, PWR_OFF(c) PROVE [R!Next]_call
  BY <1>7, CallUnchanged DEF PWR_OFF, dsp_poweroff, client, holder
<1>8. ASSUME NEW c \in Clients, RESUME(c) PROVE [R!Next]_call
  BY <1>8, CallUnchanged DEF RESUME, dsp_resume, Boot, client, holder
<1>9. ASSUME NEW c \in Clients, OVERLAY_ALLOC(c) PROVE [R!Next]_call
  BY <1>9, CallUnchanged DEF OVERLAY_ALLOC, client, holder
<1>10. ASSUME NEW c \in Clients, OVERLAY_FREE(c) PROVE [R!Next]_call
  BY <1>10, CallUnchanged DEF OVERLAY_FREE, client, holder
<1>11. ASSUME NEW c \in Clients, OVERLAY_REF(c) PROVE [R!Next]_call
  BY <1>11, CallUnchanged DEF OVERLAY_REF, client, holder
<1>12. ASSUME NEW c \in Clients, NEW m \in Msgs, fops__write(c, m) PROVE [R!Next]_call
  <2>1. \A d \in Clients : at_state[d] # "REPLY_PENDING"
    BY <1>12, DevAssumption DEF fops__write, CurrentIsPending
  <2>2. call'[c] = R!Idle
    BY <1>12, CallShown DEF fops__write, ClientType, Shown
  <2>3. call' = [call EXCEPT ![c] = R!Idle]
    BY <1>12, <2>1, <2>2, CallOnly DEF fops__write, ClientType
  <2>4. CASE at_state[c] = "IDLE"
    <3>1. call[c] = R!Idle
      BY <2>4, CallShown DEF Shown
    <3> QED  BY <2>3, <3>1 DEF call
  <2>5. CASE at_state[c] = "REPLY_AVAIL"
    <3>1. call[c].st = "answered"
      BY <2>5, CallShown, CallNames DEF Shown
    <3> QED  BY <2>3, <3>1 DEF R!Next, R!Take
  <2> QED  BY <1>12, <2>1, <2>4, <2>5 DEF fops__write, Open, ClientType
<1>13. CASE OpenFails
  BY <1>13, CallUnchanged DEF OpenFails, client, holder
<1>14. CASE Post
  BY <1>14, CallUnchanged DEF Post, client
<1>15. CASE WriteSend
  <2>1. who \in Clients /\ at_state[who] = "REPLY_PENDING" /\ req[who] \in Msgs
    BY <1>15, DevAssumption DEF WriteSend, Holder, Served, CurrentIsPending, ClientType
  <2>2. \A d \in Clients \ {who} : at_state[d] # "REPLY_PENDING"
    BY <1>15, <2>1 DEF CurrentIsPending
  <2>3. call[who] = R!Idle
    BY <1>15, <2>1, CallShown DEF WriteSend, Shown
  <2>4. call'[who] = R!Sent(req[who])
    BY <1>15, <2>1, CallShown DEF WriteSend, mlb_send_to_dsp, client, Shown
  <2>5. call' = [call EXCEPT ![who] = R!Sent(req[who])]
    BY <1>15, <2>1, <2>2, <2>4, CallOnly DEF WriteSend, client
  <2>6. \A d \in Clients : call[d].st # "sent"
    BY <2>2, <2>3, CallShown, CallNames DEF Shown, ClientType
  <2> QED  BY <2>1, <2>3, <2>5, <2>6 DEF R!Next, R!Send
<1>16. CASE WriteFail
  BY <1>16 DEF WriteFail, Served
<1>17. CASE UnloadBegin
  BY <1>17, CallUnchanged DEF UnloadBegin, dsp_resume, Boot, client
<1>18. CASE UnloadSend
  BY <1>18, CallUnchanged DEF UnloadSend, mlb_send_to_dsp, client
<1>19. CASE UnloadTimeout
  BY <1>19, CallUnchanged DEF UnloadTimeout, client
<1>20. CASE ReleaseEnd
  BY <1>20, CallUnchanged DEF ReleaseEnd, dsp_poweroff, client
<1>21. CASE irq_handler__mlb
  <2>1. PICK c \in Clients : c = current_client
    BY <1>21 DEF irq_handler__mlb, Served, ClientType
  <2>2. at_state[c] = "REPLY_PENDING" /\ pc # "claimed" /\ req[c] \in Msgs
    BY <1>21, <2>1 DEF irq_handler__mlb, Served, CurrentIsPending, ClientType
  <2>3. /\ current_client # NULL /\ req' = req /\ pc' = pc
        /\ at_state' = [at_state EXCEPT ![c] = "REPLY_AVAIL"]
        /\ ret' = [ret EXCEPT ![c] = ipc_ret]
    BY <1>21, <2>1, <2>2 DEF irq_handler__mlb, dev_handle_reply, Served, holder
  <2>4. call[c] = R!Sent(req[c])
    BY <2>2, CallShown DEF Shown
  <2>5. call'[c] = R!Answered(req[c], ipc_ret)
    BY <2>3, CallShown DEF Shown, ClientType
  <2>6. call' = [call EXCEPT ![c] = R!Answered(req[c], ipc_ret)]
    BY <2>3, <2>5, CallOnly DEF ClientType
  <2>7. ipc_ret = req[c] \/ req[c] \in Unknown
    BY <1>21, <2>1 DEF irq_handler__mlb, Served
  <2>8. ipc_ret \in Msgs \cup {"unload", NULL}
    BY DEF WireType, Requests
  <2>9. R!Answer(c, req[c])
    BY <2>4, <2>6, <2>7, <2>8 DEF R!Answer
  <2> QED  BY <2>2, <2>9 DEF R!Next
<1>22. CASE mlb_irq_handler
  BY <1>22, CallUnchanged DEF mlb_irq_handler, client, holder
<1>23. CASE InterruptSpam
  BY <1>23, CallUnchanged DEF InterruptSpam, client, holder
<1>24. CASE Wake
  BY <1>24, CallUnchanged DEF Wake, client, holder
<1>25. CASE Execute
  BY <1>25, CallUnchanged DEF Execute, client, holder
<1>26. CASE UNCHANGED vars
  BY <1>26 DEF vars, call
<1> QED
  BY <1>1, <1>2, <1>3, <1>4, <1>5, <1>6, <1>7, <1>8, <1>9, <1>10, <1>11,
       <1>12, <1>13, <1>14, <1>15, <1>16, <1>17, <1>18, <1>19, <1>20, <1>21,
       <1>22, <1>23, <1>24, <1>25, <1>26 DEF Next, Request, Proceed

(* The channel implements remote procedure calls (Rpc) for clients that    *)
(* behave: one call at a time, each answered with its own result.          *)
THEOREM DevImplementsRpc ==
  ASSUME Orderly
  PROVE  Spec => ImplementsRpc
<1>1. Init => R!Init
  <2> SUFFICES ASSUME Init PROVE R!Init
    OBVIOUS
  <2>1. \A c \in Clients : call[c] = R!Closed
    BY CallShown DEF Init, Shown
  <2> QED  BY <2>1 DEF R!Init, call
<1>2. OrderlyInv /\ [Next]_vars => [R!Next]_call
  BY RpcStep
<1> QED  BY <1>1, <1>2, OrderlyInvariance, PTL DEF Spec, R!Spec, ImplementsRpc
=============================================================================
