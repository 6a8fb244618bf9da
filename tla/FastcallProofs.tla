--------------------------- MODULE FastcallProofs ---------------------------
(***************************************************************************)
(* Proofs about fastcall sequences, for any number of clients that take    *)
(* turns, however slow their calls are and wherever they are killed.       *)
(***************************************************************************)
EXTENDS Fastcall, TLAPS

Engaged(c) == pc[c] \in Sequence \cup {"send"}

(* Programs take turns.                                                    *)
Alone == \A c, d \in Clients : Engaged(c) /\ Engaged(d) => c = d

(* What TOGPP_CTL says of the DSP's task.                                  *)
Tells ==
  /\ togpp_ctl = "DONE" => task \in {"idle", "done"}
  /\ togpp_ctl = "ACK" => task = "ack"

(* No request is under way while a client has none.                        *)
NoRequest ==
  \A c \in Clients : pc[c] \in {"send", "wait", "read", "called"} =>
    todsp_ctl # "REQ" /\ task \notin {"exec", "executed"}

(* A client that waits for its result has its call in every place it can   *)
(* be in.                                                                  *)
Requested ==
  \A c \in Clients : pc[c] = "recv" =>
    /\ todsp_ctl = "REQ" => todsp_cmd = Call(c)
    /\ task \in {"exec", "executed"} => cmd = Call(c)
    /\ task = "executed" \/ togpp_ctl = "ACK" => togpp_ret = Call(c)

(* The result stays until it has been read.                                *)
Kept ==
  \A c \in Clients :
    /\ pc[c] = "read" => togpp_ret = Call(c)
    /\ got[c] # NULL => pc[c] = "called" /\ got[c] = Call(c)

IInv == TypeOK /\ Alone /\ Tells /\ NoRequest /\ Requested /\ Kept
-----------------------------------------------------------------------------
(* The types to begin with.                                                *)
LEMMA InitTypes == Init => TypeOK
<1> SUFFICES ASSUME Init PROVE TypeOK
  OBVIOUS
<1>1. 0 \in 0 .. NumCalls - 1
  BY FastcallAssumption DEF FastcallAssumption
<1>2. no \in [Clients -> 0 .. NumCalls - 1] /\ got \in [Clients -> Calls]
  BY <1>1 DEF Init, Calls
<1>3. avail \in [Clients -> BOOLEAN]
  BY DEF Init
<1> QED  BY <1>2, <1>3 DEF Init, TypeOK, Sequence, Ctl, Calls

(* Every step keeps the types.                                            *)
LEMMA TypeStep ==
  ASSUME TypeOK, [Next]_vars
  PROVE  TypeOK'
<1> USE DEF TypeOK, Sequence, Ctl, Calls
<1>1. ASSUME NEW c \in Clients, dsp_rpc_send(c) PROVE TypeOK'
  BY <1>1 DEF dsp_rpc_send, Goto, channel, dsp
<1>2. ASSUME NEW c \in Clients, RpcSendWrite(c) PROVE TypeOK'
  BY <1>2 DEF RpcSendWrite, Goto, Write, words, dsp
<1>3. ASSUME NEW c \in Clients, RpcSendGivesUp(c) PROVE TypeOK'
  BY <1>3 DEF RpcSendGivesUp, Goto, channel, words, dsp
<1>4. ASSUME NEW c \in Clients, dsp_fastcall_rpc_send(c) PROVE TypeOK'
  <2>1. (no[c] + 1) % NumCalls \in 0 .. NumCalls - 1
    BY FastcallAssumption DEF FastcallAssumption
  <2>2. no' \in [Clients -> 0 .. NumCalls - 1] /\ no'[c] \in 0 .. NumCalls - 1
    BY <1>4, <2>1 DEF dsp_fastcall_rpc_send
  <2> QED  BY <1>4, <2>2 DEF dsp_fastcall_rpc_send, Goto, channel, dsp
<1>5. ASSUME NEW c \in Clients, FastcallSendTimeout(c) PROVE TypeOK'
  BY <1>5 DEF FastcallSendTimeout, Goto, channel, words, dsp
<1>6. ASSUME NEW c \in Clients, dsp_fastcall_rpc_recv(c) PROVE TypeOK'
  BY <1>6 DEF dsp_fastcall_rpc_recv, Goto, channel, dsp
<1>7. ASSUME NEW c \in Clients, FastcallRead(c) PROVE TypeOK'
  BY <1>7 DEF FastcallRead, Goto, channel, words, dsp
<1>8. ASSUME NEW c \in Clients, FastcallRecvTimeout(c) PROVE TypeOK'
  BY <1>8 DEF FastcallRecvTimeout, Goto, channel, dsp
<1>9. ASSUME NEW c \in Clients, Again(c) PROVE TypeOK'
  BY <1>9 DEF Again, Goto, channel, words, dsp
<1>10. ASSUME NEW c \in Clients, dsp_fastcall_end(c) PROVE TypeOK'
  BY <1>10 DEF dsp_fastcall_end, Goto, channel, dsp
<1>11. ASSUME NEW c \in Clients, dsp_rpc_recv(c) PROVE TypeOK'
  BY <1>11 DEF dsp_rpc_recv, Goto, channel, words, dsp
<1>12. ASSUME NEW c \in Clients, Kill(c) PROVE TypeOK'
  BY <1>12 DEF Kill, channel, words, dsp
<1>13. ASSUME NEW c \in Clients, ReleaseIdle(c) PROVE TypeOK'
  BY <1>13 DEF ReleaseIdle, Goto, words, dsp
<1>14. ASSUME NEW c \in Clients, mlb_fastcall_end(c) PROVE TypeOK'
  BY <1>14 DEF mlb_fastcall_end, Goto, channel, dsp
<1>15. ASSUME NEW c \in Clients, FastcallEndDone(c) PROVE TypeOK'
  BY <1>15 DEF FastcallEndDone, Goto, dsp
<1>16. CASE mlb_fastcall_initiate
  BY <1>16 DEF mlb_fastcall_initiate, gpp
<1>17. CASE FastcallBegin
  BY <1>17 DEF FastcallBegin, gpp, channel, words
<1>18. CASE FastcallExec
  BY <1>18 DEF FastcallExec, gpp, channel
<1>19. CASE FastcallAck
  BY <1>19 DEF FastcallAck, gpp, channel
<1>20. CASE FastcallAcked
  BY <1>20 DEF FastcallAcked, gpp, channel
<1>21. CASE FastcallOver
  BY <1>21 DEF FastcallOver, gpp, channel, words
<1>22. CASE FastcallTimeout
  BY <1>22 DEF FastcallTimeout, gpp, channel
<1>23. CASE FastcallFinish
  BY <1>23 DEF FastcallFinish, gpp, channel
<1>24. CASE Reply
  BY <1>24 DEF Reply, words
<1>25. CASE UNCHANGED vars
  BY <1>25 DEF vars
<1> QED
  BY <1>1, <1>2, <1>3, <1>4, <1>5, <1>6, <1>7, <1>8, <1>9, <1>10, <1>11,
     <1>12, <1>13, <1>14, <1>15, <1>16, <1>17, <1>18, <1>19, <1>20,
     <1>21, <1>22, <1>23, <1>24, <1>25 DEF Next, Step, Dsp

(* A client begins only while the others are not in a sequence.            *)
LEMMA AloneStep ==
  ASSUME TypeOK, Alone, Overlap = {}, [Next]_vars
  PROVE  Alone'
<1> USE DEF TypeOK, Alone, Engaged, Sequence, MayBegin
<1>1. ASSUME NEW c \in Clients, dsp_rpc_send(c) PROVE Alone'
  BY <1>1 DEF dsp_rpc_send, Goto, channel, dsp
<1>2. ASSUME NEW c \in Clients, RpcSendWrite(c) PROVE Alone'
  BY <1>2 DEF RpcSendWrite, Goto, Write, words, dsp
<1>3. ASSUME NEW c \in Clients, RpcSendGivesUp(c) PROVE Alone'
  BY <1>3 DEF RpcSendGivesUp, Goto, channel, words, dsp
<1>4. ASSUME NEW c \in Clients, dsp_fastcall_rpc_send(c) PROVE Alone'
  BY <1>4 DEF dsp_fastcall_rpc_send, Goto, channel, dsp
<1>5. ASSUME NEW c \in Clients, FastcallSendTimeout(c) PROVE Alone'
  BY <1>5 DEF FastcallSendTimeout, Goto, channel, words, dsp
<1>6. ASSUME NEW c \in Clients, dsp_fastcall_rpc_recv(c) PROVE Alone'
  BY <1>6 DEF dsp_fastcall_rpc_recv, Goto, channel, dsp
<1>7. ASSUME NEW c \in Clients, FastcallRead(c) PROVE Alone'
  BY <1>7 DEF FastcallRead, Goto, channel, words, dsp
<1>8. ASSUME NEW c \in Clients, FastcallRecvTimeout(c) PROVE Alone'
  BY <1>8 DEF FastcallRecvTimeout, Goto, channel, dsp
<1>9. ASSUME NEW c \in Clients, Again(c) PROVE Alone'
  BY <1>9 DEF Again, Goto, channel, words, dsp
<1>10. ASSUME NEW c \in Clients, dsp_fastcall_end(c) PROVE Alone'
  BY <1>10 DEF dsp_fastcall_end, Goto, channel, dsp
<1>11. ASSUME NEW c \in Clients, dsp_rpc_recv(c) PROVE Alone'
  BY <1>11 DEF dsp_rpc_recv, Goto, channel, words, dsp
<1>12. ASSUME NEW c \in Clients, Kill(c) PROVE Alone'
  BY <1>12 DEF Kill, channel, words, dsp
<1>13. ASSUME NEW c \in Clients, ReleaseIdle(c) PROVE Alone'
  BY <1>13 DEF ReleaseIdle, Goto, words, dsp
<1>14. ASSUME NEW c \in Clients, mlb_fastcall_end(c) PROVE Alone'
  BY <1>14 DEF mlb_fastcall_end, Goto, channel, dsp
<1>15. ASSUME NEW c \in Clients, FastcallEndDone(c) PROVE Alone'
  BY <1>15 DEF FastcallEndDone, Goto, dsp
<1>16. CASE mlb_fastcall_initiate
  BY <1>16 DEF mlb_fastcall_initiate, gpp
<1>17. CASE FastcallBegin
  BY <1>17 DEF FastcallBegin, gpp, channel, words
<1>18. CASE FastcallExec
  BY <1>18 DEF FastcallExec, gpp, channel
<1>19. CASE FastcallAck
  BY <1>19 DEF FastcallAck, gpp, channel
<1>20. CASE FastcallAcked
  BY <1>20 DEF FastcallAcked, gpp, channel
<1>21. CASE FastcallOver
  BY <1>21 DEF FastcallOver, gpp, channel, words
<1>22. CASE FastcallTimeout
  BY <1>22 DEF FastcallTimeout, gpp, channel
<1>23. CASE FastcallFinish
  BY <1>23 DEF FastcallFinish, gpp, channel
<1>24. CASE Reply
  BY <1>24 DEF Reply, words
<1>25. CASE UNCHANGED vars
  BY <1>25 DEF vars
<1> QED
  BY <1>1, <1>2, <1>3, <1>4, <1>5, <1>6, <1>7, <1>8, <1>9, <1>10, <1>11,
     <1>12, <1>13, <1>14, <1>15, <1>16, <1>17, <1>18, <1>19, <1>20,
     <1>21, <1>22, <1>23, <1>24, <1>25 DEF Next, Step, Dsp

(* The DSP writes TOGPP_CTL when its task changes.                         *)
LEMMA TellsStep ==
  ASSUME Tells, [Next]_vars
  PROVE  Tells'
<1> USE DEF Tells
<1>1. ASSUME NEW c \in Clients, dsp_rpc_send(c) PROVE Tells'
  BY <1>1 DEF dsp_rpc_send, Goto, channel, dsp
<1>2. ASSUME NEW c \in Clients, RpcSendWrite(c) PROVE Tells'
  BY <1>2 DEF RpcSendWrite, Goto, Write, words, dsp
<1>3. ASSUME NEW c \in Clients, RpcSendGivesUp(c) PROVE Tells'
  BY <1>3 DEF RpcSendGivesUp, Goto, channel, words, dsp
<1>4. ASSUME NEW c \in Clients, dsp_fastcall_rpc_send(c) PROVE Tells'
  BY <1>4 DEF dsp_fastcall_rpc_send, Goto, channel, dsp
<1>5. ASSUME NEW c \in Clients, FastcallSendTimeout(c) PROVE Tells'
  BY <1>5 DEF FastcallSendTimeout, Goto, channel, words, dsp
<1>6. ASSUME NEW c \in Clients, dsp_fastcall_rpc_recv(c) PROVE Tells'
  BY <1>6 DEF dsp_fastcall_rpc_recv, Goto, channel, dsp
<1>7. ASSUME NEW c \in Clients, FastcallRead(c) PROVE Tells'
  BY <1>7 DEF FastcallRead, Goto, channel, words, dsp
<1>8. ASSUME NEW c \in Clients, FastcallRecvTimeout(c) PROVE Tells'
  BY <1>8 DEF FastcallRecvTimeout, Goto, channel, dsp
<1>9. ASSUME NEW c \in Clients, Again(c) PROVE Tells'
  BY <1>9 DEF Again, Goto, channel, words, dsp
<1>10. ASSUME NEW c \in Clients, dsp_fastcall_end(c) PROVE Tells'
  BY <1>10 DEF dsp_fastcall_end, Goto, channel, dsp
<1>11. ASSUME NEW c \in Clients, dsp_rpc_recv(c) PROVE Tells'
  BY <1>11 DEF dsp_rpc_recv, Goto, channel, words, dsp
<1>12. ASSUME NEW c \in Clients, Kill(c) PROVE Tells'
  BY <1>12 DEF Kill, channel, words, dsp
<1>13. ASSUME NEW c \in Clients, ReleaseIdle(c) PROVE Tells'
  BY <1>13 DEF ReleaseIdle, Goto, words, dsp
<1>14. ASSUME NEW c \in Clients, mlb_fastcall_end(c) PROVE Tells'
  BY <1>14 DEF mlb_fastcall_end, Goto, channel, dsp
<1>15. ASSUME NEW c \in Clients, FastcallEndDone(c) PROVE Tells'
  BY <1>15 DEF FastcallEndDone, Goto, dsp
<1>16. CASE mlb_fastcall_initiate
  BY <1>16 DEF mlb_fastcall_initiate, gpp
<1>17. CASE FastcallBegin
  BY <1>17 DEF FastcallBegin, gpp, channel, words
<1>18. CASE FastcallExec
  BY <1>18 DEF FastcallExec, gpp, channel
<1>19. CASE FastcallAck
  BY <1>19 DEF FastcallAck, gpp, channel
<1>20. CASE FastcallAcked
  BY <1>20 DEF FastcallAcked, gpp, channel
<1>21. CASE FastcallOver
  BY <1>21 DEF FastcallOver, gpp, channel, words
<1>22. CASE FastcallTimeout
  BY <1>22 DEF FastcallTimeout, gpp, channel
<1>23. CASE FastcallFinish
  BY <1>23 DEF FastcallFinish, gpp, channel
<1>24. CASE Reply
  BY <1>24 DEF Reply, words
<1>25. CASE UNCHANGED vars
  BY <1>25 DEF vars
<1> QED
  BY <1>1, <1>2, <1>3, <1>4, <1>5, <1>6, <1>7, <1>8, <1>9, <1>10, <1>11,
     <1>12, <1>13, <1>14, <1>15, <1>16, <1>17, <1>18, <1>19, <1>20,
     <1>21, <1>22, <1>23, <1>24, <1>25 DEF Next, Step, Dsp

(* A request is begun by the one client in a sequence.                     *)
LEMMA NoRequestStep ==
  ASSUME TypeOK, Alone, Tells, NoRequest, [Next]_vars
  PROVE  NoRequest'
<1> USE DEF TypeOK, Alone, Engaged, Sequence, Tells, NoRequest
<1>1. ASSUME NEW c \in Clients, dsp_rpc_send(c) PROVE NoRequest'
  BY <1>1 DEF dsp_rpc_send, Goto, channel, dsp
<1>2. ASSUME NEW c \in Clients, RpcSendWrite(c) PROVE NoRequest'
  BY <1>2 DEF RpcSendWrite, Goto, Write, words, dsp
<1>3. ASSUME NEW c \in Clients, RpcSendGivesUp(c) PROVE NoRequest'
  BY <1>3 DEF RpcSendGivesUp, Goto, channel, words, dsp
<1>4. ASSUME NEW c \in Clients, dsp_fastcall_rpc_send(c) PROVE NoRequest'
  BY <1>4 DEF dsp_fastcall_rpc_send, Goto, channel, dsp
<1>5. ASSUME NEW c \in Clients, FastcallSendTimeout(c) PROVE NoRequest'
  BY <1>5 DEF FastcallSendTimeout, Goto, channel, words, dsp
<1>6. ASSUME NEW c \in Clients, dsp_fastcall_rpc_recv(c) PROVE NoRequest'
  BY <1>6 DEF dsp_fastcall_rpc_recv, Goto, channel, dsp
<1>7. ASSUME NEW c \in Clients, FastcallRead(c) PROVE NoRequest'
  BY <1>7 DEF FastcallRead, Goto, channel, words, dsp
<1>8. ASSUME NEW c \in Clients, FastcallRecvTimeout(c) PROVE NoRequest'
  BY <1>8 DEF FastcallRecvTimeout, Goto, channel, dsp
<1>9. ASSUME NEW c \in Clients, Again(c) PROVE NoRequest'
  BY <1>9 DEF Again, Goto, channel, words, dsp
<1>10. ASSUME NEW c \in Clients, dsp_fastcall_end(c) PROVE NoRequest'
  BY <1>10 DEF dsp_fastcall_end, Goto, channel, dsp
<1>11. ASSUME NEW c \in Clients, dsp_rpc_recv(c) PROVE NoRequest'
  BY <1>11 DEF dsp_rpc_recv, Goto, channel, words, dsp
<1>12. ASSUME NEW c \in Clients, Kill(c) PROVE NoRequest'
  BY <1>12 DEF Kill, channel, words, dsp
<1>13. ASSUME NEW c \in Clients, ReleaseIdle(c) PROVE NoRequest'
  BY <1>13 DEF ReleaseIdle, Goto, words, dsp
<1>14. ASSUME NEW c \in Clients, mlb_fastcall_end(c) PROVE NoRequest'
  BY <1>14 DEF mlb_fastcall_end, Goto, channel, dsp
<1>15. ASSUME NEW c \in Clients, FastcallEndDone(c) PROVE NoRequest'
  BY <1>15 DEF FastcallEndDone, Goto, dsp
<1>16. CASE mlb_fastcall_initiate
  BY <1>16 DEF mlb_fastcall_initiate, gpp
<1>17. CASE FastcallBegin
  BY <1>17 DEF FastcallBegin, gpp, channel, words
<1>18. CASE FastcallExec
  BY <1>18 DEF FastcallExec, gpp, channel
<1>19. CASE FastcallAck
  BY <1>19 DEF FastcallAck, gpp, channel
<1>20. CASE FastcallAcked
  BY <1>20 DEF FastcallAcked, gpp, channel
<1>21. CASE FastcallOver
  BY <1>21 DEF FastcallOver, gpp, channel, words
<1>22. CASE FastcallTimeout
  BY <1>22 DEF FastcallTimeout, gpp, channel
<1>23. CASE FastcallFinish
  BY <1>23 DEF FastcallFinish, gpp, channel
<1>24. CASE Reply
  BY <1>24 DEF Reply, words
<1>25. CASE UNCHANGED vars
  BY <1>25 DEF vars
<1> QED
  BY <1>1, <1>2, <1>3, <1>4, <1>5, <1>6, <1>7, <1>8, <1>9, <1>10, <1>11,
     <1>12, <1>13, <1>14, <1>15, <1>16, <1>17, <1>18, <1>19, <1>20,
     <1>21, <1>22, <1>23, <1>24, <1>25 DEF Next, Step, Dsp

(* The call goes from the client to the DSP, its result to the client.     *)
LEMMA RequestedStep ==
  ASSUME TypeOK, Alone, Tells, NoRequest, Requested, [Next]_vars
  PROVE  Requested'
<1> USE DEF TypeOK, Alone, Engaged, Sequence, Tells, NoRequest, Requested, Call
<1>1. ASSUME NEW c \in Clients, dsp_rpc_send(c) PROVE Requested'
  BY <1>1 DEF dsp_rpc_send, Goto, channel, dsp
<1>2. ASSUME NEW c \in Clients, RpcSendWrite(c) PROVE Requested'
  BY <1>2 DEF RpcSendWrite, Goto, Write, words, dsp
<1>3. ASSUME NEW c \in Clients, RpcSendGivesUp(c) PROVE Requested'
  BY <1>3 DEF RpcSendGivesUp, Goto, channel, words, dsp
<1>4. ASSUME NEW c \in Clients, dsp_fastcall_rpc_send(c) PROVE Requested'
  BY <1>4 DEF dsp_fastcall_rpc_send, Goto, channel, dsp
<1>5. ASSUME NEW c \in Clients, FastcallSendTimeout(c) PROVE Requested'
  BY <1>5 DEF FastcallSendTimeout, Goto, channel, words, dsp
<1>6. ASSUME NEW c \in Clients, dsp_fastcall_rpc_recv(c) PROVE Requested'
  BY <1>6 DEF dsp_fastcall_rpc_recv, Goto, channel, dsp
<1>7. ASSUME NEW c \in Clients, FastcallRead(c) PROVE Requested'
  BY <1>7 DEF FastcallRead, Goto, channel, words, dsp
<1>8. ASSUME NEW c \in Clients, FastcallRecvTimeout(c) PROVE Requested'
  BY <1>8 DEF FastcallRecvTimeout, Goto, channel, dsp
<1>9. ASSUME NEW c \in Clients, Again(c) PROVE Requested'
  BY <1>9 DEF Again, Goto, channel, words, dsp
<1>10. ASSUME NEW c \in Clients, dsp_fastcall_end(c) PROVE Requested'
  BY <1>10 DEF dsp_fastcall_end, Goto, channel, dsp
<1>11. ASSUME NEW c \in Clients, dsp_rpc_recv(c) PROVE Requested'
  BY <1>11 DEF dsp_rpc_recv, Goto, channel, words, dsp
<1>12. ASSUME NEW c \in Clients, Kill(c) PROVE Requested'
  BY <1>12 DEF Kill, channel, words, dsp
<1>13. ASSUME NEW c \in Clients, ReleaseIdle(c) PROVE Requested'
  BY <1>13 DEF ReleaseIdle, Goto, words, dsp
<1>14. ASSUME NEW c \in Clients, mlb_fastcall_end(c) PROVE Requested'
  BY <1>14 DEF mlb_fastcall_end, Goto, channel, dsp
<1>15. ASSUME NEW c \in Clients, FastcallEndDone(c) PROVE Requested'
  BY <1>15 DEF FastcallEndDone, Goto, dsp
<1>16. CASE mlb_fastcall_initiate
  BY <1>16 DEF mlb_fastcall_initiate, gpp
<1>17. CASE FastcallBegin
  BY <1>17 DEF FastcallBegin, gpp, channel, words
<1>18. CASE FastcallExec
  BY <1>18 DEF FastcallExec, gpp, channel
<1>19. CASE FastcallAck
  BY <1>19 DEF FastcallAck, gpp, channel
<1>20. CASE FastcallAcked
  BY <1>20 DEF FastcallAcked, gpp, channel
<1>21. CASE FastcallOver
  BY <1>21 DEF FastcallOver, gpp, channel, words
<1>22. CASE FastcallTimeout
  BY <1>22 DEF FastcallTimeout, gpp, channel
<1>23. CASE FastcallFinish
  BY <1>23 DEF FastcallFinish, gpp, channel
<1>24. CASE Reply
  BY <1>24 DEF Reply, words
<1>25. CASE UNCHANGED vars
  BY <1>25 DEF vars
<1> QED
  BY <1>1, <1>2, <1>3, <1>4, <1>5, <1>6, <1>7, <1>8, <1>9, <1>10, <1>11,
     <1>12, <1>13, <1>14, <1>15, <1>16, <1>17, <1>18, <1>19, <1>20,
     <1>21, <1>22, <1>23, <1>24, <1>25 DEF Next, Step, Dsp

(* A result is overwritten by the next call only.                          *)
LEMMA KeptStep ==
  ASSUME IInv, [Next]_vars
  PROVE  Kept'
<1> USE DEF IInv, TypeOK, Alone, Engaged, Sequence, Tells, NoRequest, Requested, Kept, Call, Abandoned
<1>1. ASSUME NEW c \in Clients, dsp_rpc_send(c) PROVE Kept'
  BY <1>1 DEF dsp_rpc_send, Goto, channel, dsp
<1>2. ASSUME NEW c \in Clients, RpcSendWrite(c) PROVE Kept'
  BY <1>2 DEF RpcSendWrite, Goto, Write, words, dsp
<1>3. ASSUME NEW c \in Clients, RpcSendGivesUp(c) PROVE Kept'
  BY <1>3 DEF RpcSendGivesUp, Goto, channel, words, dsp
<1>4. ASSUME NEW c \in Clients, dsp_fastcall_rpc_send(c) PROVE Kept'
  BY <1>4 DEF dsp_fastcall_rpc_send, Goto, channel, dsp
<1>5. ASSUME NEW c \in Clients, FastcallSendTimeout(c) PROVE Kept'
  BY <1>5 DEF FastcallSendTimeout, Goto, channel, words, dsp
<1>6. ASSUME NEW c \in Clients, dsp_fastcall_rpc_recv(c) PROVE Kept'
  BY <1>6 DEF dsp_fastcall_rpc_recv, Goto, channel, dsp
<1>7. ASSUME NEW c \in Clients, FastcallRead(c) PROVE Kept'
  BY <1>7 DEF FastcallRead, Goto, channel, words, dsp
<1>8. ASSUME NEW c \in Clients, FastcallRecvTimeout(c) PROVE Kept'
  BY <1>8 DEF FastcallRecvTimeout, Goto, channel, dsp
<1>9. ASSUME NEW c \in Clients, Again(c) PROVE Kept'
  BY <1>9 DEF Again, Goto, channel, words, dsp
<1>10. ASSUME NEW c \in Clients, dsp_fastcall_end(c) PROVE Kept'
  BY <1>10 DEF dsp_fastcall_end, Goto, channel, dsp
<1>11. ASSUME NEW c \in Clients, dsp_rpc_recv(c) PROVE Kept'
  BY <1>11 DEF dsp_rpc_recv, Goto, channel, words, dsp
<1>12. ASSUME NEW c \in Clients, Kill(c) PROVE Kept'
  BY <1>12 DEF Kill, channel, words, dsp
<1>13. ASSUME NEW c \in Clients, ReleaseIdle(c) PROVE Kept'
  BY <1>13 DEF ReleaseIdle, Goto, words, dsp
<1>14. ASSUME NEW c \in Clients, mlb_fastcall_end(c) PROVE Kept'
  BY <1>14 DEF mlb_fastcall_end, Goto, channel, dsp
<1>15. ASSUME NEW c \in Clients, FastcallEndDone(c) PROVE Kept'
  BY <1>15 DEF FastcallEndDone, Goto, dsp
<1>16. CASE mlb_fastcall_initiate
  BY <1>16 DEF mlb_fastcall_initiate, gpp
<1>17. CASE FastcallBegin
  BY <1>17 DEF FastcallBegin, gpp, channel, words
<1>18. CASE FastcallExec
  BY <1>18 DEF FastcallExec, gpp, channel
<1>19. CASE FastcallAck
  BY <1>19 DEF FastcallAck, gpp, channel
<1>20. CASE FastcallAcked
  BY <1>20 DEF FastcallAcked, gpp, channel
<1>21. CASE FastcallOver
  BY <1>21 DEF FastcallOver, gpp, channel, words
<1>22. CASE FastcallTimeout
  BY <1>22 DEF FastcallTimeout, gpp, channel
<1>23. CASE FastcallFinish
  BY <1>23 DEF FastcallFinish, gpp, channel
<1>24. CASE Reply
  BY <1>24 DEF Reply, words
<1>25. CASE UNCHANGED vars
  BY <1>25 DEF vars
<1> QED
  BY <1>1, <1>2, <1>3, <1>4, <1>5, <1>6, <1>7, <1>8, <1>9, <1>10, <1>11,
     <1>12, <1>13, <1>14, <1>15, <1>16, <1>17, <1>18, <1>19, <1>20,
     <1>21, <1>22, <1>23, <1>24, <1>25 DEF Next, Step, Dsp
-----------------------------------------------------------------------------
(* The inductive invariant.                                                *)
THEOREM FastcallInvariance ==
  ASSUME Overlap = {}
  PROVE  Spec => []IInv
<1>1. Init => IInv
  <2> SUFFICES ASSUME Init PROVE IInv
    OBVIOUS
  <2>1. TypeOK
    BY InitTypes
  <2>2. Alone /\ Tells /\ NoRequest /\ Requested /\ Kept
    BY DEF Init, Alone, Engaged, Sequence, Tells, NoRequest, Requested, Kept
  <2> QED  BY <2>1, <2>2 DEF IInv
<1>2. IInv /\ [Next]_vars => IInv'
  BY TypeStep, AloneStep, TellsStep, NoRequestStep, RequestedStep, KeptStep DEF IInv
<1> QED  BY <1>1, <1>2, PTL DEF Spec

(* The type invariant, even of clients that begin while another one is in  *)
(* a sequence.                                                             *)
THEOREM FastcallTypeCorrect == Spec => []TypeOK
<1> QED  BY InitTypes, TypeStep, PTL DEF Spec

(* The return values of a call are its own, for any number of programs     *)
(* that take turns, though dsp_fastcall_rpc reads them after it has let    *)
(* the DSP go on, and though calls time out and clients are killed.        *)
THEOREM AlwaysOwnResult ==
  ASSUME Overlap = {}
  PROVE  Spec => []OwnResult
<1>1. IInv => OwnResult
  BY DEF IInv, Kept, OwnResult
<1> QED  BY <1>1, FastcallInvariance, PTL

(* The DSP executes only the call its caller waits for.                    *)
THEOREM AlwaysServesTheCaller ==
  ASSUME Overlap = {}
  PROVE  Spec => []ServesTheCaller
<1>1. IInv => ServesTheCaller
  BY DEF IInv, NoRequest, Requested, ServesTheCaller
<1> QED  BY <1>1, FastcallInvariance, PTL
=============================================================================
