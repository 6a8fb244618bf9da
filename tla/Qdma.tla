-------------------------------- MODULE Qdma --------------------------------
(***************************************************************************)
(* The QDMA functions of the DSP library (dsp/libc64_dsp/src/dma.c) and    *)
(* the DMA hardware under them: parameter sets (PaRAM), two event queues   *)
(* with a transfer controller each, and the interrupt pending register.    *)
(*                                                                         *)
(* Writing the last word of the parameter set a channel is mapped to       *)
(* starts a transfer; the controller reads the set when the event is at    *)
(* the head of its queue, and a linked set is copied over the first one,   *)
(* which starts the next transfer.  A transfer is the function from the    *)
(* words it writes to the words it reads.                                  *)
(***************************************************************************)
EXTENDS Integers, Sequences

CONSTANTS
  NUM_QDMAS,   \* channels; channel q has parameter set q and completion code q
  NumParams,   \* parameter sets
  CountSpace   \* a count has 16 bits

Channels == 0 .. NUM_QDMAS - 1
Params == 0 .. NumParams - 1
NoLink == NumParams          \* any number that is no parameter set, 0xFFFF
EventQueues == {0, 1}

ASSUME QdmaAssumption ==
  NUM_QDMAS \in Nat \ {0} /\ NumParams \in Nat /\ NumParams >= NUM_QDMAS /\ CountSpace \in Nat \ {0}

VARIABLES
  b_running,   \* b_running[q]: qdma[q].b_running
  param,       \* param[i]: the transfer, the next set, and whether the end is signalled
  queue,       \* queue[k]: channels with an event in event queue k
  IPR,         \* completion codes with an interrupt pending
  QDMAQNUM     \* QDMAQNUM[q]: event queue of channel q

qdma == <<b_running, param, queue, IPR, QDMAQNUM>>

NoTransfer == [moves |-> << >>, link |-> NoLink, tcint |-> FALSE]

(* Mutant: completion interrupts of earlier transfers stay pending.        *)
Cleared_Not(codes) == IPR
Cleared(codes) == IPR \ codes

(* The register is written as a whole for each channel, so the last one is *)
(* the only one that gets event queue 1.                                   *)
QueueNumbers == [q \in Channels |-> IF q = NUM_QDMAS - 1 THEN 1 ELSE 0]

qdma_init ==
  /\ b_running' = [q \in Channels |-> FALSE]
  /\ IPR' = Cleared(Channels)
  /\ QDMAQNUM' = QueueNumbers
  /\ UNCHANGED <<param, queue>>

(* Power-on state of the hardware, after the first qdma_init().            *)
QdmaInit ==
  /\ b_running = [q \in Channels |-> FALSE]
  /\ param = [i \in Params |-> NoTransfer]
  /\ queue = [k \in EventQueues |-> << >>]
  /\ IPR = {}
  /\ QDMAQNUM = QueueNumbers

(* The words of a one and of a two dimensional transfer.                   *)
Moves1d(dst, src, n) == [w \in dst .. dst + (n % CountSpace) - 1 |-> src + w - dst]
Moves2d(dst, dstPitch, src, srcPitch, nx, ny) ==
  LET cells == (0 .. (nx % CountSpace) - 1) \X (0 .. ny - 1)
      at(w) == CHOOSE c \in cells : w = dst + c[1] + c[2] * dstPitch
  IN  [w \in {dst + c[1] + c[2] * dstPitch : c \in cells} |-> src + at(w)[1] + at(w)[2] * srcPitch]
-----------------------------------------------------------------------------
(* The last word of parameter set i is written: if it is that of a         *)
(* channel, its event is queued.                                           *)
Triggered(i) ==
  IF i \in Channels THEN [queue EXCEPT ![QDMAQNUM[i]] = Append(@, i)] ELSE queue

(* qdma_copy1d, qdma_copy2d: a set that signals its end and has no link.   *)
qdma_copy(q, moves) ==
  /\ param' = [param EXCEPT ![q] = [moves |-> moves, link |-> NoLink, tcint |-> TRUE]]
  /\ queue' = Triggered(q)
  /\ b_running' = [b_running EXCEPT ![q] = TRUE]
  /\ UNCHANGED <<IPR, QDMAQNUM>>

(* Mutant: the last set of a chain is set up like the others.              *)
SignalsEnd_Never(link) == link # link
SignalsEnd(link) == link = NoLink

(* qdma_link1d, qdma_link2d: set i of a chain of channel q, which starts   *)
(* when its first set, the channel's own, is written.                      *)
qdma_link(q, i, link, moves) ==
  /\ param' = [param EXCEPT ![i] = [moves |-> moves, link |-> link, tcint |-> SignalsEnd(link)]]
  /\ queue' = Triggered(i)
  /\ b_running' = [b_running EXCEPT ![q] = @ \/ i = q]
  /\ UNCHANGED <<IPR, QDMAQNUM>>

(* qdma_wait: it polls for the interrupt of the channel and clears it.     *)
qdma_wait(q) ==
  /\ b_running[q] => q \in IPR
  /\ IPR' = IF b_running[q] THEN Cleared({q}) ELSE IPR
  /\ b_running' = [b_running EXCEPT ![q] = FALSE]
  /\ UNCHANGED <<param, queue, QDMAQNUM>>

(* Hardware: the controller of event queue k carries out the transfer at   *)
(* its head, goes on with the linked set, and signals the end.             *)
Transfer(k) ==
  LET q == Head(queue[k])
      p == param[q]
  IN  /\ queue[k] # << >>
      /\ IF p.link = NoLink
           THEN /\ queue' = [queue EXCEPT ![k] = Tail(@)]
                /\ UNCHANGED param
           ELSE /\ param' = [param EXCEPT ![q] = param[p.link]]
                /\ queue' = [queue EXCEPT ![k] = Append(Tail(@), q)]
      /\ IPR' = IF p.tcint THEN IPR \cup {q} ELSE IPR
      /\ UNCHANGED <<b_running, QDMAQNUM>>
=============================================================================
