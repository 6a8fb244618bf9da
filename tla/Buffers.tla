------------------------------- MODULE Buffers ------------------------------
(***************************************************************************)
(* A remote call with buffers in shared memory: the application fills the  *)
(* input, hands it over (dsp_cache_wb and the like, then dsp_rpc_send),    *)
(* the DSP has it copied to the output by QDMA in one of the ways of       *)
(* dsp/components/test_qdma, and the application takes the output back     *)
(* (dsp_cache_inv) and reads it.  Cache and Qdma meet in the memory.       *)
(*                                                                         *)
(* The block also holds words neither buffer has, which the application    *)
(* writes whenever it likes, in lines it shares with the output, too.      *)
(***************************************************************************)
EXTENDS Cache, Qdma

CONSTANTS
  Outs,        \* first words of the output buffer
  Size,        \* length of both buffers; the input is at the start
  Chains       \* the chains of transfers the application sends, as what each
               \* transfer copies: ny rows, pitch apart, of nx words from word at on

In == 0 .. Size - 1
Pieces == [at : Nat, pitch : Nat, nx : Nat \ {0}, ny : Nat \ {0}]
Cells(p) == {p.at + x + y * p.pitch : x \in 0 .. p.nx - 1, y \in 0 .. p.ny - 1}

ASSUME BuffersAssumption ==
  /\ Size \in Nat \ {0} /\ Size < CountSpace /\ NUM_QDMAS >= 2 /\ NumParams > NUM_QDMAS
  /\ Outs \subseteq Words /\ \A o \in Outs : o .. o + Size - 1 \subseteq Words \ In
  /\ Chains \subseteq Seq(Pieces)
  /\ \A c \in Chains :
       /\ Len(c) >= 2 /\ NUM_QDMAS + Len(c) - 1 <= NumParams
       /\ UNION {Cells(c[i]) : i \in DOMAIN c} = In /\ \A i \in DOMAIN c : c[i].nx < CountSpace

VARIABLES
  out,         \* first word of the output
  stage,       \* "own", "written", "sent", "answered", "read"
  prog,        \* calls the DSP component has still to make
  want,        \* the input as it was sent
  mine,        \* mine[w]: what the application has written last to its other words
  shared       \* has it written, since it handed over, to a line of the output

call == <<out, stage, prog, want, mine, shared>>
buffersVars == <<cache, qdma, call>>

Out == out .. out + Size - 1
Mine == Words \ (In \cup Out)

BuffersInit ==
  /\ CacheInit /\ QdmaInit
  /\ out \in Outs
  /\ stage = "own"
  /\ prog = << >>
  /\ want = [w \in In |-> 0]
  /\ mine = [w \in Words |-> 0]
  /\ shared = FALSE
-----------------------------------------------------------------------------
(* The calls of the component.                                             *)
Copy(q, moves) == [op |-> "copy", q |-> q, moves |-> moves]
Link(q, i, link, moves) == [op |-> "link", q |-> q, i |-> i, link |-> link, moves |-> moves]
Wait(q) == [op |-> "wait", q |-> q]

Reset == [op |-> "init"]

(* The commands of test_qdma: a copy in one or two dimensions, ...         *)
loc_copy1d == <<Reset, Copy(0, Moves1d(out, 0, Size)), Wait(0)>>
loc_copy2d == <<Reset, Copy(0, Moves2d(out, 1, 0, 1, 1, Size)), Wait(0)>>

(* ... and a chain of transfers.  Its transfer i is linked to transfer     *)
(* i - 1, and transfer 0, which is the channel's and starts the chain, to  *)
(* the last; they are written in that order.                               *)
Linked(moves, i) ==
  IF i = 0 THEN Link(1, 1, NUM_QDMAS + Len(moves) - 2, moves[1])
  ELSE Link(1, NUM_QDMAS + i - 1, IF i = 1 THEN NoLink ELSE NUM_QDMAS + i - 2, moves[i + 1])

(* From transfer m on.                                                     *)
LinkedFrom(moves, m) ==
  [k \in 1 .. m + 2 |-> IF k = m + 2 THEN Wait(1) ELSE Linked(moves, m + 1 - k)]

Transfers1d(chain) ==
  [i \in DOMAIN chain |-> Moves1d(out + chain[i].at, chain[i].at, chain[i].nx)]
Transfers2d(chain) ==
  [i \in DOMAIN chain |-> Moves2d(out + chain[i].at, chain[i].pitch, chain[i].at, chain[i].pitch,
                                  chain[i].nx, chain[i].ny)]

loc_link1d(chain) == <<Reset>> \o LinkedFrom(Transfers1d(chain), Len(chain) - 1)
loc_link2d(chain) == <<Reset>> \o LinkedFrom(Transfers2d(chain), Len(chain) - 1)

Flat(chain) == \A i \in DOMAIN chain : chain[i].ny = 1

Commands ==
  {loc_copy1d, loc_copy2d}
    \cup {loc_link1d(chain) : chain \in {c \in Chains : Flat(c)}}
    \cup {loc_link2d(chain) : chain \in Chains}

(* One call of the component.                                              *)
Exec ==
  /\ stage = "sent" /\ prog # << >>
  /\ LET c == Head(prog)
     IN  \/ c.op = "init" /\ qdma_init
         \/ c.op = "copy" /\ qdma_copy(c.q, c.moves)
         \/ c.op = "link" /\ qdma_link(c.q, c.i, c.link, c.moves)
         \/ c.op = "wait" /\ qdma_wait(c.q)
  /\ prog' = Tail(prog)
  /\ UNCHANGED <<cache, out, stage, want, mine, shared>>

(* A transfer controller moves the words of a transfer.                    *)
Move(k) ==
  /\ Transfer(k)
  /\ LET moves == param[Head(queue[k])].moves
     IN  mem' = [w \in Words |-> IF w \in DOMAIN moves THEN mem[moves[w]] ELSE mem[w]]
  /\ UNCHANGED <<type, state, data, call>>

(* The component returns, the reply reaches the client.                    *)
Answer ==
  /\ stage = "sent" /\ prog = << >>
  /\ stage' = "answered"
  /\ UNCHANGED <<cache, qdma, out, prog, want, mine, shared>>
-----------------------------------------------------------------------------
(* The application writes to the buffers while they are its own (to the    *)
(* output anything but 0, which is what it finds there at first), ...      *)
Fill(w, v) ==
  /\ stage = "own" /\ w \in In \cup Out /\ (w \in Out => v # 0)
  /\ ArmWrite(w, v)
  /\ UNCHANGED <<qdma, call>>

(* ... and to its other words at any time.                                 *)
WriteMine(w, v) ==
  /\ w \in Mine
  /\ ArmWrite(w, v)
  /\ mine' = [mine EXCEPT ![w] = v]
  /\ shared' = (shared \/ (stage # "own" /\ LineOf(w) \in {LineOf(o) : o \in Out}))
  /\ UNCHANGED <<qdma, out, stage, prog, want>>

(* It hands over all of the block, the output too: what is left dirty over *)
(* the output would be written back over what the DSP writes.  There is    *)
(* nothing to do for types that are not written back                       *)
(* (include/dsp_common.h).                                                 *)
HandOver ==
  /\ stage = "own"
  /\ IF WritesBack
       THEN dsp_cache_wb(0, N) \/ dsp_cache_wbinv(0, N) \/ dsp_cache_wbinvall
       ELSE UNCHANGED cache
  /\ stage' = "written"
  /\ UNCHANGED <<qdma, out, prog, want, mine, shared>>

Send(c) ==
  /\ stage = "written"
  /\ prog' = c
  /\ want' = [w \in In |-> ArmSees(w)]
  /\ stage' = "sent"
  /\ UNCHANGED <<cache, qdma, out, mine, shared>>

TakeBack ==
  /\ stage = "answered"
  /\ IF Cached
       THEN dsp_cache_inv(out, Size) \/ dsp_cache_wbinvall
       ELSE UNCHANGED cache
  /\ stage' = "read"
  /\ UNCHANGED <<qdma, out, prog, want, mine, shared>>

Done ==
  /\ stage = "read"
  /\ stage' = "own"
  /\ want' = [w \in In |-> 0]
  /\ shared' = FALSE
  /\ UNCHANGED <<cache, qdma, out, prog, mine>>

Dsp == Exec \/ Answer \/ \E k \in EventQueues : Move(k)

BuffersNext ==
  \/ Dsp \/ HandOver \/ TakeBack \/ Done
  \/ \E c \in Commands : Send(c)
  \/ \E w \in Words, v \in Vals : Fill(w, v) \/ WriteMine(w, v)
  \/ \E l \in Lines : (Fetch(l) \/ Evict(l)) /\ UNCHANGED <<qdma, call>>

BuffersSpec == BuffersInit /\ [][BuffersNext]_buffersVars

(* The DSP and its DMA run.                                                *)
BuffersFairSpec == BuffersSpec /\ WF_buffersVars(Exec \/ Answer) /\ \A k \in EventQueues : WF_buffersVars(Move(k))
-----------------------------------------------------------------------------
(* The application reads in the output what it has sent in the input, for  *)
(* every cache type and command, however the cache fetches and evicts: the *)
(* input was in memory when the DMA read it, the DMA was done when the     *)
(* component answered, and no old line hides or overwrites the output.     *)
(* It must have kept its hands off the lines of the output meanwhile.      *)
Delivered ==
  stage = "read" /\ ~shared => \A w \in In : ArmSees(out + w) = want[w]

(* Taking an output back that begins and ends inside a line loses nothing  *)
(* of what the application has written next to it.                         *)
NeighboursKept == \A w \in Mine : ArmSees(w) = mine[w]

(* A call that was sent is answered: qdma_wait() never polls for an        *)
(* interrupt that does not come.                                           *)
Answered == stage = "sent" ~> stage = "answered"
=============================================================================
