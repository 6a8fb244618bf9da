--------------------------------- MODULE Kmod ---------------------------------
(***************************************************************************)
(* The life of the kernel module: c64_init and c64_exit (kmod/kmod.c),     *)
(* dev_init and dev_exit (kmod/dev.c), mlb_init and mlb_exit (kmod/mlb.c). *)
(*                                                                         *)
(* insmod takes one thing after the other from the kernel; when one is     *)
(* refused those it has are given back.  count says how often each has     *)
(* been taken less how often it has been given back, pc what insmod takes  *)
(* next, todo what is still to be given back.  Processes open the device   *)
(* and the DSP interrupts in between.                                      *)
(*                                                                         *)
(*   "driver" the platform driver, "image" the memory of the DSP image,    *)
(*   "chrdev" a device number, "cdev", "class", "device", "node" (the cdev *)
(*   is added: the device can be opened), "clk" IVA2's clock,              *)
(*   "idle" access to the mailbox registers (given back by nobody),        *)
(*   "ipc", "mlb" the registers mapped, "irq" the interrupt handler.       *)
(***************************************************************************)
EXTENDS Integers, Sequences

CONSTANTS
  Builds,   \* "platform": with USE_PLATFORM_DRIVER, "plain"
  Fails     \* for each build, what the kernel may refuse

ASSUME KmodAssumption == Builds \subseteq {"platform", "plain"}

VARIABLES
  build, pc, todo, count,
  b_dev_enabled,
  irqenable,    \* the mailbox interrupts are enabled
  powered,      \* the DSP is on
  num_open,     \* open files of /dev/c64
  c64_pwroff    \* the module parameter

kmodVars == <<build, pc, todo, count, b_dev_enabled, irqenable, powered, num_open, c64_pwroff>>

Order == <<"driver", "chrdev", "cdev", "class", "device", "node", "clk",
           "idle", "ipc", "mlb", "irq">>

Resources == { Order[i] : i \in DOMAIN Order } \cup {"image"}

KmodInit ==
  /\ build \in Builds
  /\ pc = "out"
  /\ todo = << >>
  /\ count = [r \in Resources |-> 0]
  /\ b_dev_enabled = FALSE
  /\ irqenable = FALSE
  /\ powered = FALSE
  /\ num_open = 0
  /\ c64_pwroff = TRUE

Taken(c, r) == [c EXCEPT ![r] = @ + 1]
Given(c, r) == [c EXCEPT ![r] = @ - 1]

After(r) == LET i == CHOOSE j \in DOMAIN Order : Order[j] = r
            IN  IF i = Len(Order) THEN "enable" ELSE Order[i + 1]
-----------------------------------------------------------------------------
(* What the error paths of dev_init give back, label by label, each of     *)
(* which falls through to the next.                                        *)
failed_cdev_alloc == << "chrdev" >>
failed_class_create == << "cdev" >> \o failed_cdev_alloc
failed_device_create == << "class" >> \o failed_class_create
failed_cdev_add == << "device" >> \o failed_device_create
failed_clk_get == << "cdev" >> \o failed_cdev_add

(* Mutant: the clock is kept.                                              *)
dev_exit_KeepsClk == << "device", "class", "cdev", "chrdev" >>

dev_exit == << "clk", "device", "class", "cdev", "chrdev" >>

(* Mutant: the registers are unmapped under the handler.                   *)
mlb_exit_UnmapFirst == << "mlb", "irqenable", "irq", "ipc" >>

mlb_exit == << "irqenable", "irq", "mlb", "ipc" >>

(* dev_init cleans up after itself, c64_init after dev_init and, when      *)
(* dsp_init() fails, after mlb_init.                                       *)
Unwind(r) ==
  CASE r \in {"driver", "chrdev"} -> << >>
    [] r = "cdev"   -> failed_cdev_alloc
    [] r = "class"  -> failed_class_create
    [] r = "device" -> failed_device_create
    [] r = "node"   -> failed_cdev_add
    [] r = "clk"    -> failed_clk_get
    [] r \in {"idle", "ipc"} -> dev_exit
    [] r = "mlb"    -> << "ipc" >> \o dev_exit
    [] r = "irq"    -> << "mlb", "ipc" >> \o dev_exit
    [] r = "enable" -> mlb_exit \o dev_exit
-----------------------------------------------------------------------------
(* insmod.                                                                 *)
c64_init ==
  /\ pc = "out"
  /\ pc' = IF build = "platform" THEN "driver" ELSE "chrdev"
  /\ b_dev_enabled' = FALSE
  /\ c64_pwroff' = TRUE
  /\ UNCHANGED <<build, todo, count, irqenable, powered, num_open>>

(* The driver's probe function may be refused the memory of the image; the *)
(* driver is registered all the same.                                      *)
c64_tools_probe ==
  /\ pc = "driver"
  /\ \E image \in {0, 1} : count' = [Taken(count, "driver") EXCEPT !["image"] = image]
  /\ pc' = After(pc)
  /\ UNCHANGED <<build, todo, b_dev_enabled, irqenable, powered, num_open, c64_pwroff>>

(* dev_init.                                                               *)
dev_init ==
  /\ pc \in {"chrdev", "cdev", "class", "device", "node", "clk"}
  /\ count' = Taken(count, pc)
  /\ pc' = After(pc)
  /\ UNCHANGED <<build, todo, b_dev_enabled, irqenable, powered, num_open, c64_pwroff>>

(* mlb_init: the mailbox is reset before its handler is installed, and its *)
(* interrupts are enabled after it.                                        *)
mlb_init ==
  /\ pc \in {"idle", "ipc", "mlb", "irq"}
  /\ count' = IF pc = "idle" THEN count ELSE Taken(count, pc)
  /\ irqenable' = CASE pc = "mlb" -> FALSE [] pc = "irq" -> TRUE [] OTHER -> irqenable
  /\ pc' = After(pc)
  /\ UNCHANGED <<build, todo, b_dev_enabled, powered, num_open, c64_pwroff>>

(* dsp_init() comes first.  It returns S_TRUE, but c64_init has a branch   *)
(* for its failure: "enable" in Fails.                                     *)
dev_enable ==
  /\ pc = "enable"
  /\ b_dev_enabled' = TRUE
  /\ pc' = "in"
  /\ UNCHANGED <<build, todo, count, irqenable, powered, num_open, c64_pwroff>>

(* insmod fails.                                                           *)
InitFails ==
  /\ pc \in Fails[build]
  /\ todo' = Unwind(pc)
  /\ pc' = "undo"
  /\ UNCHANGED <<build, count, b_dev_enabled, irqenable, powered, num_open, c64_pwroff>>
-----------------------------------------------------------------------------
(* rmmod, which the kernel refuses while the device is open.  The DSP is   *)
(* powered off first.                                                      *)
c64_exit ==
  /\ pc = "in"
  /\ num_open = 0
  /\ powered' = FALSE
  /\ todo' = mlb_exit \o dev_exit
               \o IF build = "platform" THEN << "driver" >> ELSE << >>
  /\ pc' = "undo"
  /\ UNCHANGED <<build, count, b_dev_enabled, irqenable, num_open, c64_pwroff>>

(* cdev_del takes the device away too; unregistering the driver calls      *)
(* c64_tools_remove if it is bound.                                        *)
GivenBack(r) ==
  CASE r = "cdev"   -> [Given(count, r) EXCEPT !["node"] = 0]
    [] r = "driver" -> [Given(count, r) EXCEPT !["image"] = 0]
    [] OTHER        -> Given(count, r)

Undo ==
  /\ pc = "undo"
  /\ todo # << >>
  /\ todo' = Tail(todo)
  /\ IF Head(todo) = "irqenable"
     THEN irqenable' = FALSE /\ UNCHANGED count
     ELSE count' = GivenBack(Head(todo)) /\ UNCHANGED irqenable
  /\ UNCHANGED <<build, pc, b_dev_enabled, powered, num_open, c64_pwroff>>

Undone ==
  /\ pc = "undo"
  /\ todo = << >>
  /\ pc' = "out"
  /\ UNCHANGED <<build, todo, count, b_dev_enabled, irqenable, powered, num_open, c64_pwroff>>
-----------------------------------------------------------------------------
(* The parameter can be written at any time.                               *)
c64_param_set_pwroff(val) ==
  /\ pc = "in"
  /\ c64_pwroff' = (val # 0)
  /\ UNCHANGED <<build, pc, todo, count, b_dev_enabled, irqenable, powered, num_open>>

(* open, answered with an error unless the module is enabled.              *)
MayOpen == count["node"] = 1 /\ pc # "undo" /\ b_dev_enabled

fops__open ==
  /\ MayOpen
  /\ num_open' = num_open + 1
  /\ powered' = TRUE
  /\ UNCHANGED <<build, pc, todo, count, b_dev_enabled, irqenable, c64_pwroff>>

(* The last one to close powers the DSP off, if c64_pwroff is set.         *)
fops__release ==
  /\ num_open > 0
  /\ num_open' = num_open - 1
  /\ powered' = (powered /\ (num_open' > 0 \/ ~ c64_pwroff))
  /\ UNCHANGED <<build, pc, todo, count, b_dev_enabled, irqenable, c64_pwroff>>

KmodStep ==
  \/ c64_init \/ c64_tools_probe \/ dev_init \/ mlb_init \/ dev_enable \/ InitFails
  \/ c64_exit \/ Undo \/ Undone
  \/ \E val \in {0, 1} : c64_param_set_pwroff(val)
-----------------------------------------------------------------------------
(* Once insmod has failed, at whatever step, or rmmod has ended, nothing   *)
(* of the module is left in the kernel, nothing has been given back twice, *)
(* and the DSP is off.                                                     *)
OutLeavesNothing ==
  pc = "out" => ~ powered /\ \A r \in Resources : count[r] = 0

(* No interrupt is raised that nobody handles, and the handler finds the   *)
(* registers it reads mapped, and the clients it looks through set up.  A  *)
(* client that has the device open finds all of it, too.                   *)
HandlerReady ==
  /\ irqenable => count["irq"] = 1
  /\ count["irq"] = 1 => \A r \in {"ipc", "mlb", "clk"} : count[r] = 1
  /\ num_open > 0 =>
       /\ irqenable
       /\ \A r \in Resources \ {"driver", "image", "idle"} : count[r] = 1
=============================================================================
