------------------------------ MODULE HostProofs ------------------------------
(***************************************************************************)
(* Proofs about the life of the kernel module, whatever a program with     *)
(* root rights does to it meanwhile, wherever insmod is refused something  *)
(* that the code gives back; and about the memory that program has mapped, *)
(* for any regions of fast_mmap, any registers, and blocks that the pages  *)
(* mapped for them hold.                                                   *)
(***************************************************************************)
EXTENDS Host, SequenceTheorems, WellFoundedInduction, TLAPS

(* What the code cleans up after: c64_init keeps the platform driver when  *)
(* a later step fails, and dev_init gives the cdev back twice when it has  *)
(* no clock.                                                               *)
Cleaned(b) ==
  IF b = "platform" THEN {"driver"}
  ELSE {"chrdev", "cdev", "class", "device", "node", "idle", "ipc", "mlb", "irq", "enable"}

CleanedUp == \A b \in Builds : Fails[b] \subseteq Cleaned(b)

(* How far insmod is, and rmmod and the error paths, which go backwards    *)
(* but for the cdev.                                                       *)
Place ==
  [p \in Resources \cup {"enable", "in"} |->
     CASE p = "driver" -> 1 [] p = "chrdev" -> 2 [] p = "cdev"  -> 3
       [] p = "class"  -> 4 [] p = "device" -> 5 [] p = "node"  -> 6
       [] p = "clk"    -> 7 [] p = "idle"   -> 8 [] p = "ipc"   -> 9
       [] p = "mlb"    -> 10 [] p = "irq"   -> 11 [] OTHER -> 12]

Steps == {"irqenable", "irq", "mlb", "ipc", "clk", "device", "class", "cdev", "chrdev", "driver"}

Back ==
  [p \in Steps |->
     CASE p = "irqenable" -> 1 [] p = "irq"    -> 2 [] p = "mlb"   -> 3
       [] p = "ipc"       -> 4 [] p = "clk"    -> 5 [] p = "device" -> 6
       [] p = "class"     -> 7 [] p = "cdev"   -> 8 [] p = "chrdev" -> 9
       [] OTHER           -> 10]

Ends == IF build = "platform" THEN 10 ELSE 9
Mine(r) == r = "driver" => build = "platform"
Single == Resources \ {"image", "idle", "node"}

TypeOK ==
  /\ build \in Builds
  /\ pc \in (DOMAIN Place \ {"image"}) \cup {"out", "undo"}
  /\ count \in [Resources -> Int]
  /\ num_open \in Nat
  /\ b_dev_enabled \in BOOLEAN /\ irqenable \in BOOLEAN /\ powered \in BOOLEAN

(* insmod has taken what comes before pc, once.                            *)
Loads ==
  pc \in DOMAIN Place =>
    /\ \A r \in Single \cup {"node"} :
         count[r] = IF Place[r] < Place[pc] /\ Mine(r) THEN 1 ELSE 0
    /\ irqenable <=> Place[pc] = 12
    /\ b_dev_enabled <=> pc = "in"
    /\ pc = "driver" => build = "platform"

(* A list of n steps, from the k-th one.                                   *)
Covers(list, k, n) ==
  list \in Seq(Steps) /\ Len(list) = n /\ \A i \in 1 .. n : Back[list[i]] = k + i - 1

(* What is still to be given back is there, once.                          *)
Gives(k) ==
  /\ k \in 1 .. Ends + 1
  /\ Covers(todo, k, Ends + 1 - k)
  /\ \A r \in Single : count[r] = IF Back[r] >= k /\ Mine(r) THEN 1 ELSE 0
  /\ irqenable => k = 1

Undoes == pc = "undo" => \E k \in 1 .. 11 : Gives(k)

(* What goes with something else.                                          *)
Bound ==
  /\ count["idle"] = 0
  /\ count["node"] \in {0, 1} /\ (count["node"] = 1 => count["cdev"] = 1)
  /\ count["image"] \in {0, 1} /\ (count["image"] = 1 => count["driver"] = 1)

Out == pc = "out" => ~ irqenable /\ \A r \in Resources : count[r] = 0

Used == powered \/ num_open > 0 => pc = "in"

IInv == TypeOK /\ Loads /\ Undoes /\ Bound /\ Out /\ Used
-----------------------------------------------------------------------------
(* What a block or a fast region has mapped, as Root's accesses have it.   *)
Fast(i) == [phys |-> fast_mmap[i].phys_addr, size |-> fast_mmap[i].size, virt |-> virt_addr[i]]
Mapped == { i \in Regions : virt_addr[i] # 0 }
FastPages(i) == PagesAt(virt_addr[i], fast_mmap[i].size)

(* The pages an access has mapped for itself.                              *)
OwnPages(a) == IF a = NULL \/ OfVirt(a.virt) # {} THEN {} ELSE PagesAt(a.virt, a.size)

RootTypeOK ==
  /\ at \in {"down", "mapping", "up", "failed", "ended"}
  /\ fd_mem \in BOOLEAN
  /\ virt_addr \in [Regions -> Nat]
  /\ vm \in [Pages -> Nat \cup {NULL}]
  /\ \A a \in {op, held} :
       a # NULL => a \in [phys : Nat, size : Nat \ {0}, virt : Nat] /\ at = "up"

(* dsp_init_root maps the regions one by one.                              *)
InOrder ==
  /\ at = "up" => Mapped = Regions
  /\ at = "mapping" => \E k \in Regions : \A i \in Regions : i \in Mapped <=> i < k

(* What is mapped where is what was asked for, ...                         *)
Good(map, a) ==
  /\ PagesAt(a.virt, a.size) \subseteq Pages
  /\ \A p \in PagesAt(a.virt, a.size) : map[p] # NULL
  /\ \A k \in 0 .. a.size - 1 :
       /\ (a.virt + k) \div PAGESIZE \in PagesAt(a.virt, a.size)
       /\ map[(a.virt + k) \div PAGESIZE] = (a.phys + k) \div PAGESIZE

FastGood == at # "down" => \A i \in Mapped : Good(vm, Fast(i))

InFast(a) ==
  \E i \in Mapped :
    /\ fast_mmap[i].phys_addr <= a.phys
    /\ a.phys + a.size <= fast_mmap[i].phys_addr + fast_mmap[i].size
    /\ a.virt = a.phys - fast_mmap[i].phys_addr + virt_addr[i]

AccessGood == \A a \in {op, held} : a # NULL => InFast(a) \/ (OfVirt(a.virt) = {} /\ Good(vm, a))

(* ... nothing is mapped over something else, ...                          *)
Apart ==
  at # "down" =>
    /\ \A i, j \in Mapped : i # j => FastPages(i) \cap FastPages(j) = {}
    /\ \A i \in Mapped : \A a \in {op, held} : OwnPages(a) \cap FastPages(i) = {}
    /\ OwnPages(op) \cap OwnPages(held) = {}

(* ... and nothing is left.                                                *)
Exact ==
  \A p \in Pages : vm[p] # NULL =>
    \/ p \in OwnPages(op) \cup OwnPages(held)
    \/ at # "down" /\ \E i \in Mapped : p \in FastPages(i)

Files == at = "down" => ~ fd_mem

RInv == RootTypeOK /\ InOrder /\ FastGood /\ AccessGood /\ Apart /\ Exact /\ Files
-----------------------------------------------------------------------------
(* The resources, spelt out, ...                                           *)
LEMMA Names ==
  Resources = {"driver", "chrdev", "cdev", "class", "device", "node", "clk",
               "idle", "ipc", "mlb", "irq", "image"}
BY DEF Resources, Order

(* ... the order of insmod, ...                                            *)
LEMMA Places ==
  /\ Place["driver"] = 1 /\ Place["chrdev"] = 2 /\ Place["cdev"] = 3
  /\ Place["class"] = 4 /\ Place["device"] = 5 /\ Place["node"] = 6
  /\ Place["clk"] = 7 /\ Place["idle"] = 8 /\ Place["ipc"] = 9
  /\ Place["mlb"] = 10 /\ Place["irq"] = 11 /\ Place["enable"] = 12
  /\ Place["in"] = 12 /\ Place["image"] = 12
  /\ DOMAIN Place = Resources \cup {"enable", "in"}
BY Names DEF Place

(* ... and that of rmmod.                                                  *)
LEMMA Backs ==
  /\ Back["irqenable"] = 1 /\ Back["irq"] = 2 /\ Back["mlb"] = 3
  /\ Back["ipc"] = 4 /\ Back["clk"] = 5 /\ Back["device"] = 6
  /\ Back["class"] = 7 /\ Back["cdev"] = 8 /\ Back["chrdev"] = 9
  /\ Back["driver"] = 10
BY DEF Back, Steps

(* What comes after.                                                       *)
LEMMA Afters ==
  /\ After("driver") = "chrdev" /\ After("chrdev") = "cdev"
  /\ After("cdev") = "class" /\ After("class") = "device"
  /\ After("device") = "node" /\ After("node") = "clk" /\ After("clk") = "idle"
  /\ After("idle") = "ipc" /\ After("ipc") = "mlb" /\ After("mlb") = "irq"
  /\ After("irq") = "enable"
<1>1. DOMAIN Order = 1 .. 11 /\ Len(Order) = 11
  BY DEF Order
<1>2. \A i \in 1 .. 11 : \A j \in 1 .. 11 : Order[j] = Order[i] => i = j
  BY DEF Order
<1>3. \A i \in 1 .. 11 : After(Order[i]) = IF i = 11 THEN "enable" ELSE Order[i + 1]
  <2> SUFFICES ASSUME NEW i \in 1 .. 11
               PROVE  After(Order[i]) = IF i = 11 THEN "enable" ELSE Order[i + 1]
    OBVIOUS
  <2>1. (CHOOSE j \in DOMAIN Order : Order[j] = Order[i]) = i
    BY <1>1, <1>2
  <2> QED  BY <1>1, <2>1 DEF After
<1>4. /\ Order[1] = "driver" /\ Order[2] = "chrdev" /\ Order[3] = "cdev" /\ Order[4] = "class"
      /\ Order[5] = "device" /\ Order[6] = "node" /\ Order[7] = "clk" /\ Order[8] = "idle"
      /\ Order[9] = "ipc" /\ Order[10] = "mlb" /\ Order[11] = "irq"
  BY DEF Order
<1> QED  BY <1>3, <1>4

(* Lists of steps, put together.                                           *)
LEMMA Joined ==
  ASSUME NEW l, NEW m, NEW j \in Nat, NEW k \in Nat, NEW n \in Nat, NEW p \in Nat,
         Covers(l, j, n), Covers(m, k, p), k = j + n
  PROVE  Covers(l \o m, j, n + p)
<1>1. /\ l \o m \in Seq(Steps) /\ Len(l \o m) = n + p
      /\ \A i \in 1 .. n + p : (l \o m)[i] = IF i <= n THEN l[i] ELSE m[i - n]
  BY ConcatProperties DEF Covers
<1>2. ASSUME NEW i \in 1 .. n + p PROVE Back[(l \o m)[i]] = j + i - 1
  <2>1. CASE i <= n
    BY <1>1, <2>1 DEF Covers
  <2>2. CASE i > n
    <3>1. i - n \in 1 .. p /\ ~ (i <= n)
      BY <2>2
    <3>2. Back[m[i - n]] = k + (i - n) - 1
      BY <3>1 DEF Covers
    <3>3. (l \o m)[i] = m[i - n]
      BY <1>1, <3>1
    <3>4. k + (i - n) - 1 = j + i - 1
      OBVIOUS
    <3> QED  BY <3>2, <3>3, <3>4
  <2>3. i <= n \/ i > n
    OBVIOUS
  <2> QED  BY <2>1, <2>2, <2>3
<1> QED  BY <1>1, <1>2 DEF Covers

(* Lists of one step, and of none.                                         *)
LEMMA One ==
  /\ \A p \in Steps : Covers(<< p >>, Back[p], 1)
  /\ \A k \in Nat : Covers(<< >>, k, 0)
<1>1. ASSUME NEW p \in Steps PROVE Covers(<< p >>, Back[p], 1)
  <2>1. << p >> \in Seq(Steps) /\ Len(<< p >>) = 1 /\ << p >>[1] = p
    OBVIOUS
  <2>2. Back[p] \in Nat
    BY Backs DEF Steps
  <2> QED  BY <2>1, <2>2 DEF Covers
<1>2. \A k \in Nat : Covers(<< >>, k, 0)
  BY EmptySeq DEF Covers
<1> QED  BY <1>1, <1>2

(* The error paths give back the tails of what rmmod does.                 *)
LEMMA Lists ==
  /\ Covers(failed_cdev_alloc, 9, 1) /\ Covers(failed_class_create, 8, 2)
  /\ Covers(failed_device_create, 7, 3) /\ Covers(failed_cdev_add, 6, 4)
  /\ Covers(dev_exit, 5, 5) /\ Covers(<< "ipc" >> \o dev_exit, 4, 6)
  /\ Covers(<< "mlb", "ipc" >> \o dev_exit, 3, 7)
  /\ Covers(mlb_exit \o dev_exit, 1, 9) /\ Covers(mlb_exit \o dev_exit \o << >>, 1, 9)
  /\ Covers(mlb_exit \o dev_exit \o << "driver" >>, 1, 10)
<1>1. /\ Covers(<< "chrdev" >>, 9, 1) /\ Covers(<< "cdev" >>, 8, 1)
      /\ Covers(<< "class" >>, 7, 1) /\ Covers(<< "device" >>, 6, 1)
      /\ Covers(<< "ipc" >>, 4, 1) /\ Covers(<< "driver" >>, 10, 1) /\ Covers(<< >>, 10, 0)
  BY Backs, One DEF Steps
<1>2. Covers(dev_exit, 5, 5) /\ Covers(<< "mlb", "ipc" >>, 3, 2) /\ Covers(mlb_exit, 1, 4)
  BY Backs DEF Covers, Steps, dev_exit, mlb_exit
<1>3. Covers(failed_cdev_alloc, 9, 1)
  BY <1>1 DEF failed_cdev_alloc
<1>4. Covers(failed_class_create, 8, 2)
  BY <1>1, <1>3, Joined, 8 + 1 = 9, 1 + 1 = 2 DEF failed_class_create
<1>5. Covers(failed_device_create, 7, 3)
  BY <1>1, <1>4, Joined, 7 + 1 = 8, 1 + 2 = 3 DEF failed_device_create
<1>6. Covers(failed_cdev_add, 6, 4)
  BY <1>1, <1>5, Joined, 6 + 1 = 7, 1 + 3 = 4 DEF failed_cdev_add
<1>7. Covers(<< "ipc" >> \o dev_exit, 4, 6)
  BY <1>1, <1>2, Joined, 4 + 1 = 5, 1 + 5 = 6
<1>8. Covers(<< "mlb", "ipc" >> \o dev_exit, 3, 7)
  BY <1>2, Joined, 3 + 2 = 5, 2 + 5 = 7
<1>9. Covers(mlb_exit \o dev_exit, 1, 9)
  BY <1>2, Joined, 1 + 4 = 5, 4 + 5 = 9
<1>10. Covers(mlb_exit \o dev_exit \o << >>, 1, 9)
  BY <1>1, <1>9, Joined, 1 + 9 = 10, 9 + 0 = 9
<1>11. Covers(mlb_exit \o dev_exit \o << "driver" >>, 1, 10)
  BY <1>1, <1>9, Joined, 1 + 9 = 10, 9 + 1 = 10
<1> QED  BY <1>2, <1>3, <1>4, <1>5, <1>6, <1>7, <1>8, <1>9, <1>10, <1>11
-----------------------------------------------------------------------------
(* insmod takes one thing after the other.                                 *)
LEMMA InitStep ==
  ASSUME IInv, c64_init \/ c64_tools_probe \/ dev_init \/ mlb_init \/ dev_enable
  PROVE  IInv'
<1> USE Names, Places
<1> USE DEF IInv, TypeOK, Loads, Undoes, Bound, Out, Used, Single, Mine
<1>1. CASE c64_init
  <2>1. /\ UNCHANGED <<build, count, irqenable, powered, num_open>>
        /\ b_dev_enabled' = FALSE /\ ~ irqenable /\ ~ powered /\ num_open = 0
        /\ \A r \in Resources : count[r] = 0
    BY <1>1 DEF c64_init
  <2>2. \/ pc' = "driver" /\ build = "platform"
        \/ pc' = "chrdev" /\ build # "platform"
    BY <1>1 DEF c64_init
  <2>3. TypeOK' /\ Bound' /\ Out' /\ Used' /\ Undoes'
    BY <2>1, <2>2
  <2>4. Loads'
    <3>1. \A r \in Single \cup {"node"} :
            Place[r] \in Nat \ {0} /\ (r # "driver" => Place[r] >= 2)
      OBVIOUS
    <3> QED  BY <2>1, <2>2, <3>1
  <2> QED  BY <2>3, <2>4
<1>2. CASE c64_tools_probe
  BY <1>2, Afters DEF c64_tools_probe, Taken
<1>3. CASE dev_init
  BY <1>3, Afters DEF dev_init, Taken
<1>4. CASE mlb_init
  <2>1. UNCHANGED <<build, b_dev_enabled, powered, num_open>>
    BY <1>4 DEF mlb_init
  <2>2. CASE pc = "idle"
    BY <1>4, <2>1, <2>2, Afters DEF mlb_init
  <2>3. CASE pc = "ipc"
    BY <1>4, <2>1, <2>3, Afters DEF mlb_init, Taken
  <2>4. CASE pc = "mlb"
    BY <1>4, <2>1, <2>4, Afters DEF mlb_init, Taken
  <2>5. CASE pc = "irq"
    BY <1>4, <2>1, <2>5, Afters DEF mlb_init, Taken
  <2> QED  BY <1>4, <2>2, <2>3, <2>4, <2>5 DEF mlb_init
<1>5. CASE dev_enable
  BY <1>5 DEF dev_enable
<1> QED  BY <1>1, <1>2, <1>3, <1>4, <1>5

(* It is refused something, and gives back what it has.                    *)
LEMMA FailStep ==
  ASSUME CleanedUp, IInv, InitFails
  PROVE  IInv'
<1> USE Names, Places, Backs
<1>1. /\ pc \in Cleaned(build) /\ pc \in DOMAIN Place /\ (Place[pc] = 12 <=> pc = "enable")
      /\ todo' = Unwind(pc) /\ pc' = "undo"
      /\ UNCHANGED <<build, count, b_dev_enabled, irqenable, powered, num_open>>
  BY DEF CleanedUp, Cleaned, InitFails, IInv, TypeOK
<1>2. /\ (irqenable => pc = "enable") /\ ~ powered /\ num_open = 0
      /\ \A r \in Single \cup {"node"} :
           count[r] = IF Place[r] < Place[pc] /\ Mine(r) THEN 1 ELSE 0
  BY <1>1 DEF IInv, Loads, Used, TypeOK
<1> DEFINE from == CASE pc = "driver" -> 11 [] pc = "chrdev" -> 10 [] pc = "cdev" -> 9
                  [] pc = "class" -> 8 [] pc = "device" -> 7 [] pc = "node" -> 6
                  [] pc \in {"idle", "ipc"} -> 5 [] pc = "mlb" -> 4
                  [] pc = "irq" -> 3 [] OTHER -> 1
<1>3. from \in 1 .. Ends + 1 /\ from <= 11 /\ Covers(todo', from, Ends + 1 - from)
  BY <1>1, Lists, One DEF Cleaned, Ends, Unwind, Steps
<1>4. /\ \A r \in Single : count[r] = IF Back[r] >= from /\ Mine(r) THEN 1 ELSE 0
      /\ irqenable => from = 1
  BY <1>1, <1>2 DEF Single, Mine, Cleaned
<1> HIDE DEF from
<1>5. PICK k \in 1 .. 11 : k = from
  BY <1>3 DEF Ends
<1>6. Ends' = Ends /\ \A r : Mine(r)' = Mine(r)
  BY <1>1 DEF Ends, Mine
<1>7. Gives(k)'
  BY <1>1, <1>2, <1>3, <1>4, <1>5, <1>6 DEF Gives
<1>8. Undoes'
  BY <1>7 DEF Undoes
<1>9. TypeOK'
  BY <1>1 DEF IInv, TypeOK
<1>10. Loads' /\ Bound' /\ Out' /\ Used'
  BY <1>1, <1>2 DEF IInv, Loads, Bound, Out, Used
<1> QED  BY <1>8, <1>9, <1>10 DEF IInv

(* rmmod begins.                                                           *)
LEMMA ExitStep ==
  ASSUME IInv, c64_exit
  PROVE  IInv'
<1> USE Names, Places, Backs
<1>1. /\ pc = "in" /\ num_open = 0 /\ pc' = "undo" /\ powered' = FALSE
      /\ UNCHANGED <<build, count, b_dev_enabled, irqenable, num_open>>
      /\ todo' = mlb_exit \o dev_exit \o (IF build = "platform" THEN << "driver" >> ELSE << >>)
  BY DEF c64_exit
<1>2. \A r \in Single : count[r] = IF Back[r] >= 1 /\ Mine(r) THEN 1 ELSE 0
  BY <1>1 DEF IInv, Loads, Single, Mine
<1>3. Covers(todo', 1, Ends) /\ Ends \in {9, 10}
  BY <1>1, Lists DEF Ends
<1>4. Ends' = Ends /\ Ends + 1 - 1 = Ends /\ \A r : Mine(r)' = Mine(r)
  BY <1>1, <1>3 DEF Ends, Mine
<1>5. Gives(1)'
  BY <1>1, <1>2, <1>3, <1>4 DEF Gives
<1>6. Undoes'
  BY <1>5 DEF Undoes
<1>7. TypeOK'
  BY <1>1 DEF IInv, TypeOK
<1>8. Loads' /\ Bound' /\ Out' /\ Used'
  BY <1>1 DEF IInv, Loads, Bound, Out, Used
<1> QED  BY <1>6, <1>7, <1>8 DEF IInv

(* One thing is given back.                                                *)
LEMMA UndoStep ==
  ASSUME IInv, Undo
  PROVE  IInv'
<1> USE Names, Places, Backs
<1>1. PICK k \in 1 .. 11 : Gives(k)
  BY DEF IInv, Undoes, Undo
<1> DEFINE h == Head(todo)
<1>2. /\ todo \in Seq(Steps) /\ todo # << >> /\ Len(todo) = Ends + 1 - k /\ Ends \in {9, 10}
      /\ h \in Steps /\ Tail(todo) \in Seq(Steps) /\ Len(Tail(todo)) = Len(todo) - 1
      /\ \A i \in 1 .. Len(Tail(todo)) : Tail(todo)[i] = todo[i + 1]
      /\ h = todo[1]
  BY <1>1, HeadTailProperties DEF Undo, Gives, Covers, Ends
<1>3. Back[h] = k /\ k <= Ends
  <2>1. Len(todo) \in Nat /\ Len(todo) # 0
    BY <1>2, EmptySeq, Zenon
  <2>2. 1 \in 1 .. Ends + 1 - k /\ k + 1 - 1 = k
    BY <1>2, <2>1
  <2>3. Back[todo[1]] = k + 1 - 1
    BY <1>1, <2>2 DEF Gives, Covers
  <2> QED  BY <1>2, <2>2, <2>3
<1>4. Covers(todo', k + 1, Ends - k)
  <2>1. todo' = Tail(todo) /\ Len(todo') = Ends - k
    BY <1>2 DEF Undo
  <2>2. ASSUME NEW i \in 1 .. Ends - k PROVE Back[todo'[i]] = k + 1 + i - 1
    <3>1. /\ i \in 1 .. Len(Tail(todo)) /\ i + 1 \in 1 .. Ends + 1 - k
          /\ k + (i + 1) - 1 = k + 1 + i - 1
      BY <1>2
    <3>2. Back[todo[i + 1]] = k + (i + 1) - 1
      BY <1>1, <3>1 DEF Gives, Covers
    <3>3. todo'[i] = todo[i + 1]
      BY <1>2, <2>1, <3>1
    <3> QED  BY <3>1, <3>2, <3>3
  <2> QED  BY <1>2, <2>1, <2>2 DEF Covers
<1>5. pc' = pc /\ pc = "undo" /\ UNCHANGED <<build, b_dev_enabled, powered, num_open>>
  BY DEF Undo
<1> HIDE DEF h
<1>6. CASE h = "irqenable"
  <2>1. count' = count /\ irqenable' = FALSE /\ k = 1
    BY <1>3, <1>6 DEF Undo, h
  <2>2. Ends' = Ends /\ Ends + 1 - 2 = Ends - k /\ k + 1 = 2 /\ \A r : Mine(r)' = Mine(r)
    BY <1>2, <1>5, <2>1 DEF Ends, Mine
  <2>3. Covers(todo', 2, Ends + 1 - 2) /\ 2 \in 1 .. Ends + 1
    BY <1>2, <1>4, <2>2
  <2>4. \A r \in Single : count[r] = IF Back[r] >= 2 /\ Mine(r) THEN 1 ELSE 0
    BY <1>1, <2>1 DEF Gives, Single
  <2>5. Gives(2)'
    BY <2>1, <2>2, <2>3, <2>4 DEF Gives
  <2>6. Undoes'
    BY <2>5 DEF Undoes
  <2> QED  BY <1>5, <2>1, <2>6 DEF IInv, TypeOK, Loads, Bound, Out, Used
<1>7. CASE h # "irqenable"
  <2>1. count' = GivenBack(h) /\ irqenable' = irqenable /\ k # 1 /\ h \in Single
    BY <1>2, <1>3, <1>7 DEF Undo, h, Steps, Single
  <2>2. /\ count' \in [Resources -> Int]
        /\ \A r \in Single \cup {"idle"} : count'[r] = count[r] - (IF r = h THEN 1 ELSE 0)
        /\ count'["node"] = IF h = "cdev" THEN 0 ELSE count["node"]
        /\ count'["image"] = IF h = "driver" THEN 0 ELSE count["image"]
    BY <2>1 DEF GivenBack, Given, IInv, TypeOK, Single
  <2>3. \A r \in Single : Back[r] = k => r = h
    BY <1>3, <2>1 DEF Single
  <2>4. Mine(h)
    BY <1>3 DEF Mine, Ends
  <2>5. \A r \in Single : Back[r] \in Nat
    BY DEF Single
  <2>6. ASSUME NEW r \in Single
        PROVE  count'[r] = IF Back[r] >= k + 1 /\ Mine(r) THEN 1 ELSE 0
    BY <1>1, <1>3, <2>2, <2>3, <2>4, <2>5 DEF Gives
  <2>7. Gives(k + 1)'
    <3>1. Ends' = Ends /\ Ends + 1 - (k + 1) = Ends - k /\ \A r : Mine(r)' = Mine(r)
      BY <1>2, <1>5 DEF Ends, Mine
    <3>2. k + 1 \in 1 .. Ends + 1 /\ ~ irqenable
      BY <1>1, <1>2, <1>3, <2>1 DEF Gives
    <3> QED  BY <1>4, <2>1, <2>6, <3>1, <3>2 DEF Gives
  <2>8. Bound'
    <3>1. count'["idle"] = 0
      BY <2>1, <2>2 DEF IInv, Bound, Single
    <3>2. count'["node"] \in {0, 1} /\ (count'["node"] = 1 => count'["cdev"] = 1)
      BY <2>1, <2>2 DEF IInv, Bound, Single
    <3>3. count'["image"] \in {0, 1} /\ (count'["image"] = 1 => count'["driver"] = 1)
      BY <2>1, <2>2 DEF IInv, Bound, Single
    <3> QED  BY <3>1, <3>2, <3>3 DEF Bound
  <2>9. Undoes'
    <3>1. k + 1 \in 1 .. 11
      BY <1>2, <1>3
    <3> QED  BY <2>7, <3>1 DEF Undoes
  <2> QED  BY <1>5, <2>1, <2>2, <2>8, <2>9 DEF IInv, TypeOK, Loads, Out, Used
<1> QED  BY <1>6, <1>7

(* All of it has been given back.                                          *)
LEMMA UndoneStep ==
  ASSUME IInv, Undone
  PROVE  IInv'
<1> USE Names, Places, Backs
<1>1. PICK k \in 1 .. 11 : Gives(k)
  BY DEF IInv, Undoes, Undone
<1>2. Ends \in {9, 10} /\ k = Ends + 1
  BY <1>1 DEF Undone, Gives, Covers, Ends
<1>3. ~ irqenable /\ \A r \in Single : count[r] = 0
  BY <1>1, <1>2 DEF Gives, Single, Mine, Ends
<1>4. \A r \in Resources : count[r] = 0
  BY <1>3 DEF IInv, Bound, Single
<1> QED  BY <1>3, <1>4 DEF Undone, IInv, TypeOK, Loads, Undoes, Bound, Out, Used

(* Files are opened and closed while the module is in.                     *)
LEMMA FileStep ==
  ASSUME IInv, fops__open \/ fops__release \/ \E val \in {0, 1} : c64_param_set_pwroff(val)
  PROVE  IInv'
<1> USE Names, Places
<1>1. pc = "in"
  BY DEF IInv, TypeOK, Loads, Out, Used, fops__open, fops__release, c64_param_set_pwroff, MayOpen
<1>2. /\ UNCHANGED <<build, pc, todo, count, b_dev_enabled, irqenable>>
      /\ num_open' \in Nat /\ powered' \in BOOLEAN
  <2>1. CASE fops__open
    BY <2>1 DEF IInv, TypeOK, fops__open
  <2>2. CASE fops__release
    <3>1. num_open' \in Nat
      BY <2>2 DEF IInv, TypeOK, fops__release
    <3>2. powered' \in BOOLEAN
      BY <2>2, Zenon DEF fops__release
    <3> QED  BY <2>2, <3>1, <3>2 DEF fops__release
  <2>3. CASE \E val \in {0, 1} : c64_param_set_pwroff(val)
    BY <2>3 DEF IInv, TypeOK, c64_param_set_pwroff
  <2> QED  BY <2>1, <2>2, <2>3
<1> QED  BY <1>1, <1>2 DEF IInv, TypeOK, Loads, Undoes, Bound, Out, Used, Single, Mine
-----------------------------------------------------------------------------
(* The inductive invariant.                                                *)
THEOREM HostInvariance ==
  ASSUME CleanedUp
  PROVE  Spec => []IInv
<1>1. Init => IInv
  <2> SUFFICES ASSUME Init PROVE IInv
    OBVIOUS
  <2>1. /\ build \in Builds /\ pc = "out" /\ num_open = 0 /\ count \in [Resources -> Int]
        /\ b_dev_enabled = FALSE /\ irqenable = FALSE /\ powered = FALSE
        /\ \A r \in Resources : count[r] = 0
    BY DEF Init, KmodInit
  <2>2. TypeOK
    BY <2>1 DEF TypeOK
  <2>3. Loads /\ Undoes
    BY <2>1, Names, Places DEF Loads, Undoes
  <2>4. Bound /\ Out /\ Used
    BY <2>1, Names DEF Bound, Out, Used
  <2> QED  BY <2>2, <2>3, <2>4 DEF IInv
<1>2. IInv /\ [Next]_vars => IInv'
  <2> SUFFICES ASSUME IInv, [Next]_vars PROVE IInv'
    OBVIOUS
  <2>1. CASE UNCHANGED kmodVars
    BY <2>1 DEF kmodVars, IInv, TypeOK, Loads, Undoes, Gives, Covers, Ends, Mine, Single, Bound,
       Out, Used
  <2>2. CASE KmodStep
    BY <2>2, InitStep, FailStep, ExitStep, UndoStep, UndoneStep, FileStep DEF KmodStep
  <2>3. CASE fops__open \/ fops__release
    BY <2>3, FileStep
  <2> QED  BY <2>1, <2>2, <2>3 DEF Next, OpenAndInit, Close, vars
<1> QED  BY <1>1, <1>2, PTL DEF Spec

(* Whatever the kernel refuses insmod, as long as the code cleans up after *)
(* it, and whenever the module is removed: nothing of it is left, nothing  *)
(* has been given back twice, and the DSP is off.                          *)
THEOREM AlwaysOutLeavesNothing ==
  ASSUME CleanedUp
  PROVE  Spec => []OutLeavesNothing
<1>1. IInv => OutLeavesNothing
  BY DEF IInv, Out, Used, OutLeavesNothing
<1> QED  BY <1>1, HostInvariance, PTL

(* The mailbox interrupts only while its handler is installed, and the     *)
(* handler and the clients find all they use.                              *)
THEOREM AlwaysHandlerReady ==
  ASSUME CleanedUp
  PROVE  Spec => []HandlerReady
<1>1. IInv => HandlerReady
  <2> SUFFICES ASSUME IInv PROVE HandlerReady
    OBVIOUS
  <2> USE Names, Places, Backs
  <2> USE DEF IInv, Single, Mine
  <2>1. CASE pc = "out"
    BY <2>1 DEF Out, Used, HandlerReady, TypeOK
  <2>2. CASE pc = "undo"
    BY <2>2 DEF Undoes, Gives, Used, HandlerReady, TypeOK
  <2>3. CASE pc \in DOMAIN Place
    BY <2>3 DEF Loads, Used, HandlerReady, TypeOK
  <2> QED  BY <2>1, <2>2, <2>3 DEF TypeOK
<1> QED  BY <1>1, HostInvariance, PTL
-----------------------------------------------------------------------------
(* Blocks that the pages dsp_mmap maps for them hold, and that do not run  *)
(* out of the region of fast_mmap they begin in.                           *)
Fits(phys, n) ==
  IF OfPhys(phys) # {}
    THEN \A i \in OfPhys(phys) : phys + n <= fast_mmap[i].phys_addr + fast_mmap[i].size
    ELSE (phys % PAGESIZE) + n <= PAGESIZE * Round(n)

BlocksFit == \A b \in Blocks : Fits(b[1], b[2])

(* What the constants are.                                                 *)
LEMMA Consts ==
  /\ PAGESIZE \in Nat \ {0} /\ NumPages \in Nat
  /\ Len(fast_mmap) \in Nat \ {0} /\ Regions = 1 .. Len(fast_mmap)
  /\ \A i \in Regions :
       /\ fast_mmap[i].phys_addr \in Nat /\ fast_mmap[i].size \in Nat \ {0}
       /\ fast_mmap[i].phys_addr % PAGESIZE = 0
<1>1. fast_mmap \in Seq([phys_addr : Nat, size : Nat \ {0}]) /\ fast_mmap # << >>
  BY RootAssumption
<1>2. Len(fast_mmap) \in Nat \ {0} /\ Regions = 1 .. Len(fast_mmap)
  BY <1>1, EmptySeq DEF Regions
<1>3. \A i \in Regions : fast_mmap[i] \in [phys_addr : Nat, size : Nat \ {0}]
  BY <1>1, <1>2, ElementOfSeq
<1> QED  BY <1>2, <1>3, RootAssumption DEF Regions

(* The smallest number of a set is in it.                                  *)
LEMMA MinFact ==
  ASSUME NEW S \in SUBSET Nat, S # {}
  PROVE  Min(S) \in S /\ \A y \in S : Min(S) <= y
<1>1. PICK x \in S : \A y \in S : <<y, x>> \notin OpToRel(<, Nat)
  BY WFMin, NatLessThanWellFounded, Zenon
<1>2. \A y \in S : ~ (y < x)
  <2>1. \A y \in S : y \in Nat /\ x \in Nat
    OBVIOUS
  <2> QED  BY <1>1, <2>1, Zenon DEF OpToRel
<1>3. \A y \in S : x <= y
  BY <1>2
<1> QED  BY <1>3 DEF Min

(* Whole pages and what is left of them.                                   *)
LEMMA DivMod ==
  ASSUME NEW x \in Nat, NEW P \in Nat \ {0}
  PROVE  /\ x \div P \in Nat /\ x % P \in 0 .. P - 1
         /\ x = P * (x \div P) + (x % P)
OBVIOUS

LEMMA DivShift ==
  ASSUME NEW v \in Nat, NEW k \in Nat, NEW P \in Nat \ {0}
  PROVE  (P * v + k) \div P = v + (k \div P) /\ P * v \in Nat
OBVIOUS

LEMMA DivLess ==
  ASSUME NEW k \in Nat, NEW n \in Nat, NEW P \in Nat \ {0}, k < P * n
  PROVE  k \div P < n
<1>1. k \div P \in Nat /\ k = P * (k \div P) + (k % P) /\ k % P \in 0 .. P - 1
  BY DivMod
<1>2. ASSUME k \div P >= n PROVE FALSE
  <2>1. P * (k \div P) >= P * n
    BY <1>1, <1>2
  <2>2. P * (k \div P) \in Nat /\ P * n \in Nat
    BY <1>1
  <2> QED  BY <1>1, <2>1, <2>2
<1> QED  BY <1>1, <1>2

(* The pages of n bytes hold them.                                         *)
LEMMA RoundFact ==
  ASSUME NEW n \in Nat \ {0}
  PROVE  Round(n) \in Nat \ {0} /\ n <= PAGESIZE * Round(n)
<1>1. PAGESIZE \in Nat \ {0} /\ n + PAGESIZE - 1 \in Nat
  BY RootAssumption
<1> DEFINE q == (n + PAGESIZE - 1) \div PAGESIZE
<1>2. /\ q \in Nat /\ (n + PAGESIZE - 1) % PAGESIZE \in 0 .. PAGESIZE - 1
      /\ n + PAGESIZE - 1 = PAGESIZE * q + ((n + PAGESIZE - 1) % PAGESIZE)
  BY <1>1, DivMod
<1> HIDE DEF q
<1>3. PAGESIZE * q \in Nat
  BY <1>1, <1>2
<1>4. n <= PAGESIZE * q
  BY <1>1, <1>2, <1>3
<1>5. q # 0
  <2>1. q = 0 => PAGESIZE * q = 0
    BY <1>1
  <2> QED  BY <1>4, <2>1
<1> QED  BY <1>2, <1>4, <1>5 DEF q, Round

(* What mmap does: the pages are free, and each byte of the block is       *)
(* behind its own.                                                         *)
LEMMA MmapFact ==
  ASSUME NEW map \in [Pages -> Nat \cup {NULL}], NEW phys \in Nat, NEW n \in Nat \ {0},
         (phys % PAGESIZE) + n <= PAGESIZE * Round(n), Holes(map, n) # {},
         NEW virt, virt = PAGESIZE * Min(Holes(map, n)) + (phys % PAGESIZE)
  PROVE  /\ virt \in Nat \ {0} /\ PagesAt(virt, n) \subseteq Pages
         /\ \A p \in PagesAt(virt, n) : map[p] = NULL
         /\ osal_mmap(map, phys, n) \in [Pages -> Nat \cup {NULL}]
         /\ \A p \in Pages \ PagesAt(virt, n) : osal_mmap(map, phys, n)[p] = map[p]
         /\ Good(osal_mmap(map, phys, n), [phys |-> phys, size |-> n, virt |-> virt])
<1>1. PAGESIZE \in Nat \ {0} /\ NumPages \in Nat
  BY RootAssumption
<1>2. Min(Holes(map, n)) \in Holes(map, n)
  <2>1. Holes(map, n) \in SUBSET Nat
    BY DEF Holes, Pages
  <2> QED  BY <2>1, MinFact
<1>3. PICK v : v = Min(Holes(map, n))
  OBVIOUS
<1>4. PICK r : r = Round(n)
  OBVIOUS
<1>5. PICK o : o = phys % PAGESIZE
  OBVIOUS
<1>6. PICK f : f = phys \div PAGESIZE
  OBVIOUS
<1>7. /\ v \in Pages /\ v \in Nat \ {0} /\ v + r - 1 <= NumPages
      /\ \A i \in v .. v + r - 1 : map[i] = NULL
  BY <1>2, <1>3, <1>4 DEF Holes, Pages
<1>8. r \in Nat \ {0}
  BY <1>4, RoundFact
<1>9. f \in Nat /\ o \in 0 .. PAGESIZE - 1 /\ phys = PAGESIZE * f + o
  BY <1>1, <1>5, <1>6, DivMod
<1>10. PAGESIZE \in Nat \ {0} /\ v \in Nat /\ f \in Nat /\ o \in Nat
  BY <1>1, <1>7, <1>9
<1>11. virt = PAGESIZE * v + o /\ PAGESIZE * v \in Nat /\ virt \in Nat
  BY <1>1, <1>3, <1>5, <1>7, <1>9
<1>12. virt \div PAGESIZE = v
  <2>1. o \div PAGESIZE = 0
    BY <1>1, <1>9
  <2>2. o \in Nat /\ (PAGESIZE * v + o) \div PAGESIZE = v + (o \div PAGESIZE)
    <3>1. v \in Nat /\ o \in Nat /\ PAGESIZE \in Nat \ {0}
      BY <1>10
    <3> QED  BY <3>1, DivShift, ZenonT(30)
  <2> QED  BY <1>7, <1>11, <2>1, <2>2
<1>13. PagesAt(virt, n) = v .. v + r - 1
  BY <1>4, <1>12 DEF PagesAt
<1>14. virt # 0
  BY <1>1, <1>7, <1>9, <1>11
<1>15. \A p \in Pages : osal_mmap(map, phys, n)[p]
                          = IF p \in v .. v + r - 1 THEN f + (p - v) ELSE map[p]
  BY <1>3, <1>4, <1>6 DEF osal_mmap
<1>16. osal_mmap(map, phys, n) \in [Pages -> Nat \cup {NULL}]
  <2>1. \A p \in v .. v + r - 1 : f + (p - v) \in Nat
    BY <1>7, <1>8, <1>9
  <2>2. \A p \in Pages : (IF p \in v .. v + r - 1 THEN f + (p - v) ELSE map[p]) \in Nat \cup {NULL}
    BY <2>1
  <2> QED  BY <1>3, <1>4, <1>6, <2>2 DEF osal_mmap
<1>17. v .. v + r - 1 \subseteq Pages
  BY <1>1, <1>7, <1>8 DEF Pages
<1>18. ASSUME NEW k \in 0 .. n - 1
       PROVE  /\ (virt + k) \div PAGESIZE \in v .. v + r - 1
              /\ osal_mmap(map, phys, n)[(virt + k) \div PAGESIZE] = (phys + k) \div PAGESIZE
  <2>1. k \in Nat /\ o + k \in Nat /\ o + k < PAGESIZE * r
    <3>1. PAGESIZE * r \in Nat /\ o + n <= PAGESIZE * r
      BY <1>1, <1>4, <1>5, <1>8
    <3> QED  BY <1>9, <3>1
  <2>2. PICK m : m = o + k
    OBVIOUS
  <2>3. m \in Nat /\ m < PAGESIZE * r
    BY <2>1, <2>2
  <2>4. PICK d : d = m \div PAGESIZE
    OBVIOUS
  <2>5. d \in Nat /\ d < r
    <3>1. PAGESIZE \in Nat \ {0} /\ r \in Nat
      BY <1>1, <1>8
    <3>2. d < r
      BY <2>3, <2>4, <3>1, DivLess, Zenon
    <3>3. d \in Nat
      BY <2>3, <2>4, <3>1, DivMod, Zenon
    <3> QED  BY <3>2, <3>3
  <2>6. (virt + k) \div PAGESIZE = v + d
    <3>1. virt + k = PAGESIZE * v + m
      BY <1>9, <1>11, <2>1, <2>2
    <3>2. (PAGESIZE * v + m) \div PAGESIZE = v + (m \div PAGESIZE)
      <4>1. v \in Nat /\ m \in Nat /\ PAGESIZE \in Nat \ {0}
        BY <1>10, <2>3
      <4> QED  BY <4>1, DivShift, ZenonT(30)
    <3> QED  BY <2>4, <3>1, <3>2, Zenon
  <2>7. (phys + k) \div PAGESIZE = f + d
    <3>1. phys + k = PAGESIZE * f + m
      <4>1. PAGESIZE * f \in Nat
        BY <1>1, <1>9
      <4> QED  BY <1>9, <2>1, <2>2, <4>1
    <3>2. (PAGESIZE * f + m) \div PAGESIZE = f + (m \div PAGESIZE)
      <4>1. f \in Nat /\ m \in Nat /\ PAGESIZE \in Nat \ {0}
        BY <1>10, <2>3
      <4> QED  BY <4>1, DivShift, ZenonT(30)
    <3> QED  BY <2>4, <3>1, <3>2, Zenon
  <2>8. v + d \in v .. v + r - 1 /\ (v + d) - v = d
    BY <1>7, <1>8, <2>5
  <2> QED  BY <1>15, <1>17, <2>6, <2>7, <2>8
<1>19. \A p \in v .. v + r - 1 : osal_mmap(map, phys, n)[p] # NULL
  <2>1. \A p \in v .. v + r - 1 : f + (p - v) \in Nat
    BY <1>7, <1>8, <1>9
  <2> QED  BY <1>15, <1>17, <2>1, RootAssumption
<1>20. Good(osal_mmap(map, phys, n), [phys |-> phys, size |-> n, virt |-> virt])
  BY <1>13, <1>17, <1>18, <1>19 DEF Good
<1> QED  BY <1>7, <1>11, <1>13, <1>14, <1>15, <1>16, <1>17, <1>20

(* A mapping whose pages stay as they are remains good.                    *)
LEMMA GoodKept ==
  ASSUME NEW map, NEW new, NEW a, Good(map, a),
         \A p \in PagesAt(a.virt, a.size) : new[p] = map[p]
  PROVE  Good(new, a)
BY DEF Good

(* A block in a region of fast_mmap needs no pages of its own.             *)
LEMMA InFastOwns ==
  ASSUME RootTypeOK, NEW a \in [phys : Nat, size : Nat \ {0}, virt : Nat], InFast(a)
  PROVE  OfVirt(a.virt) # {} /\ OwnPages(a) = {}
<1>1. PICK i \in Mapped :
        /\ fast_mmap[i].phys_addr <= a.phys
        /\ a.phys + a.size <= fast_mmap[i].phys_addr + fast_mmap[i].size
        /\ a.virt = a.phys - fast_mmap[i].phys_addr + virt_addr[i]
  BY DEF InFast
<1>2. /\ i \in Regions /\ virt_addr[i] \in Nat
      /\ fast_mmap[i].phys_addr \in Nat /\ fast_mmap[i].size \in Nat
  BY Consts DEF RootTypeOK, Mapped
<1>3. i \in OfVirt(a.virt)
  BY <1>1, <1>2 DEF OfVirt
<1> QED  BY <1>3 DEF OwnPages

(* What dsp_mmap returns, and what becomes of the address space.           *)
LEMMA MapFact ==
  ASSUME RInv, at = "up", NEW phys \in Nat, NEW n \in Nat \ {0}, Fits(phys, n),
         OfPhys(phys) # {} \/ Holes(vm, n) # {},
         NEW a, a = [phys |-> phys, size |-> n, virt |-> dsp_mmap(phys, n).virt],
         NEW map, map = dsp_mmap(phys, n).map
  PROVE  /\ a \in [phys : Nat, size : Nat \ {0}, virt : Nat]
         /\ InFast(a) \/ (OfVirt(a.virt) = {} /\ Good(map, a))
         /\ map \in [Pages -> Nat \cup {NULL}]
         /\ \A p \in OwnPages(a) : p \in Pages /\ vm[p] = NULL
         /\ \A p \in Pages \ OwnPages(a) : map[p] = vm[p]
<1>1. \A i \in Regions : /\ i \in Nat /\ virt_addr[i] \in Nat /\ i \in Mapped
                         /\ fast_mmap[i].phys_addr \in Nat /\ fast_mmap[i].size \in Nat \ {0}
  BY Consts DEF RInv, RootTypeOK, InOrder, Mapped
<1>2. vm \in [Pages -> Nat \cup {NULL}]
  BY DEF RInv, RootTypeOK
<1>3. CASE OfPhys(phys) # {}
  <2>1. OfPhys(phys) \in SUBSET Nat
    BY <1>1 DEF OfPhys
  <2>2. Min(OfPhys(phys)) \in OfPhys(phys)
    BY <1>3, <2>1, MinFact
  <2>3. PICK i : i = Min(OfPhys(phys))
    OBVIOUS
  <2>4. /\ i \in Regions /\ phys >= fast_mmap[i].phys_addr
        /\ phys + n <= fast_mmap[i].phys_addr + fast_mmap[i].size
    BY <1>3, <2>2, <2>3 DEF OfPhys, Fits
  <2>5. map = vm /\ a.virt = phys - fast_mmap[i].phys_addr + virt_addr[i]
        /\ a.phys = phys /\ a.size = n
    BY <1>3, <2>3 DEF dsp_mmap
  <2>6. a.virt \in Nat
    BY <1>1, <2>4, <2>5
  <2>7. a \in [phys : Nat, size : Nat \ {0}, virt : Nat]
    BY <2>5, <2>6
  <2>8. InFast(a)
    BY <1>1, <2>4, <2>5 DEF InFast
  <2>9. OwnPages(a) = {}
    BY <2>7, <2>8, InFastOwns DEF RInv
  <2> QED  BY <1>2, <2>5, <2>7, <2>8, <2>9
<1>4. CASE OfPhys(phys) = {}
  <2>1. PICK v : v = PAGESIZE * Min(Holes(vm, n)) + (phys % PAGESIZE)
    OBVIOUS
  <2>2. Holes(vm, n) # {} /\ (phys % PAGESIZE) + n <= PAGESIZE * Round(n)
    BY <1>4 DEF Fits
  <2>3. /\ v \in Nat \ {0} /\ PagesAt(v, n) \subseteq Pages
        /\ \A p \in PagesAt(v, n) : vm[p] = NULL
        /\ osal_mmap(vm, phys, n) \in [Pages -> Nat \cup {NULL}]
        /\ \A p \in Pages \ PagesAt(v, n) : osal_mmap(vm, phys, n)[p] = vm[p]
        /\ Good(osal_mmap(vm, phys, n), [phys |-> phys, size |-> n, virt |-> v])
    BY <1>2, <2>1, <2>2, MmapFact
  <2>4. Min(Holes(vm, n)) * PAGESIZE = PAGESIZE * Min(Holes(vm, n))
    <3>1. Holes(vm, n) \in SUBSET Nat
      BY DEF Holes, Pages
    <3>2. Min(Holes(vm, n)) \in Nat
      BY <2>2, <3>1, MinFact
    <3>3. \A h \in Nat : h * PAGESIZE = PAGESIZE * h
      BY Consts
    <3> QED  BY <3>2, <3>3
  <2>5. map = osal_mmap(vm, phys, n) /\ a = [phys |-> phys, size |-> n, virt |-> v]
    BY <1>4, <2>1, <2>4 DEF dsp_mmap
  <2>6. OfVirt(v) = {}
    <3> SUFFICES ASSUME NEW i \in OfVirt(v) PROVE FALSE
      OBVIOUS
    <3>1. i \in Mapped /\ v >= virt_addr[i] /\ v < virt_addr[i] + fast_mmap[i].size
      BY <1>1 DEF OfVirt
    <3>2. PICK k : k = v - virt_addr[i]
      OBVIOUS
    <3>3. k \in 0 .. fast_mmap[i].size - 1 /\ virt_addr[i] + k = v
      BY <1>1, <2>3, <3>1, <3>2 DEF Mapped
    <3>4. v \div PAGESIZE \in PagesAt(virt_addr[i], fast_mmap[i].size)
          /\ vm[v \div PAGESIZE] # NULL
      BY <3>1, <3>3 DEF RInv, FastGood, Good, Fast
    <3>5. v \div PAGESIZE \in PagesAt(v, n)
      <4>1. v \div PAGESIZE \in Nat /\ Round(n) \in Nat \ {0}
        BY <2>3, Consts, DivMod, RoundFact
      <4> QED  BY <4>1 DEF PagesAt
    <3> QED  BY <2>3, <3>4, <3>5
  <2>7. OwnPages(a) = PagesAt(v, n)
    <3>1. a # NULL
      BY <2>3, <2>5, RootAssumption
    <3> QED  BY <2>5, <2>6, <3>1 DEF OwnPages
  <2> QED  BY <2>3, <2>5, <2>6, <2>7
<1> QED  BY <1>3, <1>4
-----------------------------------------------------------------------------
(* dsp_mmap: a gets what o, the other access there may be, does not have.  *)
LEMMA MapStep ==
  ASSUME RInv, at = "up", NEW phys \in Nat, NEW n \in Nat \ {0}, Fits(phys, n),
         OfPhys(phys) # {} \/ Holes(vm, n) # {},
         NEW a, a = [phys |-> phys, size |-> n, virt |-> dsp_mmap(phys, n).virt],
         vm' = dsp_mmap(phys, n).map, UNCHANGED <<at, fd_mem, virt_addr>>,
         \/ op = NULL /\ op' = a /\ held' = held
         \/ op = NULL /\ held = NULL /\ held' = a /\ op' = op
  PROVE  RInv'
<1>1. PICK o : \/ op = NULL /\ o = held /\ op' = a /\ held' = o
               \/ op = NULL /\ held = NULL /\ o = NULL /\ held' = a /\ op' = o
  OBVIOUS
<1>2. PICK map : map = dsp_mmap(phys, n).map
  OBVIOUS
<1>3. /\ a \in [phys : Nat, size : Nat \ {0}, virt : Nat]
      /\ InFast(a) \/ (OfVirt(a.virt) = {} /\ Good(map, a))
      /\ map \in [Pages -> Nat \cup {NULL}]
      /\ \A p \in OwnPages(a) : p \in Pages /\ vm[p] = NULL
      /\ \A p \in Pages \ OwnPages(a) : map[p] = vm[p]
  BY <1>2, MapFact
<1>4. vm' = map /\ {op, held} = {NULL, o} /\ {op', held'} = {a, o}
  BY <1>1, <1>2
<1>5. Regions' = Regions /\ Mapped' = Mapped /\ \A i : Fast(i)' = Fast(i) /\ FastPages(i)' = FastPages(i)
  BY DEF Mapped, Fast, FastPages, Regions
<1>6. \A b : OwnPages(b)' = OwnPages(b) /\ InFast(b)' = InFast(b) /\ OfVirt(b.virt)' = OfVirt(b.virt)
  BY DEF OwnPages, OfVirt, InFast, Mapped
<1>7. OwnPages(NULL) = {}
  BY DEF OwnPages
<1>8. RootTypeOK'
  BY <1>3, <1>4 DEF RInv, RootTypeOK
<1>9. InOrder' /\ Files'
  BY <1>5 DEF RInv, InOrder, Files
<1>10. \A i \in Mapped : Good(vm, Fast(i)) /\ Good(map, Fast(i)) /\ FastPages(i) \cap OwnPages(a) = {}
  <2> SUFFICES ASSUME NEW i \in Mapped
               PROVE  Good(vm, Fast(i)) /\ Good(map, Fast(i)) /\ FastPages(i) \cap OwnPages(a) = {}
    OBVIOUS
  <2>1. Good(vm, Fast(i))
    BY DEF RInv, FastGood
  <2>2. \A p \in FastPages(i) : p \in Pages /\ vm[p] # NULL
    BY <2>1 DEF Good, Fast, FastPages
  <2>3. \A p \in FastPages(i) : map[p] = vm[p] /\ p \notin OwnPages(a)
    BY <1>3, <2>2
  <2>4. Good(map, Fast(i))
    <3>1. \A p \in PagesAt(Fast(i).virt, Fast(i).size) : map[p] = vm[p]
      BY <2>3 DEF Fast, FastPages
    <3> QED  BY <2>1, <3>1, GoodKept
  <2> QED  BY <2>1, <2>3, <2>4
<1>11. o # NULL => /\ OwnPages(o) \cap OwnPages(a) = {}
                   /\ InFast(o) \/ (OfVirt(o.virt) = {} /\ Good(map, o))
  <2> SUFFICES ASSUME o # NULL
               PROVE  /\ OwnPages(o) \cap OwnPages(a) = {}
                      /\ InFast(o) \/ (OfVirt(o.virt) = {} /\ Good(map, o))
    OBVIOUS
  <2>1. o \in [phys : Nat, size : Nat \ {0}, virt : Nat]
        /\ (InFast(o) \/ (OfVirt(o.virt) = {} /\ Good(vm, o)))
    BY <1>1 DEF RInv, RootTypeOK, AccessGood
  <2>2. CASE InFast(o)
    <3>1. OwnPages(o) = {}
      BY <2>1, <2>2, InFastOwns DEF RInv
    <3> QED  BY <2>2, <3>1
  <2>3. CASE OfVirt(o.virt) = {} /\ Good(vm, o)
    <3>1. OwnPages(o) = PagesAt(o.virt, o.size)
      BY <2>3 DEF OwnPages
    <3>2. \A p \in PagesAt(o.virt, o.size) : p \in Pages /\ vm[p] # NULL
      BY <2>3 DEF Good
    <3>3. \A p \in PagesAt(o.virt, o.size) : map[p] = vm[p] /\ p \notin OwnPages(a)
      BY <1>3, <3>1, <3>2
    <3>4. Good(map, o)
      BY <2>3, <3>3, GoodKept
    <3> QED  BY <2>3, <3>1, <3>3, <3>4
  <2> QED  BY <2>1, <2>2, <2>3
<1>12. FastGood'
  BY <1>4, <1>5, <1>10 DEF FastGood, Good
<1>13. AccessGood'
  <2>1. \A b \in {a, o} : b # NULL => InFast(b) \/ (OfVirt(b.virt) = {} /\ Good(map, b))
    BY <1>3, <1>11
  <2> QED  BY <1>1, <1>4, <1>6, <2>1 DEF AccessGood
<1>14. Apart'
  <2>1. \A i, j \in Mapped : i # j => FastPages(i) \cap FastPages(j) = {}
    BY DEF RInv, Apart
  <2>2. \A i \in Mapped : \A b \in {a, o} : OwnPages(b) \cap FastPages(i) = {}
    BY <1>1, <1>10 DEF RInv, Apart
  <2>3. OwnPages(a) \cap OwnPages(o) = {}
    BY <1>7, <1>11
  <2> QED  BY <1>1, <1>5, <1>6, <2>1, <2>2, <2>3 DEF Apart
<1>15. Exact'
  <2>1. ASSUME NEW p \in Pages, map[p] # NULL
        PROVE  p \in OwnPages(a) \cup OwnPages(o) \/ \E i \in Mapped : p \in FastPages(i)
    BY <1>1, <1>3, <1>7, <2>1 DEF RInv, Exact
  <2> QED  BY <1>1, <1>4, <1>5, <1>6, <2>1 DEF Exact
<1> QED  BY <1>8, <1>9, <1>12, <1>13, <1>14, <1>15 DEF RInv

(* dsp_munmap gives back what a has, and nothing else.                     *)
LEMMA UnmapStep ==
  ASSUME RInv, NEW a, a # NULL, vm' = dsp_munmap(vm, a.virt, a.size),
         UNCHANGED <<at, fd_mem, virt_addr>>,
         \/ op = a /\ op' = NULL /\ held' = held
         \/ op = NULL /\ held = a /\ held' = NULL /\ op' = op
  PROVE  RInv'
<1>1. PICK o : \/ op = a /\ o = held /\ op' = NULL /\ held' = o
               \/ op = NULL /\ held = a /\ o = NULL /\ held' = NULL /\ op' = o
  OBVIOUS
<1>2. vm' \in [Pages -> Nat \cup {NULL}]
      /\ \A p \in Pages : vm'[p] = IF p \in OwnPages(a) THEN NULL ELSE vm[p]
  <2>1. vm \in [Pages -> Nat \cup {NULL}]
    BY DEF RInv, RootTypeOK
  <2>2. CASE OfVirt(a.virt) # {}
    BY <2>1, <2>2 DEF dsp_munmap, OwnPages
  <2>3. CASE OfVirt(a.virt) = {}
    <3>1. vm' = [p \in Pages |-> IF p \in OwnPages(a) THEN NULL ELSE vm[p]]
      BY <2>3 DEF dsp_munmap, osal_munmap, OwnPages
    <3> QED  BY <2>1, <3>1
  <2> QED  BY <2>2, <2>3
<1>3. at = "up" /\ {op, held} = {a, o} /\ {op', held'} = {NULL, o}
  BY <1>1 DEF RInv, RootTypeOK
<1>4. Regions' = Regions /\ Mapped' = Mapped /\ \A i : Fast(i)' = Fast(i) /\ FastPages(i)' = FastPages(i)
  BY DEF Mapped, Fast, FastPages, Regions
<1>5. \A b : OwnPages(b)' = OwnPages(b) /\ InFast(b)' = InFast(b) /\ OfVirt(b.virt)' = OfVirt(b.virt)
  BY DEF OwnPages, OfVirt, InFast, Mapped
<1>6. OwnPages(NULL) = {} /\ OwnPages(a) \cap OwnPages(o) = {}
  BY <1>1, <1>3 DEF OwnPages, RInv, Apart
<1>7. RootTypeOK'
  BY <1>1, <1>2, <1>3 DEF RInv, RootTypeOK
<1>8. InOrder' /\ Files'
  BY <1>4 DEF RInv, InOrder, Files
<1>9. \A i \in Mapped : Good(vm', Fast(i))
  <2> SUFFICES ASSUME NEW i \in Mapped PROVE Good(vm', Fast(i))
    OBVIOUS
  <2>1. Good(vm, Fast(i)) /\ OwnPages(a) \cap FastPages(i) = {}
    BY <1>3 DEF RInv, FastGood, Apart
  <2>2. \A p \in PagesAt(Fast(i).virt, Fast(i).size) : vm'[p] = vm[p]
    BY <1>2, <2>1 DEF Good, Fast, FastPages
  <2> QED  BY <2>1, <2>2, GoodKept
<1>10. o # NULL => InFast(o) \/ (OfVirt(o.virt) = {} /\ Good(vm', o))
  <2> SUFFICES ASSUME o # NULL, ~ InFast(o)
               PROVE  OfVirt(o.virt) = {} /\ Good(vm', o)
    OBVIOUS
  <2>1. OfVirt(o.virt) = {} /\ Good(vm, o)
    BY <1>3 DEF RInv, AccessGood
  <2>2. \A p \in PagesAt(o.virt, o.size) : vm'[p] = vm[p]
    BY <1>2, <1>6, <2>1 DEF Good, OwnPages
  <2> QED  BY <2>1, <2>2, GoodKept
<1>11. FastGood'
  BY <1>4, <1>9 DEF FastGood, Good
<1>12. AccessGood'
  BY <1>3, <1>5, <1>10 DEF AccessGood, Good
<1>13. Apart'
  BY <1>1, <1>3, <1>4, <1>5, <1>6 DEF RInv, Apart
<1>14. Exact'
  <2>1. ASSUME NEW p \in Pages, vm'[p] # NULL
        PROVE  p \in OwnPages(o) \/ \E i \in Mapped : p \in FastPages(i)
    BY <1>1, <1>2, <1>6, <2>1 DEF RInv, Exact
  <2> QED  BY <1>1, <1>3, <1>4, <1>5, <2>1 DEF Exact
<1> QED  BY <1>7, <1>8, <1>11, <1>12, <1>13, <1>14 DEF RInv

(* dsp_init_root maps the next of its regions.                             *)
LEMMA MapFastStep ==
  ASSUME RInv, MapFast
  PROVE  RInv'
<1>1. PICK k \in Regions : \A i \in Regions : i \in Mapped <=> i < k
  BY DEF MapFast, RInv, InOrder
<1>2. /\ at = "mapping" /\ op = NULL /\ held = NULL
      /\ UNCHANGED <<fd_mem, op, held>>
      /\ virt_addr \in [Regions -> Nat] /\ vm \in [Pages -> Nat \cup {NULL}]
  BY DEF MapFast, RInv, RootTypeOK
<1>3. NextFast = k
  <2>1. { i \in Regions : virt_addr[i] = 0 } = k .. Len(fast_mmap)
    BY <1>1, Consts DEF Mapped
  <2>2. { i \in Regions : virt_addr[i] = 0 } \in SUBSET Nat
        /\ k \in { i \in Regions : virt_addr[i] = 0 }
    BY <1>1, Consts, <2>1
  <2>3. PICK S \in SUBSET Nat : S = { i \in Regions : virt_addr[i] = 0 }
    BY <2>2
  <2>4. Min(S) \in S /\ Min(S) <= k
    BY <2>2, <2>3, MinFact
  <2>5. Min(S) = k
    BY <2>1, <2>3, <2>4, Consts
  <2> QED  BY <2>3, <2>5 DEF NextFast
<1>4. \A b : OwnPages(NULL) = {} /\ OwnPages(NULL)' = {}
  BY DEF OwnPages
<1>5. PICK r : r = fast_mmap[k]
  OBVIOUS
<1>6. CASE at' = "failed" /\ UNCHANGED <<virt_addr, vm>>
  <2>1. Mapped' = Mapped /\ \A i : Fast(i)' = Fast(i) /\ FastPages(i)' = FastPages(i)
    BY <1>6 DEF Mapped, Fast, FastPages, Regions
  <2>2. RootTypeOK' /\ InOrder' /\ Files' /\ AccessGood'
    BY <1>2, <1>6 DEF RInv, RootTypeOK, InOrder, Files, AccessGood
  <2>3. FastGood'
    BY <1>2, <1>6, <2>1 DEF RInv, FastGood, Good
  <2>4. Apart' /\ Exact'
    BY <1>2, <1>4, <1>6, <2>1 DEF RInv, Apart, Exact
  <2> QED  BY <2>2, <2>3, <2>4 DEF RInv
<1>7. CASE /\ Holes(vm, r.size) # {}
           /\ virt_addr' = [virt_addr EXCEPT ![k] = PAGESIZE * Min(Holes(vm, r.size))]
           /\ vm' = osal_mmap(vm, r.phys_addr, r.size)
           /\ at' = IF k = Len(fast_mmap) THEN "up" ELSE "mapping"
  <2>1. r.phys_addr \in Nat /\ r.size \in Nat \ {0} /\ r.phys_addr % PAGESIZE = 0
    BY <1>5, Consts
  <2>2. PICK v : v = PAGESIZE * Min(Holes(vm, r.size)) + (r.phys_addr % PAGESIZE)
    OBVIOUS
  <2>3. (r.phys_addr % PAGESIZE) + r.size <= PAGESIZE * Round(r.size)
    BY <2>1, RoundFact
  <2>4. /\ v \in Nat \ {0} /\ PagesAt(v, r.size) \subseteq Pages
        /\ \A p \in PagesAt(v, r.size) : vm[p] = NULL
        /\ osal_mmap(vm, r.phys_addr, r.size) \in [Pages -> Nat \cup {NULL}]
        /\ \A p \in Pages \ PagesAt(v, r.size) : osal_mmap(vm, r.phys_addr, r.size)[p] = vm[p]
        /\ Good(osal_mmap(vm, r.phys_addr, r.size), [phys |-> r.phys_addr, size |-> r.size, virt |-> v])
    BY <1>2, <1>7, <2>1, <2>2, <2>3, MmapFact
  <2>5. virt_addr'[k] = v
    <3>1. Holes(vm, r.size) \in SUBSET Nat
      BY DEF Holes, Pages
    <3>2. Min(Holes(vm, r.size)) \in Nat
      BY <1>7, <3>1, MinFact
    <3>3. PAGESIZE * Min(Holes(vm, r.size)) \in Nat
      BY <3>2, Consts
    <3> QED  BY <1>2, <1>7, <2>1, <2>2, <3>3
  <2>6. virt_addr' \in [Regions -> Nat] /\ \A i \in Regions \ {k} : virt_addr'[i] = virt_addr[i]
    BY <1>2, <1>7, <2>4, <2>5
  <2>7. /\ Mapped' = Mapped \cup {k} /\ k \notin Mapped /\ Regions' = Regions
        /\ \A i \in Mapped : Fast(i)' = Fast(i) /\ FastPages(i)' = FastPages(i)
        /\ Fast(k)' = [phys |-> r.phys_addr, size |-> r.size, virt |-> v]
        /\ FastPages(k)' = PagesAt(v, r.size)
    <3>1. k \notin Mapped
      BY <1>1, Consts
    <3> QED  BY <1>5, <2>4, <2>5, <2>6, <3>1 DEF Mapped, Fast, FastPages, Regions
  <2>8. \A i \in Mapped : Good(vm, Fast(i)) /\ Good(vm', Fast(i)) /\ FastPages(i) \cap PagesAt(v, r.size) = {}
    <3> SUFFICES ASSUME NEW i \in Mapped
                 PROVE  Good(vm, Fast(i)) /\ Good(vm', Fast(i)) /\ FastPages(i) \cap PagesAt(v, r.size) = {}
      OBVIOUS
    <3>1. Good(vm, Fast(i))
      BY <1>2 DEF RInv, FastGood
    <3>2. \A p \in FastPages(i) : p \in Pages /\ vm[p] # NULL
      BY <3>1 DEF Good, Fast, FastPages
    <3>3. \A p \in PagesAt(Fast(i).virt, Fast(i).size) : vm'[p] = vm[p]
      BY <1>7, <2>4, <3>2 DEF Fast, FastPages
    <3>4. Good(vm', Fast(i))
      BY <3>1, <3>3, GoodKept
    <3> QED  BY <2>4, <3>1, <3>2, <3>4
  <2>9. RootTypeOK' /\ Files' /\ AccessGood'
    BY <1>2, <1>7, <2>4, <2>6 DEF RInv, RootTypeOK, Files, AccessGood
  <2>10. InOrder'
    <3>1. CASE k = Len(fast_mmap)
      <4>1. \A i \in Regions : i \in Mapped \cup {k}
        BY <1>1, <3>1, Consts
      <4>2. Mapped \subseteq Regions
        BY DEF Mapped
      <4> QED  BY <1>7, <2>7, <3>1, <4>1, <4>2 DEF InOrder
    <3>2. CASE k # Len(fast_mmap)
      <4>1. k + 1 \in Regions /\ \A i \in Regions : i \in Mapped \cup {k} <=> i < k + 1
        BY <1>1, <3>2, Consts
      <4> QED  BY <1>7, <2>7, <3>2, <4>1 DEF InOrder
    <3> QED  BY <3>1, <3>2
  <2>11. FastGood'
    BY <1>7, <2>4, <2>7, <2>8 DEF FastGood, Good
  <2>12. Apart'
    BY <1>2, <1>4, <2>7, <2>8 DEF RInv, Apart
  <2>13. Exact'
    <3>1. ASSUME NEW p \in Pages, vm'[p] # NULL PROVE \E i \in Mapped' : p \in FastPages(i)'
      BY <1>2, <1>4, <1>7, <2>4, <2>7, <3>1 DEF RInv, Exact
    <3>2. at' # "down"
      BY <1>7
    <3> QED  BY <3>1, <3>2 DEF Exact
  <2> QED  BY <2>9, <2>10, <2>11, <2>12, <2>13 DEF RInv
<1> QED  BY <1>3, <1>5, <1>6, <1>7 DEF MapFast

(* dsp_init_root begins, dsp_exit_root unmaps, and a program ends whose    *)
(* dsp_init_root has failed.                                               *)
LEMMA OpenStep ==
  ASSUME RInv, dsp_init_root \/ dsp_exit_root \/ Exit
  PROVE  RInv'
<1>1. op = NULL /\ held = NULL /\ UNCHANGED <<op, held>>
  BY DEF RInv, RootTypeOK, dsp_init_root, dsp_exit_root, Exit
<1>2. OwnPages(NULL) = {} /\ OwnPages(NULL)' = {}
  BY DEF OwnPages
<1>3. CASE dsp_init_root
  <2>1. at = "down" /\ at' = "mapping" /\ vm' = vm /\ fd_mem' = TRUE
        /\ virt_addr' = [i \in Regions |-> 0]
    BY <1>3 DEF dsp_init_root
  <2>2. Mapped' = {}
    BY <2>1 DEF Mapped, Regions
  <2>3. RootTypeOK' /\ Files' /\ AccessGood'
    BY <1>1, <2>1 DEF RInv, RootTypeOK, Files, AccessGood, Regions
  <2>4. InOrder'
    <3>1. 1 \in Regions /\ \A i \in Regions : ~ (i < 1)
      BY Consts
    <3> QED  BY <2>1, <2>2, <3>1 DEF InOrder, Regions
  <2>5. FastGood' /\ Apart'
    BY <1>1, <1>2, <2>1, <2>2 DEF FastGood, Apart
  <2>6. Exact'
    BY <1>1, <1>2, <2>1 DEF RInv, Exact, Pages
  <2> QED  BY <2>3, <2>4, <2>5, <2>6 DEF RInv
<1>4. CASE dsp_exit_root
  <2>1. at = "up" /\ at' = "down" /\ fd_mem' = FALSE /\ virt_addr' = virt_addr
        /\ vm' = [p \in Pages |->
                    IF \E i \in Regions : p \in PagesAt(virt_addr[i], fast_mmap[i].size)
                      THEN NULL ELSE vm[p]]
    BY <1>4 DEF dsp_exit_root
  <2>2. \A p \in Pages : vm'[p] = NULL
    BY <1>1, <1>2, <2>1 DEF RInv, Exact, FastPages, Mapped
  <2>3. RootTypeOK' /\ Files' /\ AccessGood'
    BY <1>1, <2>1 DEF RInv, RootTypeOK, Files, AccessGood
  <2>4. InOrder' /\ FastGood' /\ Apart' /\ Exact'
    BY <2>1, <2>2 DEF InOrder, FastGood, Apart, Exact
  <2> QED  BY <2>3, <2>4 DEF RInv
<1>5. CASE Exit
  <2>1. at = "failed" /\ at' = "ended" /\ UNCHANGED <<fd_mem, virt_addr, vm>>
    BY <1>5 DEF Exit
  <2>2. Mapped' = Mapped /\ \A i : Fast(i)' = Fast(i) /\ FastPages(i)' = FastPages(i)
    BY <2>1 DEF Mapped, Fast, FastPages, Regions
  <2>3. RootTypeOK' /\ InOrder' /\ Files' /\ AccessGood'
    BY <1>1, <2>1 DEF RInv, RootTypeOK, InOrder, Files, AccessGood
  <2>4. FastGood'
    BY <2>1, <2>2 DEF RInv, FastGood, Good
  <2>5. Apart' /\ Exact'
    BY <1>1, <1>2, <2>1, <2>2 DEF RInv, Apart, Exact
  <2> QED  BY <2>3, <2>4, <2>5 DEF RInv
<1> QED  BY <1>3, <1>4, <1>5

(* Registers are no larger than a page, and lie in one region.             *)
LEMMA RegisterFits ==
  ASSUME NEW phys \in Nat
  PROVE  Fits(phys, 1)
<1>1. \A i \in OfPhys(phys) : phys + 1 <= fast_mmap[i].phys_addr + fast_mmap[i].size
  BY Consts DEF OfPhys
<1>2. (phys % PAGESIZE) + 1 <= PAGESIZE * Round(1)
  <2>1. Round(1) = 1
    BY Consts DEF Round
  <2>2. phys % PAGESIZE \in 0 .. PAGESIZE - 1
    BY Consts, DivMod
  <2> QED  BY <2>1, <2>2, Consts
<1> QED  BY <1>1, <1>2 DEF Fits

(* Whatever is accessed.                                                   *)
LEMMA AccessStep ==
  ASSUME BlocksFit, RInv, Access
  PROVE  RInv'
<1>1. ASSUME NEW r \in Registers, dsp_reg(r) PROVE RInv'
  <2>1. r \in Nat /\ Fits(r, 1)
    BY RegisterFits, RootAssumption
  <2>2. PICK a : a = [phys |-> r, size |-> 1, virt |-> dsp_mmap(r, 1).virt]
    OBVIOUS
  <2> QED  BY <1>1, <2>1, <2>2, MapStep DEF dsp_reg, Map
<1>2. ASSUME NEW b \in Blocks, dsp_copy_to(b[1], b[2]) \/ Hold(b[1], b[2]) PROVE RInv'
  <2>1. PICK phys \in Nat, n \in Nat \ {0} : phys = b[1] /\ n = b[2] /\ Fits(phys, n)
    BY RootAssumption DEF BlocksFit
  <2>2. PICK a : a = [phys |-> phys, size |-> n, virt |-> dsp_mmap(phys, n).virt]
    OBVIOUS
  <2> QED  BY <1>2, <2>1, <2>2, MapStep DEF dsp_copy_to, Map, Hold
<1>3. CASE CopyEnds
  <2>1. PICK a : a = op
    OBVIOUS
  <2> QED  BY <1>3, <2>1, UnmapStep DEF CopyEnds
<1>4. CASE Unhold
  <2>1. PICK a : a = held
    OBVIOUS
  <2> QED  BY <1>4, <2>1, UnmapStep DEF Unhold
<1> QED  BY <1>1, <1>2, <1>3, <1>4, MapFastStep DEF Access

(* The inductive invariant of the program.                                 *)
THEOREM RootInvariance ==
  ASSUME BlocksFit
  PROVE  Spec => []RInv
<1>1. Init => RInv
  <2> SUFFICES ASSUME Init PROVE RInv
    OBVIOUS
  <2>1. /\ at = "down" /\ fd_mem = FALSE /\ virt_addr = [i \in Regions |-> 0]
        /\ vm = Unmapped /\ held = NULL /\ op = NULL
    BY DEF Init, RootInit
  <2>2. RootTypeOK
    BY <2>1 DEF RootTypeOK, Unmapped
  <2>3. InOrder /\ FastGood /\ AccessGood /\ Apart /\ Exact /\ Files
    BY <2>1 DEF InOrder, FastGood, AccessGood, Apart, Exact, Files, Unmapped
  <2> QED  BY <2>2, <2>3 DEF RInv
<1>2. RInv /\ [Next]_vars => RInv'
  <2> SUFFICES ASSUME RInv, [Next]_vars PROVE RInv'
    OBVIOUS
  <2>1. CASE UNCHANGED rootVars
    <3>1. /\ UNCHANGED <<at, fd_mem, virt_addr, vm, held, op>>
          /\ Regions' = Regions /\ Mapped' = Mapped
          /\ \A i : Fast(i)' = Fast(i) /\ FastPages(i)' = FastPages(i)
      BY <2>1 DEF rootVars, Mapped, Fast, FastPages, Regions
    <3>2. \A a : OwnPages(a)' = OwnPages(a) /\ InFast(a)' = InFast(a) /\ OfVirt(a.virt)' = OfVirt(a.virt)
      BY <3>1 DEF OwnPages, OfVirt, InFast
    <3>3. RootTypeOK' /\ InOrder' /\ Files'
      BY <3>1 DEF RInv, RootTypeOK, InOrder, Files
    <3>4. FastGood' /\ AccessGood'
      BY <3>1, <3>2 DEF RInv, FastGood, AccessGood, Good
    <3>5. Apart' /\ Exact'
      BY <3>1, <3>2 DEF RInv, Apart, Exact
    <3> QED  BY <3>3, <3>4, <3>5 DEF RInv
  <2>2. CASE Access
    BY <2>2, AccessStep
  <2>3. CASE dsp_init_root \/ dsp_exit_root \/ Exit
    BY <2>3, OpenStep
  <2> QED  BY <2>1, <2>2, <2>3 DEF Next, OpenAndInit, Close, vars
<1> QED  BY <1>1, <1>2, PTL DEF Spec

(* Whatever memory a program with root rights copies to, sets or keeps     *)
(* mapped, and whichever regions dsp_init_root maps for good: each access  *)
(* is to the physical bytes meant, if the block fits its pages.            *)
THEOREM AlwaysLandsWhereMeant ==
  ASSUME BlocksFit
  PROVE  Spec => []LandsWhereMeant
<1>1. RInv => LandsWhereMeant
  <2> SUFFICES ASSUME RInv PROVE LandsWhereMeant
    OBVIOUS
  <2>1. ASSUME NEW a, Good(vm, a) PROVE Lands(a)
    BY <2>1 DEF Good, Lands
  <2>2. ASSUME at = "up" PROVE \A i \in Regions : Good(vm, Fast(i))
    BY <2>2 DEF RInv, FastGood, InOrder
  <2>3. ASSUME NEW a \in {op, held} PROVE Lands(a)
    <3>1. CASE a = NULL
      BY <3>1 DEF Lands
    <3>2. CASE a # NULL /\ InFast(a)
      <4>1. /\ at = "up" /\ a.phys \in Nat /\ a.size \in Nat \ {0} /\ a.virt \in Nat
        BY <3>2 DEF RInv, RootTypeOK
      <4>2. PICK i \in Mapped :
              /\ fast_mmap[i].phys_addr <= a.phys
              /\ a.phys + a.size <= fast_mmap[i].phys_addr + fast_mmap[i].size
              /\ a.virt = a.phys - fast_mmap[i].phys_addr + virt_addr[i]
        BY <3>2 DEF InFast
      <4>3. i \in Regions /\ Good(vm, Fast(i)) /\ virt_addr[i] \in Nat
            /\ fast_mmap[i].phys_addr \in Nat /\ fast_mmap[i].size \in Nat
        BY <2>2, <4>1, Consts DEF Mapped, RInv, RootTypeOK
      <4>4. ASSUME NEW k \in 0 .. a.size - 1
            PROVE  /\ (a.virt + k) \div PAGESIZE \in Pages
                   /\ vm[(a.virt + k) \div PAGESIZE] = (a.phys + k) \div PAGESIZE
        <5>1. PICK j : j = a.phys - fast_mmap[i].phys_addr + k
          OBVIOUS
        <5>2. /\ j \in 0 .. fast_mmap[i].size - 1
              /\ virt_addr[i] + j = a.virt + k /\ fast_mmap[i].phys_addr + j = a.phys + k
          BY <4>1, <4>2, <4>3, <5>1
        <5>3. /\ (virt_addr[i] + j) \div PAGESIZE \in Pages
              /\ vm[(virt_addr[i] + j) \div PAGESIZE] = (fast_mmap[i].phys_addr + j) \div PAGESIZE
          BY <4>3, <5>2 DEF Good, Fast
        <5> QED  BY <5>2, <5>3
      <4> QED  BY <4>4 DEF Lands
    <3>3. CASE a # NULL /\ Good(vm, a)
      BY <2>1, <3>3
    <3> QED  BY <3>1, <3>2, <3>3 DEF RInv, AccessGood
  <2>4. at = "up" => \A i \in Regions : Lands(Fast(i))
    BY <2>1, <2>2
  <2> QED  BY <2>3, <2>4 DEF LandsWhereMeant, Fast
<1> QED  BY <1>1, RootInvariance, PTL

(* Once dsp_exit_root has returned, the program has nothing mapped and     *)
(* /dev/mem is closed, however often it was up before.                     *)
THEOREM AlwaysDownLeavesNothing ==
  ASSUME BlocksFit
  PROVE  Spec => []DownLeavesNothing
<1>1. RInv => DownLeavesNothing
  <2> SUFFICES ASSUME RInv, at = "down" PROVE vm = Unmapped /\ ~ fd_mem
    BY DEF DownLeavesNothing
  <2>1. op = NULL /\ held = NULL /\ vm \in [Pages -> Nat \cup {NULL}]
    BY DEF RInv, RootTypeOK
  <2>2. \A p \in Pages : vm[p] = NULL
    BY <2>1 DEF RInv, Exact, OwnPages
  <2> QED  BY <2>1, <2>2 DEF RInv, Files, Unmapped
<1> QED  BY <1>1, RootInvariance, PTL
=============================================================================
