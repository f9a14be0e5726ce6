----------------------------- MODULE MxPcieLife -----------------------------
(***************************************************************************)
(* The life of the PCIe devices: module init and exit, probe with its goto *)
(* chain (memx_cascade_pciemain.c), the list that hands out minor numbers  *)
(* (memx_pcie_dev_list_ctrl.c), the /proc or /sys tree of a device and the *)
(* map from a sysfs directory to its device (memx_fs.c, memx_fs_proc.c,    *)
(* memx_fs_sys.c, memx_fs_hwmon.c), interrupt vectors (memx_msix_irq.c),   *)
(* the firmware's start (memx_fw_init.c), the firmware log (memx_fw_log.c),*)
(* remove, suspend and resume.                                             *)
(*                                                                         *)
(* The kernel runs the callbacks of one device one at a time, but those of *)
(* two devices side by side; only the list has a lock.  What a device      *)
(* shares with others is the list, the two nodes of its minor number, the  *)
(* names of the trees and the map.                                         *)
(***************************************************************************)
EXTENDS Integers, Sequences, SequencesExt, FiniteSets

CONSTANTS
  Devices,
  MaxName,    \* bound: names /proc/memxN or /sys/memxN that are tried, 128 in the code
  Kobjects,   \* addresses a kobject can have
  FsTypes,    \* values of the parameter g_drv_fs_type to consider
  Unaligned,  \* bound: those with which pages off a boundary of 2 MB are considered
  MaxLoads,   \* bound: attempts to load the module
  MaxProbes,  \* bound: calls of probe
  Nobody

\* The last one is for a device that finds all names taken.
Names  == 0 .. MaxName
Minors == 0 .. (Cardinality(Devices) - 1)

ASSUME PcieLifeAssumption ==
  /\ IsFiniteSet(Devices)
  /\ MaxName \in Nat
  /\ Cardinality(Devices) <= MaxName   \* the map of sysfs has room for eight
  /\ FsTypes \subseteq {"none", "proc", "sys"} /\ Unaligned \subseteq FsTypes
  /\ MaxLoads \in Nat /\ MaxProbes \in Nat
  /\ Nobody \notin Devices /\ Nobody \notin Kobjects

VARIABLES
  driver,    \* "out" or "in": whether the driver is registered
  globals,   \* the module's device number ranges and class
  loads,     \* attempts to load the module so far
  fsType,    \* g_drv_fs_type
  dmaSize,   \* dma_cohernet_buffer_size, in units of 2 MB
  at,        \* [Devices -> Stage]: the place in probe, remove or resume
  ret,       \* [Devices -> {0, -1}]: what probe or memx_firmware_init returns
  held,      \* [Devices -> SUBSET Resource]
  pages,     \* [Devices -> 0 .. 2]: the size of dma_pages, in the same units
  probes,    \* probes so far
  list,      \* g_memx_pcie_device_list
  minor,     \* [Devices -> Int]: minor_index
  node,      \* [Nodes \X Minors -> Devices or Nobody]: who made the node, if it exists
  dirs,      \* [Names -> {"free", "bare", "open"}]: "bare" has no file cmd yet
  dir,       \* [Devices -> Names]: the directory's name
  kobj,      \* [Names -> Kobjects or Nobody]: the kobject of /sys/memxN
  entry,     \* [Minors -> Entry]: g_kobj_memx_dev_map; dev is Nobody once the
             \* memx_dev it points to is freed
  vectors,   \* [Devices -> {"none", "one", "many"}]
  handlers,  \* [Devices -> SUBSET Handler]: handlers registered
  initDone,  \* [Devices -> BOOLEAN]: int_info.init_done
  asleep,    \* [Devices -> BOOLEAN]: power_state is not PM_EVENT_ON
  leaked,    \* history: [Devices -> SUBSET Resource]: what a failed probe has left
  rival,     \* history: [Devices -> BOOLEAN]: another device's probe or remove
             \* overlapped with d's last probe or remove
  uneven,    \* history: some pages are not given back as they were got: dmaSize
             \* was doubled meanwhile, or their base was moved up
  disturbed  \* history: some probe or remove overlapped, or left a directory

moduleVars == <<driver, globals, loads, fsType>>
pageVars   == <<dmaSize, pages, uneven>>
listVars   == <<list, minor>>
treeVars   == <<dirs, dir, kobj, entry>>
irqVars    == <<vectors, handlers, initDone>>
ghostVars  == <<leaked, rival, disturbed>>
vars == <<driver, globals, loads, fsType, dmaSize, at, ret, held, pages, probes, list, minor,
          node, dirs, dir, kobj, entry, vectors, handlers, initDone, asleep,
          leaked, rival, uneven, disturbed>>

Global   == {"memx", "feature", "class"}
Nodes    == {"char", "feature"}
Resource == {"object", "enabled", "dma", "regions", "bars", "barInfo", "fifo", "drvdata",
             "charCdev", "featureCdev", "tree", "hwmon", "log"}
\* Released by the kernel when probe has failed or remove has returned.
Managed  == {"object", "enabled", "regions", "bars", "barInfo", "drvdata", "hwmon"}
Handler  == {"fw", "data", "single"}
Entry    == [kobj : Kobjects \cup {Nobody}, dev : Devices \cup {Nobody}]

Rest     == {"unbound", "hollow", "bound"}
FwStages == {"irqs", "load", "log"}
Failing  == {"errFs", "errFeature", "errChar", "errList", "errBar", "errPcie", "errDma", "errDevm"}
Stage    == Rest \cup FwStages \cup Failing \cup
            {"enable", "insert", "charNode", "featureNode", "fsScan", "fsDir", "fsFiles",
             "rmFs", "rmList", "rmFeature", "rmChar", "rmIrq", "rmFree", "return"}

-----------------------------------------------------------------------------
Init ==
  /\ driver = "out" /\ globals = {} /\ loads = 0
  /\ fsType \in FsTypes
  /\ dmaSize = 1
  /\ pages = [d \in Devices |-> 0]
  /\ uneven = FALSE
  /\ at = [d \in Devices |-> "unbound"]
  /\ ret = [d \in Devices |-> 0]
  /\ held = [d \in Devices |-> {}]
  /\ probes = 0
  /\ list = <<>>
  /\ minor = [d \in Devices |-> 0]
  /\ node = [n \in Nodes \X Minors |-> Nobody]
  /\ dirs = [n \in Names |-> "free"]
  /\ dir = [d \in Devices |-> 0]
  /\ kobj = [n \in Names |-> Nobody]
  /\ entry = [m \in Minors |-> [kobj |-> Nobody, dev |-> Nobody]]
  /\ vectors = [d \in Devices |-> "none"]
  /\ handlers = [d \in Devices |-> {}]
  /\ initDone = [d \in Devices |-> FALSE]
  /\ asleep = [d \in Devices |-> FALSE]
  /\ leaked = [d \in Devices |-> {}]
  /\ rival = [d \in Devices |-> FALSE]
  /\ disturbed = FALSE

Goto(d, from, to) == at[d] = from /\ at' = [at EXCEPT ![d] = to]
Take(d, r) == held' = [held EXCEPT ![d] = @ \cup r]
Give(d, r) == held' = [held EXCEPT ![d] = @ \ r]
Fail(d) == ret' = [ret EXCEPT ![d] = -1]

(* memx_pcie_module_init: a step that fails leaves what the earlier steps   *)
(* have got, but a failed registration gives all of it back.                *)
Load ==
  /\ driver = "out"
  /\ loads < MaxLoads
  /\ loads' = loads + 1
  /\ \/ driver' = "in" /\ globals' = Global
     \/ /\ \E left \in {{}, {"memx"}, {"memx", "feature"}} : globals' = globals \cup left
        /\ UNCHANGED driver
  /\ UNCHANGED <<fsType, pageVars, at, ret, held, probes, listVars, node, treeVars, irqVars,
                 asleep, ghostVars>>

(* memx_pcie_module_exit, once pci_unregister_driver has removed the devices;*)
(* the map and the size of the pages go with the module.                    *)
Unload ==
  /\ driver = "in" /\ driver' = "out"
  /\ \A d \in Devices : at[d] = "unbound"
  /\ globals' = {}
  /\ entry' = [m \in Minors |-> [kobj |-> Nobody, dev |-> Nobody]]
  /\ dmaSize' = 1
  /\ UNCHANGED <<loads, fsType, pages, uneven, at, ret, held, probes, listVars, node, dirs,
                 dir, kobj, irqVars, asleep, ghostVars>>

-----------------------------------------------------------------------------
(* A probe or a remove begins beside those that are under way; a resume     *)
(* touches nothing that is shared.                                          *)
Busy(d) == at[d] \notin Rest /\ ~(asleep[d] /\ at[d] \in FwStages)

Enter(d) ==
  LET others == {e \in Devices \ {d} : Busy(e)} IN
  /\ rival' = [e \in Devices |-> IF e = d THEN others # {} ELSE rival[e] \/ e \in others]
  /\ disturbed' = (disturbed \/ others # {})

(* memx_pcie_probe starts with a memx_dev of its own.                       *)
Probe(d) ==
  /\ driver = "in"
  /\ probes < MaxProbes
  /\ probes' = probes + 1
  /\ Goto(d, "unbound", "enable")
  /\ held' = [held EXCEPT ![d] = {"object"}]
  /\ Enter(d)
  /\ leaked' = [leaked EXCEPT ![d] = {}]
  /\ UNCHANGED <<moduleVars, pageVars, ret, listVars, node, treeVars, irqVars, asleep>>

\* The steps that get something for this device only, what they get, and
\* the label each jumps to when it fails; where the rest begins.
Step == << [gets |-> {"enabled"},         fail |-> "errDevm"],  \* pci_enable_device
           [gets |-> {},                  fail |-> "errDma"],   \* dma_set_mask_and_coherent
           [gets |-> {"dma"},             fail |-> "errDma"],   \* dma_alloc_pages
           [gets |-> {"regions"},         fail |-> "errPcie"],  \* pci_request_regions
           [gets |-> {"bars"},            fail |-> "errBar"],   \* pcim_iomap
           [gets |-> {"fifo", "barInfo"}, fail |-> "errBar"],   \* kfifo_alloc
           [gets |-> {"drvdata"},         fail |-> "errBar"] >> \* the BAR mode

Got(i) == UNION {Step[j].gets : j \in 1 .. i - 1}

(* The pages, when step i fails (or none, after the last).  If they do not  *)
(* begin on a boundary of 2 MB they are given back and twice as many asked  *)
(* for: from then on that is the size for all devices, whether the second   *)
(* try succeeds or not.  Its base is moved up if it is off the boundary too.*)
GetPages(d, i) ==
  LET beside == \E e \in Devices \ {d} : pages[e] # 0 \/ at[e] = "enable" IN
  \/ /\ pages' = [pages EXCEPT ![d] = IF "dma" \in Got(i) THEN dmaSize ELSE 0]
     /\ UNCHANGED <<dmaSize, uneven>>
  \/ /\ i >= 3 /\ fsType \in Unaligned
     /\ dmaSize' = 2
     /\ pages' = [pages EXCEPT ![d] = IF "dma" \in Got(i) THEN 2 ELSE 0]
     /\ \/ uneven' = (uneven \/ (dmaSize = 1 /\ beside))
        \/ "dma" \in Got(i) /\ uneven' = TRUE

(* They are taken in turn up to the first that fails.  A combination of     *)
(* BARs that is not known, in the last one, goes to err_bar_init without an *)
(* error in ret, and without kfifo_free.                                    *)
Acquire(d) ==
  /\ at[d] = "enable"
  /\ \E i \in 1 .. Len(Step) + 1 :
       /\ GetPages(d, i)
       /\ Take(d, Got(i))
       /\ Goto(d, "enable", IF i > Len(Step) THEN "insert" ELSE Step[i].fail)
       /\ IF i < Len(Step) THEN Fail(d) ELSE UNCHANGED ret
       /\ leaked' = [leaked EXCEPT ![d] = IF i = Len(Step) THEN {"fifo"} ELSE @]
  /\ UNCHANGED <<moduleVars, probes, listVars, node, treeVars, irqVars, asleep,
                 rival, disturbed>>

-----------------------------------------------------------------------------
(* memx_insert_device: where the walk over the list stops.                  *)
FollowsGap(i) == i = Len(list) \/ minor[list[i + 1]] # minor[list[i]] + 1
Stop == CHOOSE i \in DOMAIN list : FollowsGap(i) /\ \A j \in 1 .. i - 1 : ~FollowsGap(j)

\* Fault: the walk begins although the first minor number is free.
InsertWithoutHead(d) ==
  /\ Goto(d, "insert", "charNode")
  /\ IF list = <<>>
     THEN /\ minor' = [minor EXCEPT ![d] = 0]
          /\ list' = InsertAt(list, 1, d)
     ELSE /\ minor' = [minor EXCEPT ![d] = minor[list[Stop]] + 1]
          /\ list' = InsertAt(list, Stop + 1, d)
  /\ UNCHANGED <<moduleVars, pageVars, ret, held, probes, node, treeVars, irqVars,
                 asleep, ghostVars>>

\* Fault: list_add_tail for list_add.
InsertAtTail(d) ==
  /\ Goto(d, "insert", "charNode")
  /\ minor' = [minor EXCEPT ![d] = IF list = <<>> \/ minor[Head(list)] > 0 THEN 0
                                   ELSE minor[list[Stop]] + 1]
  /\ list' = Append(list, d)
  /\ UNCHANGED <<moduleVars, pageVars, ret, held, probes, node, treeVars, irqVars,
                 asleep, ghostVars>>

Insert(d) ==
  /\ Goto(d, "insert", "charNode")
  /\ IF list = <<>> \/ minor[Head(list)] > 0
     THEN /\ minor' = [minor EXCEPT ![d] = 0]
          /\ list' = InsertAt(list, 1, d)
     ELSE /\ minor' = [minor EXCEPT ![d] = minor[list[Stop]] + 1]
          /\ list' = InsertAt(list, Stop + 1, d)
  /\ UNCHANGED <<moduleVars, pageVars, ret, held, probes, node, treeVars, irqVars,
                 asleep, ghostVars>>

(* memx_get_device_by_index, with which an open finds its device.           *)
ByIndex(m) == {list[i] : i \in {i \in DOMAIN list : minor[list[i]] = m}}

(* cdev_add and device_create, which fails if the name exists.              *)
CreateNode(d, kind) ==
  LET n == <<kind, minor[d]>> IN
  /\ \/ node[n] = Nobody /\ node' = [node EXCEPT ![n] = d] /\ UNCHANGED ret
     \/ Fail(d) /\ UNCHANGED node
  /\ at' = [at EXCEPT ![d] = IF ret'[d] # 0 THEN "errFeature"
                             ELSE IF kind = "char" THEN "featureNode"
                             ELSE IF fsType = "none" THEN "irqs" ELSE "fsScan"]
  /\ Take(d, IF kind = "char" THEN {"charCdev"} ELSE {"featureCdev"})
  /\ UNCHANGED <<moduleVars, pageVars, probes, listVars, treeVars, irqVars, asleep,
                 ghostVars>>

CharNode(d)    == at[d] = "charNode" /\ CreateNode(d, "char")
FeatureNode(d) == at[d] = "featureNode" /\ CreateNode(d, "feature")

-----------------------------------------------------------------------------
(* memx_fs_proc_init and memx_fs_sys_init: the first name without a file    *)
(* cmd is taken, or the one after those that are tried; if its directory    *)
(* exists all the same, it cannot be made.                                  *)
Untaken == {n \in Names : dirs[n] # "open" \/ n = MaxName}

FsScan(d) ==
  /\ Goto(d, "fsScan", "fsDir")
  /\ dir' = [dir EXCEPT ![d] = CHOOSE n \in Untaken : \A m \in Untaken : n <= m]
  /\ UNCHANGED <<moduleVars, pageVars, ret, held, probes, listVars, node, dirs, kobj, entry,
                 irqVars, asleep, ghostVars>>

InUse == {kobj[n] : n \in {n \in Names : dirs[n] # "free"}}

FsDir(d) ==
  /\ \/ /\ dirs[dir[d]] = "free"
        /\ Goto(d, "fsDir", "fsFiles")
        /\ dirs' = [dirs EXCEPT ![dir[d]] = "bare"]
        /\ IF fsType = "sys"
           THEN \E k \in Kobjects \ InUse : kobj' = [kobj EXCEPT ![dir[d]] = k]
           ELSE UNCHANGED kobj
        /\ Take(d, {"tree"})
        /\ UNCHANGED ret
     \/ Goto(d, "fsDir", "errFeature") /\ Fail(d) /\ UNCHANGED <<dirs, kobj, held>>
  /\ UNCHANGED <<moduleVars, pageVars, probes, listVars, node, dir, entry, irqVars,
                 asleep, ghostVars>>

(* memx_fs_hwmon_init: whether the kernel takes the device is not looked at.*)
HwmonInit(d) == Take(d, {"hwmon"})

(* The files are made, cmd first; for sysfs then the entry of the map.      *)
FilesMade(d) ==
  /\ Goto(d, "fsFiles", "irqs")
  /\ dirs' = [dirs EXCEPT ![dir[d]] = "open"]
  /\ entry' = IF fsType = "proc" THEN entry
              ELSE [entry EXCEPT ![minor[d]] = [kobj |-> kobj[dir[d]], dev |-> d]]
  /\ HwmonInit(d)
  /\ UNCHANGED <<ret, leaked, disturbed>>

(* If a file cannot be made procfs takes the whole tree away.               *)
ProcFileFails(d) ==
  /\ fsType = "proc"
  /\ Goto(d, "fsFiles", "errFeature") /\ Fail(d)
  /\ dirs' = [dirs EXCEPT ![dir[d]] = "free"]
  /\ Give(d, {"tree"})
  /\ UNCHANGED <<entry, leaked, disturbed>>

(* Sysfs leaves the directory as it is; memx_fs_deinit is not called.       *)
SysFileFails(d) ==
  /\ fsType = "sys"
  /\ Goto(d, "fsFiles", "errFeature") /\ Fail(d)
  /\ \E s \in {"bare", "open"} : dirs' = [dirs EXCEPT ![dir[d]] = s]
  /\ leaked' = [leaked EXCEPT ![d] = @ \cup {"tree"}]
  /\ disturbed' = TRUE
  /\ UNCHANGED <<held, entry>>

(* The rest of memx_fs_init.                                                *)
FsFiles(d) ==
  /\ FilesMade(d) \/ ProcFileFails(d) \/ SysFileFails(d)
  /\ UNCHANGED <<moduleVars, pageVars, probes, listVars, node, dir, kobj, irqVars,
                 asleep, rival>>

(* memx_fs_sys_deinit: the directory's kobject goes with its files.         *)
DropKobject(d) == kobj' = [kobj EXCEPT ![dir[d]] = Nobody]

(* memx_fs_deinit: the entry of the map and the hwmon device stay.          *)
FsDeinit(d) ==
  IF fsType = "none" THEN UNCHANGED <<dirs, kobj>>
  ELSE dirs' = [dirs EXCEPT ![dir[d]] = "free"] /\ DropKobject(d)

\* Fault: the last entry of the map that fits is taken.
ReachedLast(d) ==
  LET hits == {m \in Minors : entry[m].kobj = kobj[dir[d]]} IN
  IF fsType = "proc" THEN {d}
  ELSE {entry[m].dev : m \in {m \in hits : \A n \in hits : n <= m}}

(* What a file of d's directory works on: the device proc_create_data was   *)
(* given, or in sysfs the first entry of the map with this directory.       *)
Reached(d) ==
  LET hits == {m \in Minors : entry[m].kobj = kobj[dir[d]]} IN
  IF fsType = "proc" THEN {d}
  ELSE {entry[m].dev : m \in {m \in hits : \A n \in hits : m <= n}}

-----------------------------------------------------------------------------
(* memx_firmware_init, of probe and of resume, fails: resume goes on to     *)
(* memx_fw_log_init all the same.                                           *)
FwFails(d) ==
  /\ at' = [at EXCEPT ![d] = IF asleep[d] THEN "log" ELSE "errFs"]
  /\ Fail(d)

(* memx_init_msix_irq: MSI-X or MSI with eight vectors, or a single one,    *)
(* then devm_request_irq for one vector after the other.  After a resume    *)
(* that failed here the vectors are still allocated: pci_alloc_irq_vectors  *)
(* refuses new ones and gives the first of them as the only one, which      *)
(* cannot be shared if it has its handler.                                  *)
InitIrqs(d) ==
  /\ at[d] = "irqs"
  /\ \/ /\ initDone[d]
        /\ Goto(d, "irqs", "load")
        /\ UNCHANGED <<ret, irqVars>>
     \/ /\ ~initDone[d]
        /\ FwFails(d)
        /\ UNCHANGED irqVars
     \/ /\ ~initDone[d]
        /\ \E n \in {"one"} \cup (IF vectors[d] = "many" THEN {} ELSE {"many"}) :
             LET all == IF n = "one" THEN {"single"} ELSE {"fw", "data"} IN
             /\ vectors' = [vectors EXCEPT ![d] = IF @ = "many" THEN @ ELSE n]
             /\ \/ /\ handlers[d] = {}
                   /\ Goto(d, "irqs", "load")
                   /\ handlers' = [handlers EXCEPT ![d] = all]
                   /\ initDone' = [initDone EXCEPT ![d] = TRUE]
                   /\ UNCHANGED ret
                \/ /\ FwFails(d)
                   /\ \E some \in {{}, {"fw"}, {"fw", "data"}} :
                        /\ some \subseteq all
                        /\ handlers' = [handlers EXCEPT ![d] = @ \cup some]
                   /\ UNCHANGED initDone
  /\ UNCHANGED <<moduleVars, pageVars, held, probes, listVars, node, treeVars,
                 asleep, ghostVars>>

(* The rest of memx_firmware_init: the download, unless firmware runs; the  *)
(* wait for its ack, or for its tick, whose outcome is not looked at;       *)
(* PCIE_CMD_INIT_HOST_BUF_MAPPING and memx_get_hw_info.                     *)
LoadFirmware(d) ==
  /\ at[d] = "load"
  /\ \/ Goto(d, "load", IF fsType = "none" /\ ~asleep[d] THEN "bound" ELSE "log") /\ UNCHANGED ret
     \/ FwFails(d)
  /\ UNCHANGED <<moduleVars, pageVars, held, probes, listVars, node, treeVars,
                 irqVars, asleep, ghostVars>>

(* memx_fw_log_init tells every chip to log into the DMA pages.             *)
ConnectLog(d) ==
  /\ Goto(d, "log", "bound")
  /\ Take(d, {"log"})
  /\ asleep' = [asleep EXCEPT ![d] = @ /\ ret[d] # 0]
  /\ UNCHANGED <<moduleVars, pageVars, ret, probes, listVars, node, treeVars,
                 irqVars, ghostVars>>

(* memx_deinit_msix_irq: nothing unless init_done.                          *)
DeinitIrqs(d) ==
  /\ handlers' = [handlers EXCEPT ![d] = IF initDone[d] THEN {} ELSE @]
  /\ vectors' = [vectors EXCEPT ![d] = IF initDone[d] THEN "none" ELSE @]
  /\ initDone' = [initDone EXCEPT ![d] = FALSE]

(* memx_pcie_suspend and memx_pcie_resume.                                  *)
Suspend(d) ==
  /\ at[d] = "bound" /\ ~asleep[d]
  /\ DeinitIrqs(d)
  /\ asleep' = [asleep EXCEPT ![d] = TRUE]
  /\ UNCHANGED <<moduleVars, pageVars, at, ret, held, probes, listVars, node,
                 treeVars, ghostVars>>

Resume(d) ==
  /\ asleep[d]
  /\ Goto(d, "bound", "irqs")
  /\ ret' = [ret EXCEPT ![d] = 0]
  /\ UNCHANGED <<moduleVars, pageVars, held, probes, listVars, node, treeVars,
                 irqVars, asleep, ghostVars>>

-----------------------------------------------------------------------------
(* memx_pcie_remove: nothing to do if probe left no drvdata.                *)
Unplug(d) ==
  /\ \/ Goto(d, "hollow", "return")
     \/ Goto(d, "bound", "rmFs")
  /\ Enter(d)
  /\ UNCHANGED <<moduleVars, pageVars, ret, held, probes, listVars, node, treeVars,
                 irqVars, asleep, leaked>>

(* memx_fw_log_deinit and memx_fs_deinit in remove, the latter in probe.    *)
DropTree(d) ==
  /\ \/ Goto(d, "rmFs", "rmList") /\ Give(d, IF fsType = "none" THEN {} ELSE {"log", "tree"})
     \/ Goto(d, "errFs", "errFeature") /\ Give(d, {"tree"})
  /\ FsDeinit(d)
  /\ UNCHANGED <<moduleVars, pageVars, ret, probes, listVars, node, dir, entry,
                 irqVars, asleep, ghostVars>>

\* Fault: only remove takes the device off the list.
LeaveListInRemove(d) ==
  /\ \/ Goto(d, "rmList", "rmFeature") /\ list' = SelectSeq(list, LAMBDA e : e # d)
     \/ Goto(d, "errList", "errBar") /\ UNCHANGED list
  /\ UNCHANGED <<moduleVars, pageVars, ret, held, probes, minor, node, treeVars,
                 irqVars, asleep, ghostVars>>

\* Fault: the minor number is cleared when it is given back.
LeaveListCleared(d) ==
  /\ Goto(d, "rmList", "rmFeature") \/ Goto(d, "errList", "errBar")
  /\ list' = SelectSeq(list, LAMBDA e : e # d)
  /\ minor' = [minor EXCEPT ![d] = 0]
  /\ UNCHANGED <<moduleVars, pageVars, ret, held, probes, node, treeVars, irqVars,
                 asleep, ghostVars>>

LeaveList(d) ==
  /\ Goto(d, "rmList", "rmFeature") \/ Goto(d, "errList", "errBar")
  /\ list' = RemoveAt(list, CHOOSE i \in DOMAIN list : list[i] = d)
  /\ UNCHANGED <<moduleVars, pageVars, ret, held, probes, minor, node, treeVars,
                 irqVars, asleep, ghostVars>>

(* device_destroy goes by the number and not by who made the node.          *)
DropFeatureNode(d) ==
  /\ Goto(d, "rmFeature", "rmChar") \/ Goto(d, "errFeature", "errChar")
  /\ node' = [node EXCEPT ![<<"feature", minor[d]>>] = Nobody]
  /\ UNCHANGED <<moduleVars, pageVars, ret, held, probes, listVars, treeVars,
                 irqVars, asleep, ghostVars>>

DropCharNode(d) ==
  /\ \/ Goto(d, "rmChar", "rmIrq") /\ Give(d, {"charCdev", "featureCdev"})
     \/ Goto(d, "errChar", "errList") /\ Give(d, {"charCdev", "featureCdev", "fifo"})
  /\ node' = [node EXCEPT ![<<"char", minor[d]>>] = Nobody]
  /\ UNCHANGED <<moduleVars, pageVars, ret, probes, listVars, treeVars, irqVars,
                 asleep, ghostVars>>

\* Fault: remove frees the memory and leaves the interrupts to the kernel.
KeepIrqs(d) ==
  /\ Goto(d, "rmIrq", "rmFree")
  /\ UNCHANGED <<moduleVars, pageVars, ret, held, probes, listVars, node, treeVars,
                 irqVars, asleep, ghostVars>>

\* What is given back for this device only, behind probe's labels and in remove.
Frees == [errDevm |-> {"object", "barInfo"},
          errDma  |-> {"enabled", "object", "barInfo"},
          errPcie |-> {"dma", "enabled", "object", "barInfo"},
          errBar  |-> {"bars", "regions", "dma", "enabled", "object", "barInfo"},
          rmFree  |-> {"fifo", "bars", "regions", "dma", "enabled", "drvdata"}]

DropIrqs(d) ==
  /\ Goto(d, "rmIrq", "rmFree")
  /\ DeinitIrqs(d)
  /\ UNCHANGED <<moduleVars, pageVars, ret, held, probes, listVars, node, treeVars,
                 asleep, ghostVars>>

(* The loop over the BARs looks at bar_info, which is filled after the      *)
(* fifo; and a probe that returns 0 has bound the device.  The pages are    *)
(* given back as dmaSize of them, from the base that the device uses.       *)
Release(d) ==
  /\ at[d] \in DOMAIN Frees
  /\ Give(d, IF "barInfo" \in held[d] THEN Frees[at[d]] ELSE Frees[at[d]] \ {"bars"})
  /\ at' = [at EXCEPT ![d] = IF at[d] # "rmFree" /\ ret[d] = 0 THEN "hollow" ELSE "return"]
  /\ pages' = [pages EXCEPT ![d] = IF "dma" \in Frees[at[d]] THEN 0 ELSE @]
  /\ UNCHANGED <<moduleVars, dmaSize, uneven, ret, probes, listVars, node, treeVars, irqVars,
                 asleep, ghostVars>>

(* The kernel releases what is managed, the handlers before the memory.     *)
Return(d) ==
  /\ Goto(d, "return", "unbound")
  /\ Give(d, Managed)
  /\ entry' = [m \in Minors |-> IF entry[m].dev = d
                                THEN [entry[m] EXCEPT !.dev = Nobody] ELSE entry[m]]
  /\ ret' = [ret EXCEPT ![d] = 0]
  /\ minor' = [minor EXCEPT ![d] = 0]
  /\ dir' = [dir EXCEPT ![d] = 0]
  /\ handlers' = [handlers EXCEPT ![d] = {}]
  /\ vectors' = [vectors EXCEPT ![d] = "none"]
  /\ initDone' = [initDone EXCEPT ![d] = FALSE]
  /\ asleep' = [asleep EXCEPT ![d] = FALSE]
  /\ rival' = [rival EXCEPT ![d] = FALSE]
  /\ UNCHANGED <<moduleVars, pageVars, probes, list, node, dirs, kobj, leaked,
                 disturbed>>

Device(d) ==
  \/ Probe(d) \/ Acquire(d) \/ Insert(d) \/ CharNode(d) \/ FeatureNode(d)
  \/ FsScan(d) \/ FsDir(d) \/ FsFiles(d)
  \/ InitIrqs(d) \/ LoadFirmware(d) \/ ConnectLog(d)
  \/ Suspend(d) \/ Resume(d) \/ Unplug(d)
  \/ DropTree(d) \/ LeaveList(d) \/ DropFeatureNode(d) \/ DropCharNode(d) \/ DropIrqs(d)
  \/ Release(d) \/ Return(d)

Next == Load \/ Unload \/ \E d \in Devices : Device(d)

Spec == Init /\ [][Next]_vars

-----------------------------------------------------------------------------
TypeOK ==
  /\ driver \in {"out", "in"} /\ globals \subseteq Global /\ loads \in 0 .. MaxLoads
  /\ fsType \in FsTypes
  /\ dmaSize \in {1, 2} /\ pages \in [Devices -> 0 .. 2] /\ uneven \in BOOLEAN
  /\ at \in [Devices -> Stage]
  /\ ret \in [Devices -> {0, -1}]
  /\ held \in [Devices -> SUBSET Resource]
  /\ probes \in 0 .. MaxProbes
  /\ list \in Seq(Devices)
  /\ minor \in [Devices -> Minors]
  /\ node \in [Nodes \X Minors -> Devices \cup {Nobody}]
  /\ dirs \in [Names -> {"free", "bare", "open"}]
  /\ dir \in [Devices -> Names]
  /\ kobj \in [Names -> Kobjects \cup {Nobody}]
  /\ entry \in [Minors -> Entry]
  /\ vectors \in [Devices -> {"none", "one", "many"}]
  /\ handlers \in [Devices -> SUBSET Handler]
  /\ initDone \in [Devices -> BOOLEAN]
  /\ asleep \in [Devices -> BOOLEAN]
  /\ leaked \in [Devices -> SUBSET Resource]
  /\ rival \in [Devices -> BOOLEAN] /\ disturbed \in BOOLEAN

(* The list is in the order of the minor numbers and no two devices have    *)
(* the same, whatever probes fail and whatever overlaps: the walk of        *)
(* memx_insert_device, which stops at the first gap, rests on it.           *)
ListOrdered ==
  \A i, j \in DOMAIN list : i < j => minor[list[i]] < minor[list[j]]

(* The nodes of a device that is bound are there, are the ones it made, and *)
(* an open of them finds it; unless a probe or remove ran beside its probe: *)
(* remove gives the minor number back before it destroys the nodes.         *)
NodesAreOwn ==
  \A d \in Devices :
    at[d] = "bound" /\ ~rival[d] =>
      /\ \A k \in Nodes : node[<<k, minor[d]>>] = d
      /\ ByIndex(minor[d]) = {d}

(* A file of a device's tree works on that device, although entries of the  *)
(* map are not cleared and addresses are used again; and /proc/memxN or     *)
(* /sys/memxN is the device of /dev/memxN, although N is found twice.       *)
FilesAreOwn ==
  \A d \in Devices :
    at[d] = "bound" /\ fsType # "none" =>
      /\ ~rival[d] => Reached(d) = {d}
      /\ ~disturbed => dir[d] = minor[d]

(* A device that is not bound holds nothing and is in no list or node: what *)
(* probe or remove leaves is the fifo after an invalid combination of BARs, *)
(* a sysfs directory after a file failed, and the log that a resume without *)
(* file system has connected.  No node outlives the class.                  *)
NothingLeft ==
  /\ \A d \in Devices :
       at[d] = "unbound" =>
         /\ held[d] \subseteq leaked[d] \cup (IF fsType = "none" THEN {"log"} ELSE {})
         /\ d \notin {list[i] : i \in DOMAIN list}
         /\ \A n \in DOMAIN node : node[n] # d
  /\ \A n \in DOMAIN node : node[n] # Nobody => "class" \in globals

\* A probe that failed is on its way out.
GivingUp(d) ==
  \/ at[d] \in Failing
  \/ at[d] = "return" /\ "drvdata" \in held[d]

(* What the device or a user can reach is there: the memory an interrupt    *)
(* handler uses, unless a failed probe is giving it back with the handlers  *)
(* still registered; the memory behind the files of the tree and behind     *)
(* those of hwmon, which stay until the kernel removes them after remove    *)
(* has unmapped the BARs, or probe's labels have also freed the object, and *)
(* are off the ground in between; and the pages the chips log into while    *)
(* the device may write, unless no file system was set up.  A device's      *)
(* pages go when they are given back, and with them no more than was got,   *)
(* until a probe has doubled their size beside a device that has fewer, or  *)
(* has moved a base, which is then given back in the place of the first.    *)
ReachableIsLive ==
  \A d \in Devices :
    /\ handlers[d] # {} /\ ~GivingUp(d) =>
         /\ "object" \in held[d]
         /\ "single" \in handlers[d] => {"bars", "fifo"} \subseteq held[d]
         /\ initDone[d] => "fifo" \in held[d]
    /\ "tree" \in held[d] \ leaked[d] => {"object", "bars"} \subseteq held[d]
    /\ "hwmon" \in held[d] /\ at[d] # "return" => {"object", "bars"} \subseteq held[d]
    /\ ~uneven =>
         /\ "tree" \in held[d] \ leaked[d] => "dma" \in held[d]
         /\ {"log", "enabled"} \subseteq held[d] => "dma" \in held[d] \/ fsType = "none"
         /\ "dma" \in held[d] => pages[d] = dmaSize
=============================================================================
