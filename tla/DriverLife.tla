----------------------------- MODULE DriverLife -----------------------------
(***************************************************************************)
(* The life of a loaded driver: the programs of DriverCode run against a   *)
(* kernel that may refuse any request, while the functions the driver has  *)
(* registered (interrupt handlers, /proc readers, file operations, a       *)
(* thread, deferred work) run whenever the kernel lets them.               *)
(*                                                                         *)
(* Two activities run code: the module (init, exit) and the one device     *)
(* bound to it (probe, remove).  A device is probed while the driver is    *)
(* registered and removed at any time after that, for instance by a hot    *)
(* unplug; unregistering the driver waits until it is removed.             *)
(***************************************************************************)
EXTENDS DriverCode, FiniteSets, TLC

CONSTANT Drivers   \* the drivers to load, names of the table below

VARIABLES drv,      \* the driver that is loaded
          phase,    \* of the module and of the device
          code,     \* what is left of the function each of them runs
          held,     \* resources held
          faults,   \* resources that were not as the code or a BUG_ON needs them
          running,  \* callbacks that run
          queued    \* deferred work that is scheduled

life == <<drv, phase, code, held, faults, running, queued>>

Units == {"module", "device"}

-----------------------------------------------------------------------------
(* Callbacks.  Of via the callback is registered with, an interrupt, a     *)
(* proc file and a thread end before it can be given back.  An open file   *)
(* keeps the module loaded (fops.owner) but not the device bound.  Deferred*)
(* work waits for nobody and nobody waits for it.                          *)

Callback(kind, via, uses, defers, gives) ==
    [kind |-> kind, via |-> via, uses |-> uses, defers |-> defers,
     gives |-> gives]

\* The text of the module is what every callback uses.
File(uses)        == ("file" :> Callback("file", "cdev", uses, {}, {}))
Proc(uses)        == ("proc" :> Callback("sync", "proc", uses, {}, {}))
Handler(i, uses)  == (i :> Callback("sync", i, uses, {}, {}))
NoCalls           == [c \in {} |-> Callback("sync", "", {}, {}, {})]

\* interrupt_func schedules the bottom half.
tasklet_calls ==
    "irq"  :> Callback("sync", "irq", {"bottom"}, {"soft"}, {}) @@
    "soft" :> Callback("soft", "", {}, {}, {})
workqueue_calls ==
    "irq"  :> Callback("sync", "irq", {"dev", "bottom"}, {"soft"}, {}) @@
    "soft" :> Callback("soft", "", {"dev"}, {}, {})

\* my_proc starts a timer; timer_func starts it again, up to a hundred times.
timer_calls ==
    "proc" :> Callback("sync", "proc", {}, {"soft"}, {}) @@
    "soft" :> Callback("soft", "", {}, {"soft"}, {})

\* proc_write leaves a buffer.
proc_calls == "proc" :> Callback("sync", "proc", {}, {}, {"ker_buf"})

thread_calls ==
    "thread" :> Callback("thread", "thread",
                         {"page", "page_ctl", "va", "va_ctl"}, {}, {})

-----------------------------------------------------------------------------
(* The table of drivers.                                                   *)

Bus(init, exit, probe, remove, calls) ==
    [init |-> init, exit |-> exit, probe |-> probe, remove |-> remove,
     calls |-> calls]
Plain(init, exit, calls) == Bus(init, exit, << >>, << >>, calls)

Ata(probe, uses) ==
    Bus(module_platform_init, module_platform_exit, probe,
        ata_platform_remove_one, Handler("active", uses))

Driver == [
    mychar    |-> Plain(mychar_init, mychar_exit, File({"dev", "buf"})),
    my_wait   |-> Plain(my_wait_init, my_wait_exit, File({"dev", "buf"})),
    my_wait2  |-> Plain(my_wait2_init, my_wait2_exit, File({"dev", "buf"})),
    my_mutex  |-> Plain(my_mutex_init, my_mutex_exit, File({"dev"})),
    pipe      |-> Plain(pipe_init, pipe_exit,
                        File({"dev", "buf"}) @@ Proc({"dev"})),
    multi_mem |-> Plain(multi_mem_init, multi_mem_exit,
                        File({"dev0", "buf0", "dev1", "buf1"})),
    my_ioport  |-> Plain(my_ioport_init, my_ioport_exit, File({})),
    my_ioport2 |-> Plain(my_ioport2_init, my_ioport2_exit,
                         File({"dev", "map"})),
    my_tasklet   |-> Plain(my_tasklet_init, my_tasklet_exit, tasklet_calls),
    my_workqueue |-> Plain(my_workqueue_init, my_workqueue_exit,
                           workqueue_calls),
    my_timer     |-> Plain(my_timer_init, my_timer_exit, timer_calls),
    like_irq     |-> Plain(like_irq_init, like_irq_exit,
                           Handler("irq", {}) @@ Proc({})),
    irq_disable  |-> Plain(irq_disable_init, irq_disable_exit,
                           Handler("proc", {}) @@ Handler("proc2", {})),
    my_atomic    |-> Plain(my_atomic_init, my_atomic_exit,
                           Handler("irq", {}) @@ Handler("irq2", {})),
    my_slab    |-> Plain(my_slab_init, my_slab_exit,
                         Proc({"item1", "item2", "cache"})),
    my_kmap    |-> Plain(my_kmap_init, my_kmap_exit, NoCalls),
    my_kmalloc |-> Plain(my_kmalloc_init, my_kmalloc_exit, NoCalls),
    my_page1   |-> Plain(my_page1_init, my_page1_exit, NoCalls),
    my_vmalloc |-> Plain(my_vmalloc_init, my_vmalloc_exit, NoCalls),
    my_proc    |-> Plain(my_proc_init, my_proc_exit, proc_calls),
    my_proc2   |-> Plain(my_proc2_init, my_proc2_exit, proc_calls),
    list_buffer |-> Plain(list_buffer_init, list_buffer_exit, Proc({})),
    list_cache  |-> Plain(list_cache_init, list_cache_exit, Proc({})),
    my_time     |-> Plain(my_time_init, my_time_exit, Proc({})),
    my_delay    |-> Plain(my_delay_init, my_delay_exit, Proc({})),
    any     |-> Bus(igp, rgp, girlp, girlf,
                    File({"ndev", "io", "mem", "iomap"})),
    my_pci2 |-> Bus(my_pci2_init, my_pci2_exit, my_pci2_probe, my_pci2_remove,
                    File({"dev", "iomap"})),
    my_pci  |-> Bus(my_pci_init, my_pci_exit, my_pci_probe, my_pci_remove,
                    NoCalls),
    skel_drv |-> Bus(skel_drv_init, skel_drv_exit, skel_drv_probe,
                     skel_drv_remove, File({"dev"})),
    key_char |-> Bus(key_char_init, key_char_exit, key_char_probe,
                     key_char_remove, File({"dev"})),
    ide_platform |-> Bus(module_platform_init, module_platform_exit,
                         plat_ide_probe, plat_ide_remove,
                         Handler("host", {"base", "ctl"})),
    pata_platform    |-> Ata(pata_platform_probe, {"host", "base", "ctl"}),
    fake_pata_driver |-> Ata(fake_driver_probe, {"host"}),
    skel_dev  |-> Plain(skel_dev_init, skel_dev_exit, NoCalls),
    plat_dev  |-> Plain(plat_dev_init, plat_dev_exit, NoCalls),
    fake_pata |-> Plain(fake_pata_init, fake_pata_exit, thread_calls)]

ASSUME DriversAssumption == Drivers \subseteq DOMAIN Driver

Calls == Driver[drv].calls
CallNames == UNION {DOMAIN Driver[d].calls : d \in Drivers}

\* What the driver core gives back for the device after a probe that fails
\* and after remove.
Managed(d) == CASE d \in {"pata_platform", "fake_pata_driver"} ->
                       {"host", "base", "ctl"}
                [] d = "ide_platform" -> {"base", "ctl", "drvdata"}
                [] OTHER -> {}

\* What the module holds for itself, as against for a device.
ModuleOwn == {"class", "driver"}

-----------------------------------------------------------------------------

LifeInit ==
    /\ drv \in Drivers
    /\ phase = [module |-> "setup", device |-> "absent"]
    /\ code = [module |-> Driver[drv].init, device |-> << >>]
    /\ held = {} /\ faults = {} /\ running = {} /\ queued = {}

Busy(u)  == phase[u] \in {"setup", "teardown"}
Begin(u) == Head(code[u])
AtOp(u, ops) == Busy(u) /\ code[u] # << >> /\ Begin(u).op \in ops

\* Somebody is in the call that gives r back: nothing new starts through it.
Leaving(r) == \E u \in Units : AtOp(u, {"drop", "free"}) /\ Begin(u).r = r

\* The call returns once what r was registered for has ended.
Quiet(r) ==
    /\ \A c \in running :
          Calls[c].kind \in {"sync", "thread"} => Calls[c].via # r
    /\ r = "driver" => phase["device"] \in {"absent", "failed", "gone"}

Continue(u, rest) == code' = [code EXCEPT ![u] = rest]

Grant(u) ==
    /\ AtOp(u, {"take", "try", "set"})
    /\ held' = held \cup {Begin(u).r}
    /\ Continue(u, Tail(code[u]))
    /\ UNCHANGED <<drv, phase, faults, running, queued>>

\* A round of the loop that is granted.  One that is refused changes nothing,
\* and nothing makes the kernel grant the next one, so this is not a fair step.
GrantRetry(u) ==
    /\ AtOp(u, {"retry"})
    /\ held' = held \cup {Begin(u).r}
    /\ Continue(u, Tail(code[u]))
    /\ UNCHANGED <<drv, phase, faults, running, queued>>

\* An allocation fails, or the range, the number or the name is in use.
Refuse(u) ==
    /\ AtOp(u, {"take", "try"})
    /\ Continue(u, IF Begin(u).op = "take" THEN Begin(u).alt ELSE Tail(code[u]))
    /\ UNCHANGED <<drv, phase, held, faults, running, queued>>

Release(u) ==
    /\ AtOp(u, {"drop", "free"}) /\ Quiet(Begin(u).r)
    /\ held' = held \ {Begin(u).r}
    /\ faults' = IF Begin(u).op = "drop" /\ Begin(u).r \notin held
                 THEN faults \cup {Begin(u).r} ELSE faults
    /\ Continue(u, Tail(code[u]))
    /\ UNCHANGED <<drv, phase, running, queued>>

Branch(u) ==
    /\ AtOp(u, {"test"})
    /\ \/ Continue(u, Tail(code[u]))
       \/ Continue(u, Begin(u).alt)
    /\ UNCHANGED <<drv, phase, held, faults, running, queued>>

\* The statement of u finds its resource as it must be: there for a read
\* through it, not there for what the kernel forbids by a BUG_ON.
AsNeeded(u) == (Begin(u).op = "need") <=> (Begin(u).r \in held)

Access(u) ==
    /\ AtOp(u, {"need", "never"}) /\ AsNeeded(u)
    /\ Continue(u, Tail(code[u]))
    /\ UNCHANGED <<drv, phase, held, faults, running, queued>>

\* The thread that runs the code dies in the access.
Oops(u) ==
    /\ AtOp(u, {"need", "never"}) /\ ~AsNeeded(u)
    /\ faults' = faults \cup {Begin(u).r}
    /\ phase' = [phase EXCEPT ![u] = "oops"]
    /\ UNCHANGED <<drv, code, held, running, queued>>

Return(u) ==
    /\ Busy(u)
    /\ code[u] = << >> \/ AtOp(u, {"fail"})
    /\ LET ok   == code[u] = << >>
           next == CASE phase[u] = "setup" /\ ok ->
                            IF u = "module" THEN "live" ELSE "bound"
                     [] phase[u] = "setup" /\ ~ok -> "failed"
                     [] OTHER -> "gone"
       IN  /\ phase' = [phase EXCEPT ![u] = next]
           /\ held' = IF u = "device" /\ next # "bound"
                      THEN held \ Managed(drv) ELSE held
    /\ Continue(u, << >>)
    /\ UNCHANGED <<drv, faults, running, queued>>

\* The bus finds the device.  After a probe or remove that left something
\* behind, a second attempt is not considered.
Probe ==
    /\ "driver" \in held /\ ~Leaving("driver")
    /\ phase["device"] \in {"absent", "failed", "gone"}
    /\ held \subseteq ModuleOwn
    /\ phase' = [phase EXCEPT !["device"] = "setup"]
    /\ Continue("device", Driver[drv].probe)
    /\ UNCHANGED <<drv, held, faults, running, queued>>

Remove ==
    /\ phase["device"] = "bound"
    /\ phase' = [phase EXCEPT !["device"] = "teardown"]
    /\ Continue("device", Driver[drv].remove)
    /\ UNCHANGED <<drv, held, faults, running, queued>>

\* rmmod.  An open file of the driver refuses it.
Unload ==
    /\ phase["module"] = "live"
    /\ \A c \in running : Calls[c].kind # "file"
    /\ phase' = [phase EXCEPT !["module"] = "teardown"]
    /\ Continue("module", Driver[drv].exit)
    /\ UNCHANGED <<drv, held, faults, running, queued>>

Enter(c) ==
    /\ c \notin running
    /\ IF Calls[c].kind = "soft" THEN c \in queued
       ELSE Calls[c].via \in held /\ ~Leaving(Calls[c].via)
    /\ Calls[c].kind = "file" => phase["module"] \in {"setup", "live"}
    /\ running' = running \cup {c}
    /\ queued' = queued \ {c}
    /\ UNCHANGED <<drv, phase, code, held, faults>>

\* A loop that does not look whether it is to stop.
kthread_never_stops == FALSE

\* The loop of thread_function runs until it is told to stop.
kthread_should_stop == Leaving("thread")

\* Deferred work may come back for another round, or not.
Leave(c) ==
    /\ c \in running
    /\ Calls[c].kind = "thread" => kthread_should_stop
    /\ running' = running \ {c}
    /\ \/ queued' = queued \cup Calls[c].defers
       \/ Calls[c].kind = "soft" /\ UNCHANGED queued
    /\ held' = held \cup Calls[c].gives
    /\ UNCHANGED <<drv, phase, code, faults>>

Step(u) == Grant(u) \/ Refuse(u) \/ Release(u) \/ Branch(u) \/ Access(u)
           \/ Oops(u) \/ Return(u)

LifeNext ==
    \/ \E u \in Units : Step(u) \/ GrantRetry(u)
    \/ Probe \/ Remove \/ Unload
    \/ \E c \in DOMAIN Calls : Enter(c) \/ Leave(c)

\* The code runs on, except out of a loop that waits for the kernel to grant
\* something; a callback returns unless it is a file that is held
\* open, and the bus removes the device of a driver that is unregistered.
LifeFairness ==
    /\ \A u \in Units : WF_life(Step(u))
    /\ WF_life(Leaving("driver") /\ Remove)
    /\ \A c \in CallNames \ {"file"} : WF_life(c \in DOMAIN Calls /\ Leave(c))

LifeSpec == LifeInit /\ [][LifeNext]_life /\ LifeFairness

-----------------------------------------------------------------------------
(* Properties.                                                             *)

\* What the code is known to leave behind when a setup function fails, ...
RollbackLeaks(d) ==
    CASE d = "my_workqueue" -> {"dev"}
      [] d = "my_ioport2"   -> {"dev", "map"}
      [] d = "any"          -> {"class"}
      [] d = "my_pci2"      -> {"dev", "enable"}
      [] d = "skel_drv"     -> {"class"}
      [] d = "key_char"     -> {"class"}
      [] d = "fake_pata"    -> {"page", "page_ctl", "va", "va_ctl", "thread"}
      [] OTHER -> {}

\* ... and once it is removed or unloaded.
UnloadLeaks(d) ==
    CASE d = "my_ioport2" -> {"dev", "map"}
      [] d = "my_kmap"    -> {"kmap"}
      [] d = "fake_pata"  -> {"page", "page_ctl", "va", "va_ctl"}
      [] OTHER -> {}

\* The initialised tasklet or work of the driver's own memory.
Static == {"bottom"}

\* A probe that failed taints its driver for good: a leak of the device
\* outlives the module.
Tainted == phase["device"] = "failed"

\* What a setup program takes on the way to success.
Wanted(p, ops) == {p[i].r : i \in {j \in DOMAIN p : p[j].op \in ops}}

\* A setup function that returns an error has given back all it took, on
\* every path (the error paths of my_init and my_probe, release_mydev).
RollbackExact ==
    /\ phase["module"] = "failed" => held \subseteq RollbackLeaks(drv)
    /\ Tainted => held \subseteq ModuleOwn \cup RollbackLeaks(drv)

\* One that succeeds has everything that it could not do without, except for
\* my_pci2.c, whose probe runs on into its own error path.
SetupComplete ==
    /\ phase["module"] = "live" =>
          Wanted(Driver[drv].init, {"take"}) \subseteq held
    /\ phase["device"] = "bound" /\ drv # "my_pci2" =>
          Wanted(Driver[drv].probe, {"take", "retry"}) \subseteq held

\* my_exit and my_remove give back exactly what is held, whatever was refused
\* during setup and whatever ran meanwhile.
UnloadExact ==
    /\ phase["module"] = "gone" /\ ~Tainted =>
          held \subseteq Static \cup UnloadLeaks(drv)
    /\ phase["device"] = "gone" => held \subseteq ModuleOwn \cup UnloadLeaks(drv)

(***************************************************************************)
(* What is held agrees with how the setup and teardown functions of the    *)
(* driver returned: nothing after an error, all of it after success,       *)
(* nothing after exit or remove, up to the leaks listed above.             *)
(***************************************************************************)
HeldMatchesPhase == RollbackExact /\ SetupComplete /\ UnloadExact

\* The resources that the code is known to give back, or to read through,
\* without having them, or against a BUG_ON: release_mydev; girlf after a
\* failed step of girlp, after class_destroy and always with the network device
\* registered; pci_release_regions and my_remove of my_pci2.c; a platform
\* device without resources; unchecked pages and mappings.
KnownFaults(d) ==
    CASE d = "multi_mem" -> {"dev0", "dev1"}
      [] d = "any"       -> {"ndev", "class", "cobj", "enable", "io", "mem",
                             "netreg"}
      [] d = "my_pci2"   -> {"regions", "drvdata"}
      [] d = "skel_drv"  -> {"res"}
      [] d = "fake_pata" -> {"page", "page_ctl", "va", "va_ctl"}
      [] OTHER -> {}

\* Nothing is given back twice, or used by the setup and teardown code before
\* it is there, apart from the known faults.
NoStrayRelease == faults \subseteq KnownFaults(drv)

\* Driver, callback and what the callback may find gone or not there yet.
KnownDangling ==
    {<<"pipe", "file", "buf">>, <<"my_ioport2", "file", "map">>,
     <<"my_tasklet", "irq", "bottom">>, <<"my_tasklet", "soft", "text">>,
     <<"my_workqueue", "irq", "bottom">>, <<"my_workqueue", "soft", "dev">>,
     <<"my_workqueue", "soft", "text">>, <<"my_timer", "soft", "text">>,
     <<"my_pci2", "file", "iomap">>, <<"skel_drv", "file", "dev">>,
     <<"key_char", "file", "dev">>, <<"ide_platform", "host", "base">>,
     <<"ide_platform", "host", "ctl">>, <<"fake_pata", "thread", "text">>}
    \cup {<<"any", "file", r>> : r \in {"io", "mem", "iomap"}}

Alive(r) == IF r = "text" THEN phase["module"] \notin {"failed", "gone"}
                          ELSE r \in held

\* While an interrupt handler, a proc reader, an open file, the thread or
\* deferred work runs, everything it uses exists, the text of the module
\* included; the exceptions are the triples above.
UsesAreLive ==
    \A c \in running : \A r \in Calls[c].uses \cup {"text"} :
        Alive(r) \/ <<drv, c, r>> \in KnownDangling

\* What lies in, is mapped from or is registered in what.
Outer == [cdev |-> {"dev", "chrdev"}, buf |-> {"dev"}, buf0 |-> {"dev0"},
          buf1 |-> {"dev1"}, item1 |-> {"cache"}, item2 |-> {"cache"},
          device |-> {"class"}, iomap |-> {"mem", "regions"}]

\* What this driver takes at all.
Owned == Wanted(Driver[drv].init \o Driver[drv].probe,
                {"take", "try", "set", "retry"})

\* Resources are given back from the inside out, on success and on every
\* error path: nothing outlives what it lies in or is registered in.  any.c
\* destroys its class before the devices in it.
NestedLifetimes ==
    \A r \in held \cap DOMAIN Outer :
        \/ Outer[r] \cap Owned \subseteq held
        \/ drv = "any" /\ r = "device"

\* The device's own code is dead, or asks for a device number in the loop of
\* girlp: unloading the driver waits for it.
DeviceStuck == phase["device"] = "oops" \/ AtOp("device", {"retry"})

\* Every init, exit, probe and remove returns: waiting for handlers, for the
\* thread and for the device is never for ever.  The exceptions are a probe or
\* remove that dies and, in any.c, a probe that repeats alloc_chrdev_region
\* while no major number is free; once it has one it returns like the others.
CodeReturns ==
    \A u \in Units : Busy(u) ~> (~Busy(u) \/ DeviceStuck)
=============================================================================
