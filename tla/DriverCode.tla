----------------------------- MODULE DriverCode -----------------------------
(***************************************************************************)
(* What the init, exit, probe and remove functions of the drivers do to    *)
(* the resources they take from the kernel.  Each function is a program, a *)
(* sequence of the statements below; DriverLife runs them.  A driver has   *)
(* its own small set of resource names, so that the same name in two       *)
(* drivers means two things of the same kind.                              *)
(*                                                                         *)
(*   Take   ask for a resource; if refused, go on with alt instead         *)
(*   Try    the same, but the code does not look at the outcome            *)
(*   Set    put something into place, which cannot be refused              *)
(*   Retry  ask again and again until it is granted                        *)
(*   Drop   give a resource back; a fault if it is not held                *)
(*   Free   give it back if it is held: a call guarded by an if, or one    *)
(*          that accepts NULL (kfree, iounmap, cdev_del, remove_proc_entry)*)
(*   Need   read through a pointer; a fault that stops the code if it is   *)
(*          not held                                                       *)
(*   Never  a BUG_ON of the kernel: the code dies here if it is held       *)
(*   Test   a condition on the hardware or on a parameter                  *)
(*   Fail   return an error                                                *)
(***************************************************************************)
EXTENDS Integers, Sequences

LOCAL INSTANCE SequencesExt

Stmt(op, r, alt) == [op |-> op, r |-> r, alt |-> alt]

Take(r, alt) == Stmt("take", r, alt)
Try(r)       == Stmt("try", r, << >>)
Set(r)       == Stmt("set", r, << >>)
Retry(r)     == Stmt("retry", r, << >>)
Drop(r)      == Stmt("drop", r, << >>)
Free(r)      == Stmt("free", r, << >>)
Need(r)      == Stmt("need", r, << >>)
Never(r)     == Stmt("never", r, << >>)
Test(alt)    == Stmt("test", "", alt)
Fail         == Stmt("fail", "", << >>)

\* Drops the resources of rs one after the other and returns an error.
Undo(rs) == [i \in 1 .. Len(rs) |-> Drop(rs[i])] \o <<Fail>>

-----------------------------------------------------------------------------
(* Character devices: a structure with the cdev in it, a buffer, a range   *)
(* of device numbers, the cdev.                                            *)

\* Forgets the structure when the buffer cannot be allocated.
mychar_initForgetsDev == << Take("dev", <<Fail>>),
                            Take("buf", <<Fail>>),
                            Take("chrdev", Undo(<<"buf", "dev">>)),
                            Try("cdev") >>

mychar_init == << Take("dev", <<Fail>>),
                  Take("buf", Undo(<<"dev">>)),
                  Take("chrdev", Undo(<<"buf", "dev">>)),
                  Try("cdev") >>
mychar_exit == << Free("cdev"), Drop("chrdev"), Drop("buf"), Drop("dev") >>

my_wait_init == << Take("dev", <<Fail>>),
                   Take("buf", Undo(<<"dev">>)),
                   Take("chrdev", Undo(<<"buf", "dev">>)),
                   Try("cdev") >>
my_wait_exit == << Free("cdev"), Drop("chrdev"), Drop("buf"), Drop("dev") >>

\* The same two functions in a second copy of the file.
my_wait2_init == my_wait_init
my_wait2_exit == my_wait_exit

\* Frees the structure before the cdev that lies in it.
my_mutex_exitFreesFirst ==
    << Drop("dev"), Free("cdev"), Drop("chrdev"), Drop("buf") >>

my_mutex_init == << Take("dev", <<Fail>>),
                    Take("buf", Undo(<<"dev">>)),
                    Take("chrdev", Undo(<<"buf", "dev">>)),
                    Try("cdev") >>
my_mutex_exit == << Free("cdev"), Drop("chrdev"), Drop("buf"), Drop("dev") >>

\* The outcome of the second kzalloc is not looked at.
pipe_init == << Take("dev", <<Fail>>),
                Try("buf"),
                Take("chrdev", <<Free("buf"), Drop("dev"), Fail>>),
                Try("cdev"),
                Try("proc") >>
pipe_exit == << Free("proc"), Free("cdev"), Drop("chrdev"), Free("buf"),
                Drop("dev") >>

\* The array of devices, cut from DEV_NUM = 4 to two.
MultiDev == << "dev0", "dev1" >>
MultiBuf == << "buf0", "buf1" >>
DEV_NUM  == 2

\* devs[i]->start is read for every i < num, whether or not devs[i] exists.
release_mydev(num) ==
    FlattenSeq([i \in 1 .. num |->
        << Need(MultiDev[i]), Free(MultiBuf[i]), Drop(MultiDev[i]) >>])

setup_mydev ==
    FlattenSeq([i \in 1 .. DEV_NUM |->
        LET err == release_mydev(i) \o <<Fail>>
        IN  << Take(MultiDev[i], err), Take(MultiBuf[i], err) >>])

multi_mem_init ==
    setup_mydev \o << Take("chrdev", release_mydev(DEV_NUM) \o <<Fail>>),
                      Try("cdev") >>
multi_mem_exit ==
    << Free("cdev"), Drop("chrdev") >> \o release_mydev(DEV_NUM)

\* The port range is used even if it belongs to somebody else.
my_ioport_init == << Try("region"),
                     Take("chrdev", <<Free("region"), Fail>>),
                     Try("cdev") >>
my_ioport_exit == << Free("cdev"), Drop("chrdev"), Free("region") >>

\* The test before iounmap is the wrong way round: a mapping stays.  The
\* structure is never freed.
my_ioport2_init == << Take("dev", <<Fail>>),
                      Try("region"), Try("map"),
                      Take("chrdev", <<Free("region"), Fail>>),
                      Try("cdev") >>
my_ioport2_exit == << Free("cdev"), Drop("chrdev"), Free("region") >>

-----------------------------------------------------------------------------
(* Interrupts, deferred work and timers.                                   *)

\* The interrupt is live before the tasklet it schedules is initialised.
my_tasklet_init   == << Take("irq", <<Fail>>), Set("bottom") >>
my_tasklet_exit   == << Drop("irq") >>

my_workqueue_init == << Take("dev", <<Fail>>), Take("irq", <<Fail>>),
                        Set("bottom") >>
my_workqueue_exit == << Drop("irq"), Drop("dev") >>

my_timer_init     == << Try("proc") >>
my_timer_exit     == << Free("proc") >>

like_irq_init     == << Take("irq", <<Fail>>), Try("proc") >>
like_irq_exit     == << Free("proc"), Drop("irq") >>

irq_disable_init  == << Try("proc"), Try("proc2") >>
irq_disable_exit  == << Free("proc"), Free("proc2") >>

\* Gives back the handler that was refused too.
my_atomic_initUndoesBoth == << Take("irq", <<Fail>>),
                               Take("irq2", Undo(<<"irq2", "irq">>)) >>

my_atomic_init    == << Take("irq", <<Fail>>),
                        Take("irq2", Undo(<<"irq">>)) >>
my_atomic_exit    == << Drop("irq2"), Drop("irq") >>

-----------------------------------------------------------------------------
(* Memory, proc files and lists.                                           *)

\* Frees the items while /proc/proc_slab can still be read.
my_slab_exitItemsFirst ==
    << Drop("item1"), Drop("item2"), Free("proc"), Drop("cache") >>

\* SLAB_PANIC: the cache is there or the machine stops.  ITEM_LEN = 1000 is
\* cut to two; the error path frees what is on the list.
my_slab_init == << Set("cache"),
                   Take("item1", Undo(<<"cache">>)),
                   Take("item2", Undo(<<"item1", "cache">>)),
                   Try("proc") >>
my_slab_exit == << Free("proc"), Drop("item1"), Drop("item2"), Drop("cache") >>

\* kunmap gets the address instead of the page and does not end the mapping.
my_kmap_init    == << Take("pages", <<Fail>>), Set("kmap") >>
my_kmap_exit    == << Drop("pages") >>

my_kmalloc_init == << Take("pages", <<Fail>>) >>
my_kmalloc_exit == << Drop("pages") >>
my_page1_init   == << Take("pages", <<Fail>>) >>
my_page1_exit   == << Drop("pages") >>
my_vmalloc_init == << Take("pages", <<Fail>>) >>
my_vmalloc_exit == << Drop("pages") >>

\* ker_buf is what the writers of the file leave behind.
my_proc_init    == << Take("proc", <<Fail>>) >>
my_proc_exit    == << Free("proc"), Free("ker_buf") >>
my_proc2_init   == << Take("proc", <<Fail>>) >>
my_proc2_exit   == << Free("proc"), Free("ker_buf") >>

list_buffer_init == << Try("proc") >>
list_buffer_exit == << Free("proc") >>
list_cache_init  == << Try("proc") >>
list_cache_exit  == << Free("proc") >>
my_time_init     == << Try("proc") >>
my_time_exit     == << Free("proc") >>
my_delay_init    == << Try("proc") >>
my_delay_exit    == << Free("proc") >>

-----------------------------------------------------------------------------
(* PCI drivers.  "driver" is the registration with the bus.                *)

\* remove, and the way out of every error of probe.  pt lies in the network
\* device; cdev_del needs a cdev that was initialised (cobj).  The network
\* device is never unregistered, and free_netdev has a BUG_ON for one that is
\* still registered.
girlf == << Need("ndev"), Need("class"), Free("device"),
            Drop("cobj"), Free("cdev"), Free("chrdev"), Free("iomap"),
            Drop("enable"), Drop("io"), Drop("mem"), Never("netreg"),
            Drop("ndev") >>

\* For the card the driver is written for; girlp and girlf do nothing for
\* any other device.  The loop around alloc_chrdev_region has no bound.
girlp == LET err == girlf \o <<Fail>>
         IN  << Take("ndev", err), Take("netreg", err), Take("enable", err),
                Take("io", err), Take("mem", err), Take("iomap", err),
                Set("cobj"), Retry("chrdev"), Take("cdev", err),
                Need("class"), Try("device") >>

igp == << Take("class", <<Fail>>), Take("driver", <<Fail>>) >>

\* The class goes before the devices that are registered in it.
rgp == << Drop("class"), Drop("driver") >>

\* The label err_out of my_probe, which a probe that succeeds reaches too.
\* dis is disable_dev_on_err, rc the statements after it.
my_pci2_err_out(dis, rc) ==
    << Free("iomap"), Drop("regions"), Free("drvdata") >>
    \o (IF dis THEN << Drop("enable") >> ELSE << >>) \o rc

\* From the label retry with use_io set, and from there to the end.
my_pci2_cdev == << Try("cdev") >> \o my_pci2_err_out(TRUE, << >>)
my_pci2_pio(dis) ==
    << Test(my_pci2_err_out(dis, <<Fail>>)),
       Take("regions", my_pci2_err_out(dis, <<Fail>>)),
       Take("iomap", my_pci2_err_out(TRUE, <<Fail>>)) >> \o my_pci2_cdev

\* The first Test is use_io.
my_pci2_probe ==
    << Take("dev", <<Fail>>), Set("drvdata"),
       Take("enable", Undo(<<"dev", "drvdata">>)),
       Test(my_pci2_pio(FALSE)),
       Test(my_pci2_err_out(FALSE, <<Fail>>)),
       Take("regions", my_pci2_err_out(FALSE, <<Fail>>)),
       Take("iomap", << Drop("regions") >> \o my_pci2_pio(TRUE)) >>
    \o my_pci2_cdev

my_pci2_remove == << Need("drvdata"), Free("cdev"), Free("iomap"),
                     Drop("regions"), Free("drvdata"), Drop("enable"),
                     Drop("dev") >>
my_pci2_init == << Take("driver", <<Fail>>) >>
my_pci2_exit == << Drop("driver") >>

\* my_probe has no return statement: the caller sees success or failure.
my_pci_probe  == << Test(<<Fail>>) >>
my_pci_remove == << >>
my_pci_init   == << Take("driver", <<Fail>>) >>
my_pci_exit   == << Drop("driver") >>

-----------------------------------------------------------------------------
(* Platform drivers and devices.                                           *)

\* The first Test is whether the device has resources: "nolan" of skel_dev.c
\* has them, "nolan" of plat_dev.c has none.
skel_drv_probe == << Take("dev", <<Fail>>),
                     Test(<<Need("res")>>),
                     Take("chrdev", Undo(<<"dev">>)),
                     Try("cdev"),
                     Take("device", << Free("cdev"), Drop("chrdev"),
                                       Drop("dev"), Fail >>),
                     Set("drvdata") >>
skel_drv_remove == << Need("drvdata"), Drop("device"), Free("cdev"),
                      Drop("chrdev"), Drop("dev"), Free("drvdata") >>

skel_drv_init == << Take("class", <<Fail>>), Take("driver", <<Fail>>) >>
skel_drv_exit == << Drop("driver"), Drop("class") >>

\* iounmap gets the pointer of the structure, which is never set.
key_char_probe  == << Take("dev", <<Fail>>), Set("drvdata"), Try("cdev"),
                      Try("device") >>
key_char_remove == << Need("drvdata"), Free("device"), Free("cdev"),
                      Free("map"), Drop("dev"), Free("drvdata") >>
key_char_init   == << Take("class", <<Fail>>), Take("driver", <<Fail>>) >>
key_char_exit   == << Drop("driver"), Drop("class") >>

\* The mappings are managed by the device and may be NULL.
plat_ide_probe  == << Test(<<Fail>>), Test(<<Fail>>), Try("base"), Try("ctl"),
                      Take("host", <<Fail>>), Set("drvdata") >>
plat_ide_remove == << Need("drvdata"), Drop("host") >>

\* Host and mappings are managed by the device.
pata_platform_activate ==
    << Take("host", <<Fail>>), Take("base", <<Try("ctl"), Fail>>),
       Take("ctl", <<Fail>>), Take("active", <<Fail>>) >>
pata_platform_probe == << Test(<<Fail>>), Test(<<Fail>>), Test(<<Fail>>) >>
                       \o pata_platform_activate

\* The registers are memory of the kernel's own address space.
fake_driver_activate == << Take("host", <<Fail>>), Take("active", <<Fail>>) >>
fake_driver_probe    == << Test(<<Fail>>), Test(<<Fail>>) >>
                        \o fake_driver_activate

\* ata_platform_remove_one stops the port.
ata_platform_remove_one == << Drop("active") >>

\* module_platform_driver.
module_platform_init == << Take("driver", <<Fail>>) >>
module_platform_exit == << Drop("driver") >>

skel_dev_init == << Take("pdev", <<Fail>>) >>
skel_dev_exit == << Drop("pdev") >>
plat_dev_init == << Take("pdev", <<Fail>>) >>
plat_dev_exit == << Drop("pdev") >>

init_fake_device == << Try("va"), Try("va_ctl") >>

\* Only the registration of the device is looked at, and nothing is undone.
fake_pata_init ==
    << Try("page"), Try("page_ctl") >> \o init_fake_device
    \o << Need("page"), Need("va"), Need("page_ctl"), Need("va_ctl"),
          Try("thread"), Take("pdev", <<Fail>>) >>
fake_pata_exit == << Drop("pdev"), Free("thread") >>

=============================================================================
