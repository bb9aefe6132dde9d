\* A module that is unloaded, or could not be loaded, stays so.
CHECK_DEADLOCK FALSE
SPECIFICATION LifeSpec
CONSTANT Drivers = {
    "mychar", "my_wait", "my_wait2", "my_mutex", "pipe", "multi_mem",
    "my_ioport", "my_ioport2", "my_tasklet", "my_workqueue", "my_timer",
    "like_irq", "irq_disable", "my_atomic", "my_slab", "my_kmap", "my_kmalloc",
    "my_page1", "my_vmalloc", "my_proc", "my_proc2", "list_buffer",
    "list_cache", "my_time", "my_delay", "any", "my_pci2", "my_pci",
    "skel_drv", "key_char", "ide_platform", "pata_platform",
    "fake_pata_driver", "skel_dev", "plat_dev", "fake_pata"}
INVARIANTS HeldMatchesPhase NoStrayRelease UsesAreLive NestedLifetimes
PROPERTY CodeReturns
