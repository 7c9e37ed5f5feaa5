---------------------------- MODULE MCDriverLife ----------------------------
(* DriverLife with the tables of all the demo drivers. *)
EXTENDS DriverLife, DemoDrivers

ProbeOf ==
  [platform |-> PlatformProbe, gpio |-> GpioProbe, resource |-> ResourceProbe,
   platform_init |-> PlatformInit, base_init |-> BaseInit,
   spi |-> SpiProbe, i2c_init |-> I2cInit, smbus |-> SmbusProbe, aup |-> AupProbe,
   mdio_base |-> MdioBaseProbe, soc_mdio |-> SocMdioProbe,
   mdio_usage |-> MdioUsageProbe, mdio_misc |-> MdioMiscProbe,
   ethernet |-> EthernetProbe, phy |-> PhyProbe, can_demo |-> CanDemoProbe,
   simple_can |-> SimpleCanProbe, mcp |-> McpProbe, tty |-> TtyProbe,
   tty_module |-> TtyInit, misc |-> MiscInit, demo_bus |-> BusInit,
   bus_device |-> BusDeviceAdd, debugfs_base |-> DebugfsBase,
   debugfs_array |-> DebugfsArray, debugfs_bool |-> DebugfsBool,
   debugfs_uvalue |-> DebugfsUvalue, debugfs_xvalue |-> DebugfsXvalue,
   debugfs_subdir |-> DebugfsSubdir, proc_base |-> ProcBase,
   proc_file |-> ProcFile, proc_subdir |-> ProcSubdir,
   kobject_base |-> KobjectBase, kobject_subdir |-> KobjectSubdir,
   kset |-> KsetBase, gpio_init |-> GpioInit, mdio_misc_init |-> MdioMiscInit,
   mdio_usage_init |-> MdioUsageInit, mdio_base_init |-> MdioBaseInit,
   soc_mdio_init |-> SocMdioInit, ethernet_init |-> EthernetInit,
   smbus_init |-> SmbusInit, can_up |-> CanDemoOpen,
   driver_bus |-> DriverBusInit, base_bus |-> BaseBusInit, bus_base |-> BusBase,
   bus_driver |-> BusDriverInit, base_device |-> BaseDeviceInit,
   clk |-> ClkInit, a_device |-> ADeviceInit, device_base |-> DeviceBaseInit,
   filesystem |-> FilesystemInit]

AllDrivers == DOMAIN ProbeOf

\* The drivers whose remove or exit function something calls: the others are
\* initcalls whose exit function is never registered.
RemoveRows ==
  [platform |-> PlatformRemove, gpio |-> GpioRemove, resource |-> ResourceRemove,
   spi |-> SpiRemove, smbus |-> SmbusRemove, aup |-> AupRemove,
   mdio_base |-> MdioBaseRemove, soc_mdio |-> SocMdioRemove,
   mdio_usage |-> MdioUsageRemove, mdio_misc |-> MdioMiscRemove,
   ethernet |-> EthernetRemove, mcp |-> McpRemove, tty |-> TtyRemove,
   tty_module |-> TtyExit, misc |-> MiscExit, can_up |-> CanDemoStop]
CanUnbind == DOMAIN RemoveRows
RemoveOf == RemoveRows @@ [d \in AllDrivers \ CanUnbind |-> <<>>]

TouchOf ==
  [platform |-> InPriv, gpio |-> InPriv, resource |-> InPriv, spi |-> SpiTouch,
   mdio_base |-> MdioTouch, soc_mdio |-> MdioTouch, mdio_usage |-> MdioTouch,
   mdio_misc |-> MdioMiscTouch, ethernet |-> EthernetTouch, phy |-> PhyTouch,
   can_demo |-> CanTouch, simple_can |-> CanTouch, mcp |-> McpTouch,
   tty |-> TtyTouch, kobject_subdir |-> KobjectTouch, a_device |-> ADeviceTouch]
  @@ [d \in AllDrivers |->
        IF d \in {"debugfs_base", "debugfs_array", "debugfs_bool",
                  "debugfs_uvalue", "debugfs_xvalue", "debugfs_subdir"}
        THEN DebugfsTouch ELSE Nothing]

OneOnly == {Geth, Mem2, "demo_platform.2014", "demo_platform driver", "gmac0",
            "gmac0 driver", "demo_mdio.2014", "demo_mdio driver", "client",
            "demo_i2c driver", "demo_bus", "demo_bus type", "demo_bus.3",
            "debugfs demo", "sys demo"}
AskedOnce == {"numbers"}

Wants(d) == UNION {ProbeOf[d][i].get : i \in 1..Len(ProbeOf[d])}
\* Every driver alone, and every two that want the same region or name.
LoadSets ==
  {l \in {{c, d} : c \in AllDrivers, d \in AllDrivers} :
     \A c, d \in l : c = d \/ Wants(c) \cap Wants(d) \cap OneOnly # {}}

AllResources ==
  UNION {Wants(d) \cup UNION {RemoveOf[d][i] : i \in 1..Len(RemoveOf[d])}
         : d \in AllDrivers}
  \cup {"mem extclk", "demo/demo", "devices/devices", "drivers/drivers"}

\* What keeps the others out is told in the README, driver by driver.
TidyDrivers ==
  {"platform", "spi", "phy", "can_demo", "simple_can", "mcp", "misc", "demo_bus",
   "bus_device", "debugfs_base", "debugfs_array", "debugfs_bool",
   "debugfs_uvalue", "debugfs_xvalue", "debugfs_subdir", "proc_base",
   "kobject_base", "kobject_subdir", "kset", "driver_bus", "base_bus",
   "bus_base", "base_device", "device_base", "filesystem"}
SoundDrivers ==
  (TidyDrivers \ {"mcp", "misc"})
  \cup {"aup", "bus_driver", "mdio_base", "soc_mdio", "resource", "smbus",
        "platform_init", "base_init", "i2c_init", "gpio_init", "mdio_misc_init",
        "mdio_usage_init", "mdio_base_init", "soc_mdio_init", "ethernet_init",
        "smbus_init", "can_up", "a_device"}
=============================================================================
