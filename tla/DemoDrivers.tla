---------------------------- MODULE DemoDrivers ----------------------------
(***************************************************************************)
(* The tables of DriverLife for the demo drivers: what each probe or init  *)
(* function takes, what the label it jumps to on a failure gives back, and *)
(* what the remove or exit function gives back.                            *)
(*                                                                         *)
(* Calls that cannot fail and take nothing (settings, prints, transfers    *)
(* whose result is ignored) are not steps.  Resources that the driver core *)
(* gives back by itself (devm_) are not either; the call is a Check.       *)
(* Regions and directory names that several drivers want have one name in  *)
(* all tables.                                                             *)
(***************************************************************************)
EXTENDS Naturals, Sequences, FiniteSets, TLC

Must(got, undo) == [get |-> got, undo |-> undo, end |-> {"out"}]
Check(undo) == Must({}, undo)
May(got) == [get |-> got, undo |-> <<>>, end |-> {"on"}]
Missing == "missing"        \* for a check that can never succeed
\* The end of an init function that gives back what it took, and stays away.
Finally(undo) == Must({Missing}, undo)
Nothing == [r \in {} |-> {}]

Geth == "mem 0x01c30000"
Mem2 == "mem 0x01c20000"

-----------------------------------------------------------------------------
(* A platform driver with a region, a mapping and an interrupt. *)

\* Mutant: err_io gives the mapping back and goes on to err_free
PlatformProbeKeepsRegion ==
  << Must({"priv"}, <<>>),
     Must({Mem2}, <<{"priv"}>>),
     Must({"map"}, <<{Mem2}, {"priv"}>>),
     Check(<<{"map"}, {"priv"}>>) >>
PlatformProbe ==
  << Must({"priv"}, <<>>),
     Must({Mem2}, <<{"priv"}>>),
     Must({"map"}, <<{Mem2}, {"priv"}>>),
     Check(<<{"map"}, {Mem2}, {"priv"}>>) >>       \* the interrupt's number
PlatformRemove == << {"map"}, {Mem2}, {"priv"} >>
InPriv == [map |-> {"priv"}]

\* The same without a look at kmalloc's result and without any label.
GpioProbe ==
  << May({"priv"}), Must({Geth}, <<>>), Must({"map"}, <<>>) >>
GpioRemove == << {"map"}, {Geth}, {"priv"} >>

\* demo_get_resource is asked for the second of one IO resource, so this probe
\* always ends there, without a label.
BusResources == << "io", "mem" >>
get_resource(type, num) ==
  Cardinality({i \in DOMAIN BusResources : BusResources[i] = type}) > num
ResourceProbe ==
  << Must({"priv"}, <<>>),
     Must({Mem2}, <<{"priv"}>>),
     Must({"map"}, <<{Mem2}, {"priv"}>>),
     IF get_resource("io", 1) THEN Check(<<>>) ELSE Must({Missing}, <<>>) >>
ResourceRemove == << {"map"}, {Mem2}, {"priv"} >>

SpiProbe ==
  << Must({"priv"}, <<>>),
     Must({"tx"}, <<{"priv"}>>),
     Must({"rx"}, <<{"tx"}, {"priv"}>>) >>
\* Mutant: the private data is freed before the buffers it points to
SpiRemoveOutOfOrder == << {"priv"}, {"rx"}, {"tx"} >>
SpiRemove == << {"rx"}, {"tx"}, {"priv"} >>
SpiTouch == [tx |-> {"priv"}, rx |-> {"priv"}]

\* The block write returns 0 when it succeeds and is compared with the length.
SmbusProbe ==
  << Check(<<>>), Must({"priv"}, <<>>), Check(<<>>), Must({"value"}, <<>>),
     Check(<<>>), Must({Missing}, <<>>) >>
SmbusRemove == << {"priv"} >>

AupProbe == << May({"clk0"}), May({"clk1"}), May({"map0"}), May({"map1"}) >>
AupRemove == << >>

\* The init function of a platform driver leaves its device registered when the
\* driver is refused.  Several of them use one name.
Platform(device, driver) == << Must({device}, <<>>), Must({driver}, <<>>) >>
PlatformInit == Platform("demo_platform.2014", "demo_platform driver")
BaseInit == Platform("demo_platform.2014", "demo_platform driver")
GpioInit == Platform("demo_io.2014", "demo_io driver")
MdioMiscInit == Platform("gmac0", "gmac0 driver")
MdioUsageInit == Platform("gmac0", "gmac0 driver")
MdioBaseInit == Platform("demo_mdio.2014", "demo_mdio driver")
SocMdioInit == Platform("demo_mdio.2014", "demo_mdio driver")
EthernetInit == Platform("demo_gmac", "demo_gmac driver")

\* The adapter is put back before the driver is added; the client stays.
SmbusInit == << Must({"client"}, <<>>), Must({"demo_i2c driver"}, <<>>) >>
I2cInit == << Must({"client"}, <<>>), Must({"demo_i2c driver"}, <<>>) >>

-----------------------------------------------------------------------------
(* MDIO controllers.  The calls of a registered bus ("phys") go through    *)
(* the bus, the private data and the mapping.                              *)

\* mdio_hardware_init, for a probe that goes on to undo.
BusUp(undo) ==
  << Must({"bus"}, undo), Must({"phys"}, <<{"bus"}>> \o undo) >>

MdioBaseProbe ==
  << Must({"priv"}, <<>>),
     Must({Geth}, <<{"priv"}>>),
     Must({"map"}, <<{Geth}, {"priv"}>>) >>
  \o BusUp(<<{"map"}, {Geth}, {"priv"}>>)
MdioBaseRemove == << >>
MdioTouch ==
  [map |-> {"priv"}, bus |-> {"priv"}, phys |-> {"bus", "priv", "map"},
   extclk |-> {"priv"}, clk |-> {"priv"}]

SocMdioProbe ==
  << Must({"priv"}, <<>>),
     Must({Geth}, <<{"priv"}>>),
     Must({"map"}, <<{Geth}, {"priv"}>>) >>
  \o BusUp(<<{"map"}, {Geth}, {"priv"}>>)
SocMdioRemove == << >>

\* demo_platform_resource_request, for a probe that goes on to undo.  When a
\* late call fails, res has moved on to the clock's resource, so out_mem gives
\* back a region that was never taken.  The clock is enabled afterwards.
Requested(undo) ==
  LET wrong == <<{"map"}, {"mem extclk"}>> \o undo IN
  << Must({Geth}, undo),
     Must({"map"}, <<{Geth}>> \o undo),
     Must({"extclk"}, wrong),
     Must({"clk"}, <<{"extclk"}>> \o wrong),
     Check(<<{"clk"}, {"extclk"}>> \o wrong),
     May({"clk on"}) >>

\* "NO PHY found" frees the private data and returns 0.
NoPhy == [get |-> {}, undo |-> <<{"priv"}>>, end |-> {"bound"}]

MdioUsageProbe ==
  << Must({"priv"}, <<>>) >>
  \o Requested(<<{"priv"}>>) \o BusUp(<<{"priv"}>>) \o << NoPhy >>
MdioUsageRemove == << {"clk"}, {"extclk"}, {"map"} >>

\* The character device is there before anything it works through.
MdioMiscProbe ==
  << Must({"priv"}, <<>>), May({"misc"}) >>
  \o Requested(<<{"priv"}>>) \o BusUp(<<{"priv"}>>) \o << NoPhy >>
MdioMiscRemove == << {"clk"}, {"extclk"}, {"map"} >>
MdioMiscTouch == MdioTouch @@ [misc |-> {"priv", "bus", "map"}]

-----------------------------------------------------------------------------
(* Network devices. *)

\* err_io gives nothing back, and a late failure jumps past free_mdio.
EthernetProbe ==
  LET table == <<{"irqs"}, {"bus"}, {"netdev"}>> IN
  << Must({"netdev"}, <<>>),
     Must({Geth}, <<{"netdev"}>>),
     Must({"map"}, <<{"netdev"}>>),
     Must({"bus"}, <<{"netdev"}>>),
     Must({"irqs"}, <<{"bus"}, {"netdev"}>>),
     Must({"phys"}, table),
     Check(table),                                 \* a PHY in the map
     Must({"phy"}, table),
     Must({"eth"}, <<{"netdev"}>>) >>
EthernetRemove == << {"eth"}, {"netdev"} >>
EthernetTouch ==
  [map |-> {"netdev"}, bus |-> {"netdev"}, irqs |-> {"bus"},
   phys |-> {"bus", "irqs", "netdev", "map"}, phy |-> {"phys", "netdev"},
   eth |-> {"netdev"}]

PhyProbe ==
  << Must({"pdev"}, <<>>),
     Must({"bus"}, <<{"pdev"}>>),
     Must({"phys"}, <<{"bus"}, {"pdev"}>>) >>
PhyTouch == [phys |-> {"bus"}, bus |-> {"pdev"}]

CanDemoProbe == << Must({"net"}, <<>>), Must({"can"}, <<{"net"}>>) >>
SimpleCanProbe == << Must({"net"}, <<>>), Must({"can"}, <<{"net"}>>) >>
CanTouch == [can |-> {"net"}]

\* ndo_open and ndo_stop of the CAN demo: the second does nothing.
CanDemoOpen == << Must({"candev"}, <<>>), May({"wq"}) >>
CanDemoStop == << >>

\* With mcp251x_enable_dma off, its default.
McpProbe ==
  << Check(<<>>),                                  \* platform data
     Must({"net"}, <<>>),
     Must({"tx"}, <<{"net"}>>),
     Must({"rx"}, <<{"tx"}, {"net"}>>),
     Check(<<{"rx"}, {"tx"}, {"net"}>>),           \* mcp251x_hw_probe
     Must({"can"}, <<{"rx"}, {"tx"}, {"net"}>>) >>
McpRemove == << {"can"}, {"net"}, {"tx"}, {"rx"} >>
McpTouch == [tx |-> {"net"}, rx |-> {"net"}, can |-> {"net", "tx", "rx"}]

-----------------------------------------------------------------------------
(* The dummy serial driver with one port, the default of dummy_serial_nr.  *)
(* serial_dummy_probe reports success whatever create_manager_device does, *)
(* and the numbers are asked for only while dummy_serial_major is 0.       *)

TtyProbe ==
  LET Port(got, undo) == [get |-> got, undo |-> undo, end |-> {"bound"}] IN
  << Port({"dummy"}, <<>>),
     Port({"tx fifo", "rx fifo"}, <<{"dummy"}>>),
     Port({"port"}, <<{"rx fifo"}, {"tx fifo"}, {"dummy"}>>),
     Port({"numbers"}, <<{"port"}, {"rx fifo"}, {"tx fifo"}, {"dummy"}>>),
     May({"cdev"}),
     May({"node"}) >>
TtyRemove ==
  << {"node"}, {"cdev"}, {"port"}, {"rx fifo"}, {"tx fifo"}, {"dummy"},
     {"numbers"} >>
TtyTouch ==
  [port |-> {"dummy", "tx fifo", "rx fifo"},
   cdev |-> {"dummy", "tx fifo", "port", "numbers"}]

TtyInit ==
  << Check(<<>>), May({"pdev"}), May({"class"}), Must({"uart"}, <<>>),
     Must({"pdrv"}, <<{"pdev"}, {"uart"}>>) >>
TtyExit == << {"pdrv"}, {"uart"}, {"class"}, {"pdev"} >>

\* The result of misc_register is not looked at.
MiscInit == << May({"misc_demo"}) >>
MiscExit == << {"misc_demo"} >>

-----------------------------------------------------------------------------
(* The demo bus and its device with two resources. *)

BusInit ==
  << Must({"demo_bus"}, <<>>), Must({"demo_bus type"}, <<{"demo_bus"}>>) >>
DriverBusInit == BusInit
BaseBusInit == BusInit
BusBase == << Must({"demo_bus type"}, <<>>) >>     \* common/bus/base.c

BusDeviceAdd ==
  << Must({"io claim"}, <<>>),
     Must({"mem claim"}, <<{"io claim"}>>),
     Must({"demo_bus.3"}, <<{"mem claim"}, {"io claim"}>>) >>

\* Nobody looks at what demo_device_register returns.
BusDriverInit == << May({"demo_bus.3"}), Must({"demo_bus driver"}, <<>>) >>
BaseDeviceInit == << Must({"demo_device.3"}, <<>>) >>

-----------------------------------------------------------------------------
(* Usage of one service each. *)

\* clk_get is compared with NULL, but most kernels return an error pointer:
\* then the function goes on with it.
ClkInit ==
  LET Clock(c) == [get |-> {c}, undo |-> <<>>, end |-> {"out", "on"}] IN
  << Clock("pll1"), Clock("pll2"), Clock("cluster0"), Clock("cluster1"),
     Finally(<<{"pll1"}, {"pll2"}, {"cluster0"}, {"cluster1"}>>) >>

\* Unregistered again at once: without a release function the memory stays.
ADeviceInit ==
  << Must({"dev"}, <<>>),
     Must({"init_name"}, <<{"dev"}>>),
     Must({"BiscuitOS-dev"}, <<{"init_name"}, {"dev"}>>),
     Finally(<<{"BiscuitOS-dev"}>>) >>
ADeviceTouch == ("BiscuitOS-dev" :> {"dev", "init_name"})

DeviceBaseInit == << Must({"demo_dev"}, <<>>) >>
FilesystemInit == << Must({"demo-filesystem"}, <<>>) >>

-----------------------------------------------------------------------------
(* Directories.  debugfs_remove_recursive takes a directory down with all  *)
(* that is below it.                                                       *)

Root(got) == Must({got}, <<>>)

\* A debugfs directory with the given files, removed whole if one is refused.
Tree(files) ==
  << Root("debugfs demo") >> \o
  [i \in 1..Len(files) |->
     Must({files[i]}, << {"debugfs demo"} \cup {files[j] : j \in 1..(i - 1)} >>)]

DebugfsBase == Tree(<< "files" >>)
DebugfsArray == Tree(<< "array" >>)
DebugfsBool == Tree(<< "value_t", "bool" >>)
DebugfsUvalue == Tree(<< "u8", "u16", "u32", "u64" >>)
DebugfsXvalue == Tree(<< "x8", "x16", "x32", "x64" >>)

\* After out_drivers the function returns a variable that was never set.
DebugfsSubdir ==
  LET top == <<{"debugfs demo", "files"}>> IN
  Tree(<< "files" >>) \o
  << Must({"devices"}, top),
     Must({"drivers"}, <<{"devices"}>> \o top),
     [get |-> {"power"}, undo |-> <<{"drivers"}, {"devices"}>> \o top,
      end |-> {"out", "bound"}] >>
DebugfsTouch ==
  [f \in {"files", "array", "value_t", "bool", "u8", "u16", "u32", "u64",
          "x8", "x16", "x32", "x64", "devices", "drivers"} |-> {"debugfs demo"}]
  @@ [power |-> {"devices"}]

\* remove_proc_entry looks a name up below the directory it is given, and is
\* given the entry itself: it finds nothing.
ProcBase == << Root("proc demo") >>
ProcFile == << Root("proc demo"), Must({"node"}, <<{"demo/demo"}>>) >>
ProcSubdir ==
  << Root("proc demo"),
     Must({"devices"}, <<{"demo/demo"}>>),
     Must({"drivers"}, <<{"devices/devices"}, {"demo/demo"}>>),
     Must({"power"}, <<{"drivers/drivers"}, {"devices/devices"}, {"demo/demo"}>>) >>

KobjectBase == << May({"sys demo"}) >>
KobjectSubdir ==
  << Root("sys demo"),
     Must({"devices"}, <<{"sys demo"}>>),
     Must({"drivers"}, <<{"devices"}, {"sys demo"}>>),
     Must({"power"}, <<{"drivers"}, {"devices"}, {"sys demo"}>>) >>
KobjectTouch ==
  [devices |-> {"sys demo"}, drivers |-> {"sys demo"}, power |-> {"devices"}]
KsetBase == << Root("sys demo") >>
=============================================================================
