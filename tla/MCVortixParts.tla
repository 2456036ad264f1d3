---------------------------- MODULE MCVortixParts ----------------------------
(* The parts of vortix that have a machine of their own and share no state   *)
(* in the code's hot paths, each on a small instance: a behaviour works on   *)
(* one of them, the focus, and leaves the others at rest.                    *)
EXTENDS Catalogue, TunnelRegistry, ProfileStore, ProtocolDrivers, Telemetry,
        Journal, CidrSets, CommandRunner, Screen, Scanner, Dashboard

VARIABLE focus

vars == <<focus, catVars, regVars, storeVars, driverVars, teleVars, journalVars,
          cidrVars, runnerVars, screenVars, scanVars>>

TwoKinds   == {<<"conf", FALSE>>, <<"ovpn", TRUE>>}
Substrings == {<<"corp", "corp">>, <<"corp-eu", "corp-eu">>, <<"corp", "corp-eu">>}
TwoRoutes  == {{"v4"}, {"v4", "v6"}}
OldDirectories == {{}, {<<1, "conf">>, <<1, "ovpn">>, <<2, "conf">>}}
PrivateRanges ==            \* RFC 1918 in four bits, and the whole address space
    {<<[addr |-> 4, len |-> 2], [addr |-> 10, len |-> 3], [addr |-> 13, len |-> 4]>>,
     <<[addr |-> 0, len |-> 0]>>, <<>>}
HelpLengths == [tab \in {"Keys", "Roles", "Sigils", "Guard"} |-> IF tab = "Keys" THEN 3 ELSE 1]
CatalogueOrder == <<"a", "w">>

-----------------------------------------------------------------------------
(* Parts at rest: one state each                                             *)

CatOff ==
    /\ list = <<>> /\ order = 1 /\ sel = 0 /\ dialog = NoDialog /\ queue = 0
    /\ tunnel = [n \in Names |-> "down"] /\ retry = [n \in Names |-> NoEntry]
    /\ timers = {} /\ downloads = 0 /\ disk = {} /\ meta = Saved(<<>>) /\ auth = {}
    /\ born = 0 /\ uses = 0 /\ steps = 0 /\ ran = {} /\ late = FALSE
StoreOff   == StoreInit /\ cfgs = {}
TeleOff    == TeleInit /\ kernel = "down" /\ claims = {"v4"}
JournalOff == JournalInit /\ recent = <<>>
CidrOff    == CidrInit /\ base = <<>>
ScreenOff  == ScreenInit /\ ui.profiles = 0 /\ ui.rows = CHOOSE h \in Heights : TRUE

On(part, init, off) == IF focus = part THEN init ELSE off

PartsInit ==
    /\ focus \in {"catalogue", "registry", "store", "drivers", "telemetry",
                  "journal", "cidr", "runner", "screen", "scanner", "dashboard"}
    /\ On("catalogue", CatInit, CatOff)
    /\ RegInit
    /\ On("store", StoreInit, StoreOff)
    /\ DriverInit
    /\ On("telemetry", TeleInit, TeleOff)
    /\ On("journal", JournalInit, JournalOff)
    /\ On("cidr", CidrInit, CidrOff)
    /\ RunnerInit
    /\ On("screen", ScreenInit, ScreenOff)
    /\ ScannerInit

CatalogueStep == focus = "catalogue" /\ CatNext
    /\ UNCHANGED <<focus, regVars, storeVars, driverVars, teleVars, journalVars,
                   cidrVars, runnerVars, screenVars, scanVars>>
RegistryStep == focus = "registry" /\ RegNext
    /\ UNCHANGED <<focus, catVars, storeVars, driverVars, teleVars, journalVars,
                   cidrVars, runnerVars, screenVars, scanVars>>
StoreStep == focus = "store" /\ StoreNext
    /\ UNCHANGED <<focus, catVars, regVars, driverVars, teleVars, journalVars,
                   cidrVars, runnerVars, screenVars, scanVars>>
DriversStep == focus = "drivers" /\ DriverNext
    /\ UNCHANGED <<focus, catVars, regVars, storeVars, teleVars, journalVars,
                   cidrVars, runnerVars, screenVars, scanVars>>
TelemetryStep == focus = "telemetry" /\ TeleNext
    /\ UNCHANGED <<focus, catVars, regVars, storeVars, driverVars, journalVars,
                   cidrVars, runnerVars, screenVars, scanVars>>
JournalStep == focus = "journal" /\ JournalNext
    /\ UNCHANGED <<focus, catVars, regVars, storeVars, driverVars, teleVars,
                   cidrVars, runnerVars, screenVars, scanVars>>
CidrStep == focus = "cidr" /\ Declare
    /\ UNCHANGED <<focus, catVars, regVars, storeVars, driverVars, teleVars,
                   journalVars, runnerVars, screenVars, scanVars>>
RunnerStep == focus = "runner" /\ RunnerNext
    /\ UNCHANGED <<focus, catVars, regVars, storeVars, driverVars, teleVars,
                   journalVars, cidrVars, screenVars, scanVars>>
ScreenStep == focus = "screen" /\ ScreenNext
    /\ UNCHANGED <<focus, catVars, regVars, storeVars, driverVars, teleVars,
                   journalVars, cidrVars, runnerVars, scanVars>>
ScannerStep == focus = "scanner" /\ ScannerNext
    /\ UNCHANGED <<focus, catVars, regVars, storeVars, driverVars, teleVars,
                   journalVars, cidrVars, runnerVars, screenVars>>
DashboardStep == focus = "dashboard" /\ DashboardNext
    /\ UNCHANGED <<focus, catVars, storeVars, driverVars, teleVars, journalVars,
                   cidrVars, runnerVars, screenVars, scanVars>>
PartsNext ==
    \/ CatalogueStep \/ RegistryStep \/ StoreStep \/ DriversStep
    \/ TelemetryStep \/ JournalStep \/ CidrStep \/ RunnerStep
    \/ ScreenStep \/ ScannerStep \/ DashboardStep

PartsSpec == PartsInit /\ [][PartsNext]_vars

-----------------------------------------------------------------------------
\* Every variable of the part at work keeps its type.
PartsTypeOK ==
    /\ focus = "catalogue" => CatTypeOK
    /\ focus = "registry" => RegTypeOK
    /\ focus = "store" => StoreTypeOK
    /\ focus = "drivers" => DriverTypeOK
    /\ focus = "telemetry" => TeleTypeOK
    /\ focus = "journal" => JournalTypeOK
    /\ focus = "cidr" => CidrTypeOK
    /\ focus = "runner" => RunnerTypeOK
    /\ focus = "screen" => ScreenTypeOK
    /\ focus = "scanner" => ScannerTypeOK

\* The dashboard draws what the App does to the registry.
DashboardAgrees == focus = "dashboard" => PanelsAgree

=============================================================================
