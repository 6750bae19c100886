------------------------------- MODULE VMConfig -------------------------------
(***************************************************************************)
(* Where the configuration of a VM comes from.  `ovm init` writes the      *)
(* compatibility file /tmp/vmcfg-*.json, one path for all sessions; `ovm   *)
(* start` builds a Config from defaults and flags, overwrites it from that *)
(* file if it can be loaded, normalises it and validates it.  The two      *)
(* commands are separate processes and the file is rewritten in place.     *)
(*                                                                         *)
(* A text field is modelled by the source its value came from; CPU count   *)
(* and memory by their numbers, since the limits are about them.           *)
(*                                                                         *)
(* pkg/librevm/config.go, pkg/librevm/vm.go, cmd/revm/init.go, start.go.   *)
(***************************************************************************)
EXTENDS Integers

CONSTANTS FlagFields,          \* text fields a user of `ovm start` may set
          FlagCPUs, FlagMems,  \* values of --cpus and --memory of `ovm start`
          InitCPUs, InitMems,  \* values of --cpus and --memory of `ovm init`
          HostCPUs, HostMem,   \* what NormalizeConfig detects
          MemLimit             \* 2^32, the range of libkrun's uint32_t

\* The fields OverwriteCfgFrom takes from the file, besides CPUs and MemoryMB.
FileFields == {"SessionID", "VarDisk", "ExternalDisks", "Mounts", "ForwardUnix",
               "PodmanProxyAPIFile", "ManageAPIFile", "SSHKeyPrivate",
               "SSHKeyPublic", "LogLevel", "LogTo"}

\* The fields only flags can set.
FlagOnlyFields == {"Network", "Proxy", "Env"}

TextFields == FileFields \cup FlagOnlyFields

ASSUME FlagFieldsAssumption == FlagFields \subseteq TextFields
ASSUME NumbersAssumption ==
    FlagCPUs \cup InitCPUs \subseteq Int /\ FlagMems \cup InitMems \subseteq Nat
ASSUME HostAssumption == HostCPUs \in Nat \ {0} /\ HostMem \in Nat
ASSUME MemLimitAssumption == MemLimit \in Nat /\ MemLimit > 512

VARIABLES
    vmcfg,     \* the file: absent, torn (truncated, half written) or a config
    initPC,    \* `ovm init`
    inited,    \* history: some `ovm init` has finished
    startPC,   \* `ovm start`
    cfg,       \* the Config under construction
    given,     \* history: the text fields that flags of this start set
    tornLoad   \* history: this start found a torn file

configVars == <<vmcfg, initPC, inited, startPC, cfg, given, tornLoad>>

Absent == [state |-> "absent"]
Torn == [state |-> "torn"]

\* The Config of generateOVMCfgAction: paths under the legacy workspace, always
\* set; CPUs, memory and mounts as given.  The forward rules are not written.
InitCfg(cpus, mem, mounts) ==
    [state |-> "whole", CPUs |-> cpus, MemoryMB |-> mem,
     text |-> [f \in FileFields |->
                 IF f = "ForwardUnix" \/ (f = "Mounts" /\ ~mounts)
                 THEN "unset" ELSE "file"]]

\* DefaultConfig and the With... chain: a flag that is given replaces the default.
FlagCfg(fields, cpus, mem) ==
    [CPUs |-> IF cpus > 0 THEN cpus ELSE 0,
     MemoryMB |-> mem,
     text |-> [f \in TextFields |->
                 IF f \in fields THEN "flag"
                 ELSE IF f \in {"VarDisk", "LogTo", "LogLevel", "Network", "Proxy"}
                      THEN "default" ELSE "unset"]]

\* OverwriteCfgFrom ignores the disk of the file.
OverwriteWithoutDisk(c, file) ==
    [c EXCEPT !.text = [f \in TextFields |->
                          IF f \in FileFields \ {"VarDisk"} /\ file.text[f] # "unset"
                          THEN file.text[f] ELSE @[f]]]

OverwriteCfgFrom(c, file) ==
    [c EXCEPT !.CPUs = IF file.CPUs > 0 THEN file.CPUs ELSE @,
              !.MemoryMB = IF file.MemoryMB > 0 THEN file.MemoryMB ELSE @,
              !.text = [f \in TextFields |->
                          IF f \in FileFields /\ file.text[f] # "unset"
                          THEN file.text[f] ELSE @[f]]]

NormalizeConfig(c) ==
    [c EXCEPT !.CPUs = IF @ <= 0 THEN HostCPUs ELSE @,
              !.MemoryMB = IF @ = 0 THEN HostMem ELSE @]

\* validateConfig forgets the limit of libkrun's uint8_t.
ValidateWithoutLimit(c) ==
    /\ c.text["SessionID"] # "unset"
    /\ c.MemoryMB >= 512
    /\ c.CPUs >= 1
    /\ c.text["VarDisk"] # "unset"

\* The run mode, and mount point and UUID of the var disk, are the same
\* constants wherever the configuration comes from; for the network see StartNew.
ValidateConfig(c) ==
    /\ c.text["SessionID"] # "unset"
    /\ c.MemoryMB >= 512
    /\ c.CPUs >= 1
    /\ c.CPUs <= 255
    /\ c.text["VarDisk"] # "unset"

\* withResources(cfg.MemoryMB, uint8(cfg.CPUs)), then C.uint8_t.
MachineCPUs(c) == c.CPUs % 256

\* C.uint32_t(MemoryInMB) of setResources; the configuration has 64 bits.
MachineMemory(c) == c.MemoryMB % MemLimit

-----------------------------------------------------------------------------

NoCfg == FlagCfg({}, 0, 0)

ConfigInit ==
    /\ vmcfg = Absent
    /\ initPC = [at |-> "idle"]
    /\ inited = FALSE
    /\ startPC = "idle"
    /\ cfg = NoCfg
    /\ given = {}
    /\ tornLoad = FALSE

\* WriteCfg: os.WriteFile truncates the file first ...
InitTruncate ==
    /\ initPC.at = "idle"
    /\ \E cpus \in InitCPUs, mem \in InitMems, mounts \in BOOLEAN :
          initPC' = [at |-> "write", cfg |-> InitCfg(cpus, mem, mounts)]
    /\ vmcfg' = Torn
    /\ UNCHANGED <<inited, startPC, cfg, given, tornLoad>>

\* ... and then writes the JSON text.
InitWrite ==
    /\ initPC.at = "write"
    /\ vmcfg' = initPC.cfg
    /\ initPC' = [at |-> "idle"]
    /\ inited' = TRUE
    /\ UNCHANGED <<startPC, cfg, given, tornLoad>>

\* The process dies, or the write fails, between the two.
InitDies ==
    /\ initPC.at = "write"
    /\ initPC' = [at |-> "idle"]
    /\ UNCHANGED <<vmcfg, inited, startPC, cfg, given, tornLoad>>

\* dockerLifeCycle up to LoadFile.
StartFlags ==
    /\ startPC = "idle"
    /\ \E fields \in SUBSET FlagFields, cpus \in FlagCPUs, mem \in FlagMems :
          /\ cfg' = FlagCfg(fields, cpus, mem)
          /\ given' = fields
    /\ startPC' = "flags"
    /\ tornLoad' = FALSE
    /\ UNCHANGED <<vmcfg, initPC, inited>>

\* LoadFile and OverwriteCfgFrom; a file that cannot be read or decoded is
\* passed over in silence.
StartLoad ==
    /\ startPC = "flags"
    /\ \/ /\ vmcfg.state = "whole"
          /\ cfg' = OverwriteCfgFrom(cfg, vmcfg)
          /\ UNCHANGED tornLoad
       \/ /\ vmcfg.state # "whole"
          /\ UNCHANGED cfg
          /\ tornLoad' = (vmcfg.state = "torn")
    /\ startPC' = "loaded"
    /\ UNCHANGED <<vmcfg, initPC, inited, given>>

\* New: NormalizeConfig, validateConfig, which also rejects a --network that is
\* neither gvisor nor tsi.
StartNew ==
    /\ startPC = "loaded"
    /\ cfg' = NormalizeConfig(cfg)
    /\ \/ startPC' = IF ValidateConfig(cfg') THEN "started" ELSE "rejected"
       \/ cfg.text["Network"] = "flag" /\ startPC' = "rejected"
    /\ UNCHANGED <<vmcfg, initPC, inited, given, tornLoad>>

StartEnds ==
    /\ startPC \in {"started", "rejected"}
    /\ startPC' = "idle"
    /\ cfg' = NoCfg
    /\ given' = {}
    /\ tornLoad' = FALSE
    /\ UNCHANGED <<vmcfg, initPC, inited>>

ConfigNext ==
    \/ InitTruncate \/ InitWrite \/ InitDies
    \/ StartFlags \/ StartLoad \/ StartNew \/ StartEnds

ConfigSpec == ConfigInit /\ [][ConfigNext]_configVars

-----------------------------------------------------------------------------

\* A machine that gets built has a session and what its configuration says
\* after the conversions of buildMachine and setResources, although `ovm init`
\* stores any integer: the number of CPUs, at least one, and the memory, at least
\* 512 MB, unless that is 2^32 MB or more, which validateConfig lets through and
\* setResources cuts off.
BuiltMachineValid ==
    startPC = "started" =>
        /\ cfg.text["SessionID"] # "unset"
        /\ MachineCPUs(cfg) = cfg.CPUs /\ MachineCPUs(cfg) >= 1
        /\ \/ MachineMemory(cfg) = cfg.MemoryMB /\ MachineMemory(cfg) >= 512
           \/ cfg.MemoryMB >= MemLimit

\* The disk mounted at /var belongs to the session whose lock guards it: the
\* default disk lies in the directory of the --id flag, so a session that took
\* its name from the file took its disk from there too.
VarDiskUnderSessionLock ==
    startPC \in {"loaded", "started"} /\ cfg.text["SessionID"] = "file"
        => cfg.text["VarDisk"] # "default"

\* Once an `ovm init` has finished, a later start runs on the disk it named,
\* unless the file was being rewritten, or a rewrite had died, when the start
\* read it.
InitDiskUsedUnlessTorn ==
    [][startPC = "flags" /\ startPC' = "loaded" /\ inited /\ ~tornLoad'
          => cfg'.text["VarDisk"] = "file"]_configVars

\* docs/oomol-studio.md, section 4: the file is loaded first and the flags of
\* `ovm start` are applied over it.
FlagsOverrideFile ==
    startPC \in {"loaded", "started"} =>
        \A f \in given : cfg.text[f] = "flag"

=============================================================================
