----------------------------- MODULE VolumeInit -----------------------------
(***************************************************************************)
(* The preparation of a raw data volume.  The Agent probes the device,     *)
(* formats it if it finds nothing there and the Manager allows it, checks, *)
(* mounts and confirms it.  The Manager keeps what it allowed in the       *)
(* resource.  The Agent may die anywhere, formatting may end half way, a   *)
(* call may be served after its caller is gone, and a device full of data  *)
(* may look empty.                                                         *)
(*                                                                         *)
(* That a Pod starts only when the processes of the one before are gone is *)
(* OneWriter of Codespace.                                                 *)
(***************************************************************************)
EXTENDS Naturals

CONSTANTS
    LastVersion,   \* bound: operation versions are 1 .. LastVersion
    MaxFaults      \* bound on what goes wrong

ASSUME VolumeInitConstants == LastVersion \in Nat \ {0} /\ MaxFaults \in Nat

Versions == 1 .. LastVersion

VARIABLES
    op,       \* the operation of the resource: version and type
    open,     \* "lease": Remaining > 0; "recovery": RecoveryAction # ""; "disabled" site
    pod,      \* Status.Pod: the version it was started for; 0 if none
    init,     \* Status.VolumeInitialization; "unset" if empty
    device,   \* what is on the volume
    data,     \* whether the user has written to it
    agent,    \* where MountDataVolume is
    calls,    \* PrepareVolume calls being served, Initialized or not
    formats,  \* number of times mkfs was started
    faults

manager == <<op, open, pod>>
volume  == <<device, data>>
vars    == <<manager, init, volume, agent, calls, formats, faults>>

Devices == {"blank", "other", "ext4", "torn", "damaged"}
Phases  == {"down", "probe", "ask", "format", "formatting", "check", "confirm",
            "mounted"}
Calls   == [pod : Versions, asks : {"format", "confirm"}, read : {0} \cup Versions,
            caller : {"waiting", "gone"}]

\* Every variable has its type.
TypeOK ==
    /\ op \in [version : Versions, type : {"create", "resume", "stop"}]
    /\ open \in SUBSET {"lease", "recovery", "disabled"}
    /\ pod \in 0 .. LastVersion
    /\ init \in {"unset", "started", "ready"} /\ device \in Devices /\ data \in {"none", "user"}
    /\ agent \in Phases /\ calls \in SUBSET Calls
    /\ formats \in Nat /\ faults \in 0 .. MaxFaults

\* A new volume is usually blank, but storage may be recycled.
Init ==
    /\ op = [version |-> 1, type |-> "create"]
    /\ open = {"lease"}
    /\ pod = 0 /\ init = "unset" /\ device \in {"blank", "other", "ext4"} /\ data = "none"
    /\ agent = "down" /\ calls = {} /\ formats = 0 /\ faults = 0

Fault == faults < MaxFaults /\ faults' = faults + 1

\* The Agent is gone; its calls may still be served.  Alike ones count as one.
Abandoned == {[c EXCEPT !.caller = "gone"] : c \in calls}

(***************************************************************************)
(* The Manager around it, as far as PrepareVolume asks.                    *)
(***************************************************************************)
Starting == op.type \in {"create", "resume"}

StartPod ==
    /\ Starting /\ pod = 0 /\ agent = "down" /\ "recovery" \notin open
    /\ pod' = op.version
    /\ UNCHANGED <<op, open, init, volume, agent, calls, formats, faults>>

\* A start is followed by a stop or an abort, and that by a resume unless there
\* was nothing but an unsuccessful create.
NextOperation ==
    /\ op.version < LastVersion
    /\ \/ /\ op.type = "stop" /\ pod = 0 /\ init = "ready"
          /\ op' = [version |-> op.version + 1, type |-> "resume"]
       \/ Starting /\ op' = [version |-> op.version + 1, type |-> "stop"]
    /\ open' = open \cup {"lease"}
    /\ UNCHANGED <<pod, init, volume, agent, calls, formats, faults>>

\* The processes of a stopped runtime end.  mkfs may be among them.
Left == IF agent = "formatting" THEN {"blank", "torn"} ELSE {device}

StopPod ==
    /\ op.type = "stop" \/ "recovery" \in open
    /\ pod # 0 /\ pod' = 0
    /\ agent' = "down" /\ calls' = Abandoned /\ device' \in Left
    /\ UNCHANGED <<op, open, init, data, formats, faults>>

\* The lease ends or is renewed, an administrator stops the runtime or disables
\* the site.
Authority ==
    /\ \/ "lease" \in open /\ open' = open \ {"lease"}
       \/ \E x \in {"lease", "recovery", "disabled"} \ open : open' = open \cup {x}
    /\ Fault
    /\ UNCHANGED <<op, pod, init, volume, agent, calls, formats>>

(***************************************************************************)
(* MountDataVolume.                                                        *)
(***************************************************************************)
StartAgent ==
    /\ pod # 0 /\ agent = "down" /\ agent' = "probe"
    /\ UNCHANGED <<manager, init, volume, calls, formats, faults>>

\* What blkid says: type, nothing ("none"), or an error.
ProbeResults ==
    CASE device = "blank"   -> {"none"}
      [] device = "torn"    -> {"none", "ext4"}
      [] device = "damaged" -> {"none", "error"}
      [] OTHER              -> {device}

Call(asks) ==
    calls \cup {[pod |-> pod, asks |-> asks, read |-> 0, caller |-> "waiting"]}

\* An empty device is formatted without asking.
ProbeUnasked ==
    /\ agent = "probe"
    /\ \E t \in ProbeResults :
         agent' = CASE t = "none" -> "format" [] t = "ext4" -> "check" [] OTHER -> "down"
    /\ UNCHANGED <<manager, init, volume, calls, formats, faults>>
Probe ==
    /\ agent = "probe"
    /\ \E t \in ProbeResults :
         \/ t = "none" /\ agent' = "ask" /\ calls' = Call("format")
         \/ t = "ext4" /\ agent' = "check" /\ UNCHANGED calls
         \/ t \in {"other", "error"} /\ agent' = "down" /\ UNCHANGED calls
    /\ UNCHANGED <<manager, init, volume, formats, faults>>

BeginFormat ==
    /\ agent = "format" /\ agent' = "formatting" /\ formats' = formats + 1
    /\ device' = "torn" /\ data' = "none"
    /\ UNCHANGED <<manager, init, calls, faults>>

EndFormat ==
    /\ agent = "formatting" /\ agent' = "check" /\ device' = "ext4"
    /\ UNCHANGED <<manager, init, data, calls, formats, faults>>

\* e2fsck and mount.
Check ==
    /\ agent = "check"
    /\ \/ device \in {"ext4", "torn"} /\ device' = "ext4"
          /\ agent' = "confirm" /\ calls' = Call("confirm")
       \/ device # "ext4" /\ agent' = "down" /\ UNCHANGED <<device, calls>>
    /\ UNCHANGED <<manager, init, data, formats, faults>>

\* What runs on a mounted volume: the journal, the repository, the user.
Use ==
    /\ agent = "mounted" /\ data = "none" /\ data' = "user"
    /\ UNCHANGED <<manager, init, device, agent, calls, formats, faults>>

\* The Agent dies, gives up waiting, or a command of it fails; the container is
\* started again.
Exit ==
    /\ agent # "down" /\ agent' = "down" /\ calls' = Abandoned /\ device' \in Left
    /\ Fault
    /\ UNCHANGED <<manager, init, data, formats>>

\* A device in use is no longer recognised as one with a file system.
Damage ==
    /\ data = "user" /\ device = "ext4" /\ agent = "down" /\ device' = "damaged" /\ Fault
    /\ UNCHANGED <<manager, init, data, agent, calls, formats>>

(***************************************************************************)
(* PrepareVolume: the reads, and then the guarded status update.           *)
(***************************************************************************)
\* The reply, if its caller still waits for it.
Answer(c, ok) ==
    /\ calls' = calls \ {c}
    /\ agent' = IF c.caller = "gone" THEN agent
                ELSE IF ~ok THEN "down"
                ELSE IF c.asks = "confirm" THEN "mounted" ELSE "format"

\* ResolveAgent: the certificate names the Pod of the resource.
Resolved(c) == pod = c.pod

CurrentCreate(c) == Resolved(c) /\ op.type = "create" /\ "lease" \in open /\ "recovery" \notin open
Current(c) == Resolved(c) /\ Starting /\ "lease" \in open /\ "recovery" \notin open

ReadResource(c) ==
    /\ c.read = 0
    /\ IF Current(c) /\ "disabled" \notin open
       THEN calls' = (calls \ {c}) \cup {[c EXCEPT !.read = op.version]} /\ UNCHANGED agent
       ELSE Answer(c, FALSE)
    /\ UNCHANGED <<manager, init, volume, formats, faults>>

\* What may be formatted: the volume of a create that nobody began to format.
FirstFormat == op.type = "create" /\ init = "unset"

UpdateStatus(c) ==
    /\ c.read # 0
    /\ LET ok == Current(c) /\ op.version = c.read /\ (c.asks = "confirm" \/ FirstFormat) IN
       /\ init' = IF ~ok THEN init ELSE IF c.asks = "confirm" THEN "ready" ELSE "started"
       /\ Answer(c, ok)
    /\ UNCHANGED <<manager, volume, formats, faults>>

Next ==
    \/ StartPod \/ NextOperation \/ StopPod \/ Authority
    \/ StartAgent \/ Probe \/ BeginFormat \/ EndFormat \/ Check \/ Use
    \/ Exit \/ Damage
    \/ \E c \in calls : ReadResource(c) \/ UpdateStatus(c)

Spec == Init /\ [][Next]_vars

\* The container is restarted, the Agent's statements follow each other, and the
\* Manager serves calls.
FairSpec ==
    /\ Spec
    /\ WF_vars(StartPod) /\ WF_vars(StopPod) /\ WF_vars(StartAgent)
    /\ WF_vars(Probe) /\ WF_vars(BeginFormat) /\ WF_vars(EndFormat) /\ WF_vars(Check)
    /\ WF_vars(\E c \in calls : ReadResource(c) \/ UpdateStatus(c))

-----------------------------------------------------------------------------
\* PrepareVolume: whatever is lost, repeated or restarted, mkfs is started at
\* most once, and never before the resource says so.
FormattedOnce == formats <= 1 /\ (formats = 1 => init # "unset")

\* MountDataVolume: a volume with the user's data is never formatted, not even
\* when its device looks empty.
DataNeverFormatted == [][data = "user" => data' = "user" /\ device' # "torn"]_vars

\* MountDataVolume: the volume is in use only when it has been confirmed, and
\* only a volume with a complete file system is confirmed.
UsedWhenReady ==
    /\ agent = "mounted" => device = "ext4"
    /\ data = "user" => init = "ready"
    /\ init = "ready" => device \in {"ext4", "damaged"}

\* What FormattedOnce, UsedWhenReady and DataNeverFormatted rest on: a permission
\* to format is used up when it is saved, an outstanding call agrees with what its
\* caller does, and a confirmation is under way only for a complete file system.
Prepared ==
    /\ formats <= 1
    /\ init = "unset" => formats = 0 /\ data = "none" /\ device # "torn"
    /\ init = "ready" => device \in {"ext4", "damaged"}
    /\ data = "user" => init = "ready"
    /\ device = "damaged" => init = "ready"
    /\ agent = "format" => formats = 0
    /\ agent \in {"format", "formatting"} => init = "started" /\ device \in {"blank", "torn"}
    /\ agent = "ask" => device \in {"blank", "torn", "damaged"}
    /\ agent \in {"confirm", "mounted"} => device = "ext4"
    /\ agent = "mounted" => init = "ready"
    /\ agent # "down" => pod # 0
    /\ \A c \in calls :
         /\ c.asks = "confirm" => device \in {"ext4", "damaged"}
         /\ c.caller = "waiting" => agent = IF c.asks = "confirm" THEN "confirm" ELSE "ask"
         /\ \A d \in calls : c.caller = "waiting" /\ d.caller = "waiting" => c = d

\* The Agent of a start that stays current and permitted comes to use its volume;
\* otherwise the device is one that only an administrator may release: something
\* unknown, or one whose only format was begun or allowed and did not complete.
Mounted ==
    <>[](\/ agent = "mounted"
         \/ ~Starting \/ "lease" \notin open \/ "recovery" \in open \/ "disabled" \in open
         \/ device \in {"other", "damaged"}
         \/ init = "started" /\ device \in {"blank", "torn"})
=============================================================================
