-------------------------------- MODULE Tap --------------------------------
(***************************************************************************)
(* linux_tap/NetworkInterface.c: who reads the TAP device. The shim connects *)
(* the interface once; a monitor thread hears of the link from the kernel    *)
(* and has reader threads started when it comes up and told to leave, by a   *)
(* byte in their pipe, when it goes down. The pipe a reader polls is the one *)
(* in xTapReadTreadParams when it begins to run. The descriptors are not     *)
(* non-blocking (O_NONBLOCK is given to F_SETFD): a reader that was beaten   *)
(* to a frame stays in read().                                              *)
(***************************************************************************)
EXTENDS Naturals, Sequences

CONSTANTS
    Readers,  \* slots for reader threads, a bound of the model
    Pipes,    \* what pipe() returns; a pipe nobody refers to is used again
    NoPipe,   \* nTapThreadFD = -1
    MaxNews   \* messages of the kernel that wait, a bound of the model

ASSUME TapAssumption == NoPipe \notin Pipes /\ MaxNews \in Nat

VARIABLES
    up,        \* the link, as the kernel knows it
    news,      \* messages in the netlink socket: the link came up or went down
    frame,     \* a frame waits in the device
    flags,     \* IFF_UP in nCurrentIffFlags
    connected, \* xIsInterfaceConnected
    caller,    \* where the thread that initialises and connects is
    monitor,   \* where the monitor thread is
    current,   \* the pipe of nTapThreadFD and xTapReadTreadParams
    reader,    \* where the reader threads are
    pipe,      \* the pipe each reader polls
    told,      \* the pipes with a byte in them
    unhandled  \* history: something happened that the code does not deal with

kernel   == <<up, news, frame>>
readVars == <<current, reader, pipe, told>>
vars == <<kernel, flags, connected, caller, monitor, readVars, unhandled>>

TapInit ==
    /\ up \in BOOLEAN /\ news = <<>> /\ frame = FALSE
    /\ flags = FALSE /\ connected = FALSE
    /\ caller = "init" /\ monitor = "off"
    /\ current = NoPipe
    /\ reader = [r \in Readers |-> "off"]
    /\ pipe = [r \in Readers |-> NoPipe]
    /\ told = {}
    /\ unhandled = FALSE

Unhandled(b) == unhandled' = (unhandled \/ b)
-----------------------------------------------------------------------------
(* The kernel: a change between the query of the flags and the bind of the   *)
(* socket is heard of by nobody.                                            *)
LinkChange ==
    /\ Len(news) < MaxNews
    /\ up' = ~up
    /\ news' = IF monitor \in {"off", "starts"} THEN news ELSE Append(news, ~up)
    /\ Unhandled(monitor = "starts")
    /\ UNCHANGED <<frame, flags, connected, caller, monitor, readVars>>

FrameArrives ==
    /\ up /\ ~frame
    /\ frame' = TRUE
    /\ UNCHANGED <<up, news, flags, connected, caller, monitor, readVars, unhandled>>
-----------------------------------------------------------------------------
(* prvLinuxTapStartReadThread: a new pipe,                                   *)
NewPipe ==
    \E p \in Pipes \ ({current} \cup {pipe[s] : s \in Readers}) :
       /\ current' = p
       /\ told' = told \ {p}

(* and a thread that will look for it in the parameters.                     *)
prvLinuxTapStartReadThread ==
    /\ NewPipe
    /\ \E r \in Readers : /\ reader[r] = "off"
                          /\ reader' = [reader EXCEPT ![r] = "begins"]
    /\ UNCHANGED pipe

(* No pipe, or no thread: IFUp does not look at the result, Connect gives up. *)
StartFails ==
    /\ NewPipe \/ UNCHANGED <<current, told>>
    /\ UNCHANGED <<reader, pipe>>
    /\ unhandled' = TRUE

(* xNetworkInterfaceInitialise: the flags, or zero if they cannot be had, and *)
(* the monitor thread,                                                      *)
xNetworkInterfaceInitialise ==
    /\ caller = "init"
    /\ caller' = "check" /\ monitor' = "starts"
    /\ flags' \in {up, FALSE} /\ Unhandled(flags' # up)
    /\ UNCHANGED <<kernel, connected, readVars>>

(* which binds its socket.                                                   *)
MonitorBinds ==
    /\ monitor = "starts"
    /\ monitor' = "listens"
    /\ UNCHANGED <<kernel, flags, connected, caller, readVars, unhandled>>

(* xNetworkInterfaceConnect: prvLinuxTapCheckFlags,                          *)
ConnectChecks ==
    /\ caller = "check"
    /\ caller' = IF flags THEN "start" ELSE "set"
    /\ Unhandled(monitor \in {"up", "down"})
    /\ UNCHANGED <<kernel, flags, connected, monitor, readVars>>

(* the thread,                                                              *)
ConnectStarts ==
    /\ caller = "start"
    /\ \/ prvLinuxTapStartReadThread /\ caller' = "set" /\ UNCHANGED unhandled
       \/ StartFails /\ caller' = "failed"
    /\ UNCHANGED <<kernel, flags, connected, monitor>>

(* and only then the flag the monitor looks at.                              *)
ConnectSets ==
    /\ caller = "set"
    /\ connected' = TRUE /\ caller' = "on"
    /\ UNCHANGED <<kernel, flags, monitor, readVars, unhandled>>

(* xNetworkInterfaceDisconnect leaves the reader where it is.                *)
xNetworkInterfaceDisconnect ==
    /\ caller = "on"
    /\ connected' = FALSE /\ caller' = "off"
    /\ UNCHANGED <<kernel, flags, monitor, readVars, unhandled>>
-----------------------------------------------------------------------------
(* A link that changes while the interface is being connected is missed.     *)
Connecting == caller \in {"start", "set"}

(* Fault: the transition is looked for after the flags were saved. *)
ParseSavedFirst ==
    /\ monitor = "listens" /\ news # <<>>
    /\ news' = Tail(news) /\ flags' = Head(news)
    /\ UNCHANGED <<up, frame, connected, caller, monitor, readVars, unhandled>>

(* prvLinuxTapParseNewLinkMsg: the flags are saved and compared under the    *)
(* lock; what follows is done without it.                                   *)
prvLinuxTapParseNewLinkMsg ==
    /\ monitor = "listens" /\ news # <<>>
    /\ news' = Tail(news)
    /\ flags' = Head(news)
    /\ monitor' = CASE Head(news) /\ ~flags -> "up"
                    [] ~Head(news) /\ flags -> "down"
                    [] OTHER                -> "listens"
    /\ Unhandled(Connecting)
    /\ UNCHANGED <<up, frame, connected, caller, readVars>>

vNetworkNotifyIFUp ==
    /\ monitor = "up"
    /\ monitor' = "listens"
    /\ \/ ~connected /\ UNCHANGED readVars /\ Unhandled(Connecting)
       \/ connected /\ prvLinuxTapStartReadThread /\ UNCHANGED unhandled
       \/ connected /\ StartFails
    /\ UNCHANGED <<kernel, flags, connected, caller>>

(* Fault: nobody is woken up. *)
NotifyNobody ==
    /\ monitor = "down"
    /\ monitor' = "listens"
    /\ UNCHANGED <<kernel, flags, connected, caller, readVars, unhandled>>

vNetworkNotifyIFDown ==
    /\ monitor = "down"
    /\ monitor' = "listens"
    /\ told' = IF connected THEN told \cup {current} ELSE told
    /\ Unhandled(~connected /\ Connecting)
    /\ UNCHANGED <<kernel, flags, connected, caller, current, reader, pipe>>

(* recv fails, for one when messages were lost: the monitor ends.            *)
MonitorFails ==
    /\ monitor \in {"starts", "listens"}
    /\ monitor' = "ended"
    /\ unhandled' = TRUE
    /\ UNCHANGED <<kernel, flags, connected, caller, readVars>>
-----------------------------------------------------------------------------
Moves(r, label) == reader' = [reader EXCEPT ![r] = label]

(* prvLinuxTapReadThread *)
ReadBegins(r) ==
    /\ reader[r] = "begins"
    /\ Moves(r, "poll") /\ pipe' = [pipe EXCEPT ![r] = current]
    /\ UNCHANGED <<kernel, flags, connected, caller, monitor, current, told, unhandled>>

PollSeesFrame(r) ==
    /\ reader[r] = "poll" /\ frame
    /\ Moves(r, "read")
    /\ UNCHANGED <<kernel, flags, connected, caller, monitor, current, pipe, told, unhandled>>

Read(r) ==
    /\ reader[r] = "read" /\ frame
    /\ frame' = FALSE
    /\ Moves(r, "poll")
    /\ UNCHANGED <<up, news, flags, connected, caller, monitor, current, pipe, told, unhandled>>

(* The frame comes before the pipe. *)
PollSeesByte(r) ==
    /\ reader[r] = "poll" /\ ~frame /\ pipe[r] \in told
    /\ Moves(r, "off") /\ pipe' = [pipe EXCEPT ![r] = NoPipe]
    /\ UNCHANGED <<kernel, flags, connected, caller, monitor, current, told, unhandled>>

(* An error of poll or read. *)
ReadFails(r) ==
    /\ reader[r] \in {"poll", "read"}
    /\ Moves(r, "off") /\ pipe' = [pipe EXCEPT ![r] = NoPipe]
    /\ unhandled' = TRUE
    /\ UNCHANGED <<kernel, flags, connected, caller, monitor, current, told>>
-----------------------------------------------------------------------------
Kernel  == LinkChange \/ FrameArrives
Caller  == xNetworkInterfaceInitialise \/ ConnectChecks \/ ConnectStarts \/ ConnectSets
Monitor == MonitorBinds \/ prvLinuxTapParseNewLinkMsg \/ vNetworkNotifyIFUp
             \/ vNetworkNotifyIFDown
Reader(r) == ReadBegins(r) \/ PollSeesFrame(r) \/ Read(r) \/ PollSeesByte(r)
Failure == MonitorFails \/ \E r \in Readers : ReadFails(r)
TapNext == Kernel \/ Caller \/ xNetworkInterfaceDisconnect \/ Monitor \/ Failure
          \/ \E r \in Readers : Reader(r)

TapSpec == TapInit /\ [][TapNext]_vars

(* The threads run; the link, the frames and the failures come as they like. *)
TapFairSpec == /\ TapSpec
            /\ WF_vars(Caller) /\ WF_vars(Monitor)
            /\ \A r \in Readers : WF_vars(Reader(r))
-----------------------------------------------------------------------------
TapTypeOK ==
    /\ up \in BOOLEAN /\ news \in Seq(BOOLEAN) /\ Len(news) <= MaxNews
    /\ frame \in BOOLEAN /\ flags \in BOOLEAN /\ connected \in BOOLEAN
    /\ caller \in {"init", "check", "start", "set", "on", "off", "failed"}
    /\ monitor \in {"off", "starts", "listens", "up", "down", "ended"}
    /\ current \in Pipes \cup {NoPipe}
    /\ reader \in [Readers -> {"off", "begins", "poll", "read"}]
    /\ pipe \in [Readers -> Pipes \cup {NoPipe}]
    /\ told \subseteq Pipes \cup {NoPipe}
    /\ unhandled \in BOOLEAN

(* A reader can always be told to leave: the pipe it polls is the one the    *)
(* next vNetworkNotifyIFDown writes to, or already has its byte, also when   *)
(* the link went down and up again before the reader looked at its           *)
(* parameters, so that no reader stays when its link is gone.               *)
NoReaderLeftBehind ==
    ~unhandled => \A r \in Readers :
        reader[r] \in {"poll", "read"} => pipe[r] \in told \cup {current}

(* What arrives on a connected interface is read, however often the link     *)
(* went down before it stays up: "The management functions will deal with    *)
(* restarting the thread" (NetworkInterface.c:270).                          *)
FramesAreRead ==
    <>[](up /\ caller = "on") => []<>~frame \/ <>unhandled
=============================================================================
