----------------------------- MODULE MCProgress -----------------------------
(***************************************************************************)
(* What must eventually happen, in the components that wait for somebody   *)
(* else: the outbox for its peer, a process handle for a child, a model    *)
(* call for a provider, the Hub connection and a remote call for the Hub.  *)
(* A behaviour is that of one of them (part); the others have ended or     *)
(* never begun, in a state where no action they are fair to is enabled.    *)
(***************************************************************************)
EXTENDS EventOutbox, ProcessHandle, ModelExchange, IoClient, RemoteCall

VARIABLE part

OutboxGone ==
    /\ queue = <<>> /\ inFlight = FALSE /\ used = 0 /\ count = [k \in Kinds |-> 0]
    /\ sequence = 0 /\ omitted = 0 /\ unreported = 0 /\ paused = FALSE /\ closed = TRUE
    /\ sender = "done" /\ wire = <<>> /\ client = "down" /\ overflowed = FALSE
    /\ host = "gone" /\ extra = FALSE /\ storageFailed = FALSE /\ windowErrors = 0
    /\ stopping = FALSE /\ refused = FALSE

RunReturned ==
    /\ ioRun = "returned" /\ ioReader = "off" /\ ioWriter = "off"
    /\ ioResults = <<>> /\ ioAborted = {} /\ ioOutgoing = 0
    /\ ioStopping = FALSE /\ ioStopPosted = FALSE /\ ioClosed = TRUE
    /\ ioQueue = [q \in Queues |-> 0] /\ ioWorker = [w \in IoWorkers |-> "done"]
    /\ ioFailure = FALSE /\ ioConnects = 0 /\ ioSeen = [q \in Queues |-> 0]
    /\ ioServed = [q \in Queues |-> 0] /\ ioUnreported = 0 /\ ioFault = FALSE

CallReturned ==
    /\ rcUse = "read" /\ rcPc = "returned" /\ rcTimer = "done" /\ rcActive = FALSE
    /\ rcExpired = FALSE /\ rcStop = FALSE /\ rcAborted = FALSE
    /\ rcFailure = "none" /\ rcSent = FALSE /\ rcArrived = FALSE /\ rcReply = "none"
    /\ rcCarried = 0 /\ rcAttempt = 0 /\ rcSaid = "none"

ProgressInit ==
    /\ part \in {"outbox", "handle", "exchange", "connection", "remote"}
    /\ IF part = "outbox" THEN Init ELSE OutboxGone
    /\ HandleInit /\ (part # "handle" => tty)
    /\ MxInit /\ (part # "exchange" => mxDriver = "sse")
    /\ IF part = "connection" THEN IoInit ELSE RunReturned
    /\ IF part = "remote" THEN RcInit ELSE CallReturned

Others(p) ==
    /\ UNCHANGED part
    /\ p # "outbox" => UNCHANGED vars
    /\ p # "handle" => UNCHANGED handleVars
    /\ p # "exchange" => UNCHANGED mxVars
    /\ p # "connection" => UNCHANGED ioVars
    /\ p # "remote" => UNCHANGED rcVars

ProgressNext ==
    \/ part = "outbox" /\ Next /\ Others("outbox")
    \/ part = "handle" /\ HandleNext /\ Others("handle")
    \/ part = "exchange" /\ MxNext /\ Others("exchange")
    \/ part = "connection" /\ IoNext /\ Others("connection")
    \/ part = "remote" /\ RcNext /\ Others("remote")

ProgressVars == <<part, vars, handleVars, mxVars, ioVars, rcVars>>
ProgressSpec ==
    /\ ProgressInit /\ [][ProgressNext]_ProgressVars
    /\ StrandFairness /\ HandleFairness /\ MxFairness /\ IoFairness /\ RcFairness

-----------------------------------------------------------------------------
(* Properties. *)

\* The backlog drains for a waiting request if the peer reads, and a shutdown ends
\* whether or not it does (EventOutbox).
OutboxProgress == AdmissionProgress /\ ShutdownCompletes

\* Every shutdown of a process handle ends, whatever the child and its descendants
\* do, and a watched child's exit is recorded (ProcessHandle).
HandleProgress == ShutdownEnds /\ ExitObserved
=============================================================================
